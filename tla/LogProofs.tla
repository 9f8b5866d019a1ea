----------------------------- MODULE LogProofs -----------------------------
(* Theorems about ChannelLog, for every value of its constants.            *)
EXTENDS ChannelLog, FiniteSetTheorems, TLAPS

(***************************************************************************)
(* Type correctness.                                                       *)
(***************************************************************************)

\* What _trim keeps is part of what there was, and so is one response.
LEMMA PartOf == \A S, n : Lowest(S, n) \subseteq S /\ Kept(S) \subseteq S
BY DEF Lowest, Kept

Transaction == [at : Places, seq : 0..MaxSeq, drop : SUBSET (0..MaxSeq)]

PubType ==
    /\ pub \in [Requests -> Transaction]
    /\ \A r \in Requests : Open(r) => pub[r].seq \in Seqs

LEMMA AtType ==
    ASSUME PubType, NEW r \in Requests,
           NEW where \in Places \ {"inserting", "placed"}, At(r, where)
    PROVE  PubType'
<1>1. [pub[r] EXCEPT !.at = where] \in Transaction
    BY DEF PubType, Transaction
<1>2. pub' = [pub EXCEPT ![r] = [pub[r] EXCEPT !.at = where]]
    BY DEF At
<1>3. pub' \in [Requests -> Transaction]
    BY <1>1, <1>2 DEF PubType
<1>4. pub'[r].at = where
    BY <1>2 DEF PubType, Transaction
<1>5. \A q \in Requests \ {r} : pub'[q] = pub[q]
    BY <1>2 DEF PubType
<1> QED BY <1>3, <1>4, <1>5 DEF PubType, Open

\* The transactions of TypeOK, and the rest of it.
RestType ==
    /\ last \in 0..MaxSeq
    /\ author \in [Seqs -> Requests \cup {None}]
    /\ log \subseteq posted /\ posted \subseteq Seqs /\ late \subseteq Seqs
    /\ answer \in [Requests -> 0..MaxSeq]
    /\ member \subseteq Workers
    /\ cursor \in [Workers -> 0..MaxSeq]
    /\ plan \in [Workers -> [op : {"none", "join", "rewind", "skip"}, to : 0..MaxSeq]]
    /\ redo \in [Workers -> SUBSET Seqs]
    /\ resp \in [Workers -> [at : {"none", "read", "sent"}, seqs : SUBSET Seqs]]
    /\ got \in [Workers -> SUBSET Seqs] /\ owed \in [Workers -> SUBSET Seqs]
    /\ acts \in Histories

LEMMA TwoTypes == TypeOK <=> PubType /\ RestType
BY DEF TypeOK, PubType, RestType, Transaction

LEMMA TwoTypesNext == TypeOK' <=> PubType' /\ RestType'
BY DEF TypeOK, PubType, RestType, Transaction, Open

LEMMA LogTypeInit == Init => TypeOK
<1> SUFFICES ASSUME Init PROVE TypeOK
    OBVIOUS
<1> USE LogAssumption
<1>1. PubType
    <2>1. Idle \in Transaction
        BY DEF Idle, Transaction, Places
    <2> QED BY <2>1 DEF Init, PubType, Open, Idle
<1>2. plan \in [Workers -> [op : {"none", "join", "rewind", "skip"}, to : 0..MaxSeq]]
    BY DEF Init, NoPlan
<1>3. resp \in [Workers -> [at : {"none", "read", "sent"}, seqs : SUBSET Seqs]]
    BY DEF Init, NoResp
<1> QED BY <1>1, <1>2, <1>3, TwoTypes DEF Init, RestType, NoAnswer, Seqs

LEMMA PublishType ==
    ASSUME PubType, RestType, NEW r \in Requests, Publish(r)
    PROVE  PubType' /\ RestType'
<1> USE LogAssumption
<1>a. \A where \in Places \ {"inserting", "placed"} : At(r, where) => PubType'
    BY AtType
<1>b. \A s \in log : s \in 0..MaxSeq
    BY DEF RestType, Seqs
<1>1. CASE Check(r)
    <2>1. \A S : Lowest(S, 1) \subseteq S
        BY PartOf
    <2>2. PubType'
        BY <1>1, <1>a DEF Check, Places
    <2>3. answer' \in [Requests -> 0..MaxSeq]
        BY <1>1, <1>b, <2>1 DEF Check, RestType
    <2> QED BY <1>1, <2>2, <2>3 DEF Check, RestType, reading, place
<1>2. CASE Insert(r)
    <2>1. last' \in 0..MaxSeq /\ last' \in Seqs
        BY <1>2 DEF Insert, RestType, Seqs
    <2>2. late' \subseteq Seqs
        BY <1>2 DEF Insert, Overtaken, InFlight, RestType
    <2>3. PubType'
        <3>1. pub' \in [Requests -> Transaction]
            BY <1>2, <2>1 DEF Insert, PubType, Transaction, Places
        <3>2. \A q \in Requests : Open(q)' => pub'[q].seq \in Seqs
            BY <1>2, <2>1 DEF Insert, PubType, Open
        <3> QED BY <3>1, <3>2 DEF PubType
    <2>4. author' \in [Seqs -> Requests \cup {None}]
        BY <1>2 DEF Insert, RestType
    <2> QED BY <1>2, <2>1, <2>2, <2>3, <2>4 DEF Insert, RestType, reading, place
<1>3. CASE Place(r)
    <2>1. Open(r) /\ pub[r].seq \in Seqs
        BY <1>3 DEF Place, Open, PubType
    <2>2. PubType'
        <3>1. CASE \E t \in log : Told(r, author[t])
            BY <1>3, <1>a, <3>1 DEF Place, Places
        <3>2. CASE ~ \E t \in log : Told(r, author[t])
            <4> DEFINE drop == (log \cup {pub[r].seq}) \ Kept(log \cup {pub[r].seq})
                       tx == [at |-> "placed", seq |-> pub[r].seq, drop |-> drop]
            <4>1. drop \in SUBSET (0..MaxSeq)
                BY <1>b, <2>1 DEF Seqs
            <4>3. pub' = [pub EXCEPT ![r] = tx]
                BY <1>3, <3>2 DEF Place
            <4>2. tx \in Transaction
                <5> HIDE DEF drop
                <5> QED BY <2>1, <4>1 DEF Transaction, Places, Seqs
            <4>4. pub' \in [Requests -> Transaction]
                BY <4>2, <4>3 DEF PubType
            <4>5. pub'[r].seq \in Seqs /\ \A q \in Requests \ {r} : pub'[q] = pub[q]
                BY <2>1, <4>3 DEF PubType
            <4> QED BY <4>4, <4>5 DEF PubType, Open
        <3> QED BY <3>1, <3>2
    <2> QED BY <1>3, <2>2 DEF Place, RestType, reading, place
<1>4. CASE Commit(r)
    <2>1. pub[r].seq \in Seqs
        BY <1>4 DEF Commit, PubType, Open
    <2>2. log' \subseteq posted' /\ posted' \subseteq Seqs
        BY <1>4, <2>1 DEF Commit, RestType
    <2>3. owed' \in [Workers -> SUBSET Seqs] /\ redo' \in [Workers -> SUBSET Seqs]
        BY <1>4, <2>2 DEF Commit, RestType
    <2>4. PubType'
        BY <1>4, <1>a DEF Commit, Places
    <2> QED BY <1>4, <2>2, <2>3, <2>4 DEF Commit, RestType, place
<1>5. CASE Confirm(r)
    <2>1. answer' \in [Requests -> 0..MaxSeq]
        BY <1>5 DEF Confirm, PubType, RestType, Transaction
    <2>2. PubType'
        BY <1>5, <1>a DEF Confirm, Places
    <2> QED BY <1>5, <2>1, <2>2 DEF Confirm, RestType, reading, place
<1>6. CASE Lookup(r)
    <2>1. PubType'
        BY <1>6, <1>a DEF Lookup, Places
    <2>2. answer' \in [Requests -> 0..MaxSeq]
        BY <1>6, <1>b DEF Lookup, RestType
    <2> QED BY <1>6, <2>1, <2>2 DEF Lookup, RestType, reading, place
<1> QED BY <1>1, <1>2, <1>3, <1>4, <1>5, <1>6 DEF Publish

LEMMA FailType ==
    ASSUME PubType, RestType, NEW r \in Requests,
           Fail(r) \/ Mute(Cid[r]) \/ Unmute(Cid[r])
    PROVE  PubType' /\ RestType'
<1>1. CASE Fail(r)
    <2>1. Idle \in Transaction
        BY LogAssumption DEF Idle, Transaction, Places
    <2> QED BY <1>1, <2>1 DEF Fail, Act, PubType, RestType, Idle, Open, reading, place
<1>2. CASE Mute(Cid[r]) \/ Unmute(Cid[r])
    BY <1>2 DEF Mute, Unmute, Act, PubType, RestType, Open, reading, place
<1> QED BY <1>1, <1>2

\* A cursor that an acknowledgement or an administrator moves stays in range.
LEMMA MovesType ==
    ASSUME RestType, NEW w \in Workers, NEW s \in Seqs, NEW top \in 0..MaxSeq,
           Forward(w, s, top)
    PROVE  cursor' \in [Workers -> 0..MaxSeq]
BY LogAssumption DEF RestType, Forward, Seqs

LEMMA GiveUpType ==
    ASSUME RestType, NEW w \in Workers, NEW n, GiveUp(w, n)
    PROVE  owed' \in [Workers -> SUBSET Seqs]
BY DEF RestType, GiveUp

LEMMA ReaderType ==
    ASSUME PubType, RestType, NEW w \in Workers,
           Deliver(w) \/ Lose(w) \/ \E s \in Seqs : Ack(w, s) \/ StrayAck(w, s)
    PROVE  PubType' /\ RestType'
<1> USE LogAssumption
<1>1. UNCHANGED writing => PubType'
    BY DEF writing, PubType, Open
<1>2. CASE Read(w)
    <2>1. resp'[w].seqs \subseteq log /\ resp'[w].at = "read"
        BY <1>2, PartOf DEF Read, Others, RestType
    <2>2. resp' \in [Workers -> [at : {"none", "read", "sent"}, seqs : SUBSET Seqs]]
        BY <1>2, <2>1 DEF Read, RestType
    <2> QED BY <1>1, <1>2, <2>2 DEF Read, RestType, writing, place
<1>3. CASE Spend(w)
    <2>1. [resp[w] EXCEPT !.at = "sent"]
             \in [at : {"none", "read", "sent"}, seqs : SUBSET Seqs]
        <3>1. resp[w] \in [at : {"none", "read", "sent"}, seqs : SUBSET Seqs]
            BY DEF RestType
        <3> QED BY <3>1
    <2>2. resp' = [resp EXCEPT ![w] = [resp[w] EXCEPT !.at = "sent"]]
        BY <1>3 DEF Spend
    <2>3. resp' \in [Workers -> [at : {"none", "read", "sent"}, seqs : SUBSET Seqs]]
        BY <2>1, <2>2 DEF RestType
    <2>4. redo' \in [Workers -> SUBSET Seqs]
        BY <1>3 DEF Spend, RestType
    <2> QED BY <1>1, <1>3, <2>3, <2>4 DEF Spend, RestType, writing, place
<1>4. CASE Receive(w) \/ Lose(w)
    <2>1. resp' \in [Workers -> [at : {"none", "read", "sent"}, seqs : SUBSET Seqs]]
        <3>1. NoResp \in [at : {"none", "read", "sent"}, seqs : SUBSET Seqs]
            BY DEF NoResp
        <3>2. resp' = [resp EXCEPT ![w] = NoResp]
            BY <1>4 DEF Receive, Lose
        <3> QED BY <3>1, <3>2 DEF RestType
    <2>2. got' \in [Workers -> SUBSET Seqs]
        <3>1. resp[w].seqs \subseteq Seqs
            BY DEF RestType
        <3> QED BY <1>4, <3>1 DEF Receive, Lose, RestType
    <2> QED BY <1>1, <1>4, <2>1, <2>2 DEF Receive, Lose, Act, RestType, writing, place
<1>5. ASSUME NEW s \in Seqs, Ack(w, s) PROVE PubType' /\ RestType'
    <2>1. cursor' \in [Workers -> 0..MaxSeq]
        BY <1>5, MovesType DEF Ack, Tops, RestType
    <2> QED BY <1>1, <1>5, <2>1 DEF Ack, RestType, writing
<1>6. ASSUME NEW s \in Seqs, StrayAck(w, s) PROVE PubType' /\ RestType'
    <2>1. cursor' \in [Workers -> 0..MaxSeq]
        BY <1>6, MovesType DEF StrayAck, Tops, RestType
    <2>2. owed' \in [Workers -> SUBSET Seqs]
        BY <1>6, GiveUpType DEF StrayAck
    <2> QED BY <1>1, <1>6, <2>1, <2>2 DEF StrayAck, Act, RestType, writing
<1> QED BY <1>2, <1>3, <1>4, <1>5, <1>6 DEF Deliver

Plans == [op : {"none", "join", "rewind", "skip"}, to : 0..MaxSeq]

LEMMA AdminType ==
    ASSUME PubType, RestType, NEW w \in Workers, Admin(w)
    PROVE  PubType' /\ RestType'
<1> USE LogAssumption
<1>1. UNCHANGED writing => PubType'
    BY DEF writing, PubType, Open
<1>9. NoPlan \in Plans
    BY DEF NoPlan, Plans
<1>2. Overtaken => late' \subseteq Seqs
    BY DEF Overtaken, InFlight, RestType
<1>3. CASE JoinRead(w) \/ SkipRead(w)
    <2>1. [op |-> "join", to |-> last] \in Plans /\ [op |-> "skip", to |-> last] \in Plans
        BY DEF Plans, RestType
    <2>2. plan' \in [Workers -> Plans]
        BY <1>3, <2>1 DEF JoinRead, SkipRead, Plan, RestType, Plans
    <2> QED BY <1>1, <1>2, <1>3, <2>2 DEF JoinRead, SkipRead, Plan, Act, RestType, Plans, writing
<1>4. CASE Join(w) \/ JoinFromStart(w)
    <2>1. ASSUME NEW from \in 0..MaxSeq, Enter(w, from)
          PROVE  /\ member' \subseteq Workers /\ cursor' \in [Workers -> 0..MaxSeq]
                 /\ owed' \in [Workers -> SUBSET Seqs]
        <3>1. {s \in Others(w, log) : s > from} \subseteq Seqs
            BY DEF Others, RestType
        <3> QED BY <2>1, <3>1 DEF Enter, RestType
    <2>2. plan[w].to \in 0..MaxSeq /\ 0 \in 0..MaxSeq
        BY DEF RestType
    <2>3. plan' \in [Workers -> Plans]
        BY <1>4, <1>9 DEF Join, JoinFromStart, Carry, RestType, Plans
    <2>4. CASE \E from \in 0..MaxSeq : Enter(w, from)
        <3>1. /\ member' \subseteq Workers /\ cursor' \in [Workers -> 0..MaxSeq]
              /\ owed' \in [Workers -> SUBSET Seqs]
            BY <2>1, <2>4
        <3>2. UNCHANGED <<writing, redo, resp, got, late>>
            BY <2>4 DEF Enter
        <3>3. acts' \in Histories
            BY <1>4 DEF Join, JoinFromStart, Act, RestType
        <3> QED BY <1>1, <2>3, <3>1, <3>2, <3>3 DEF RestType, Plans, writing
    <2>5. CASE ~ \E from \in 0..MaxSeq : Enter(w, from)
        BY <1>1, <1>4, <2>2, <2>3, <2>5
        DEF Join, JoinFromStart, Act, RestType, Plans, writing
    <2> QED BY <2>4, <2>5
<1>5. CASE Leave(w)
    BY <1>1, <1>5 DEF Leave, Act, RestType, NoResp, writing
<1>6. CASE SendAgain(w)
    BY <1>1, <1>6 DEF SendAgain, Act, RestType, writing, place
<1>7. CASE RewindRead(w)
    <2>1. \A s \in log : s - 1 \in 0..MaxSeq
        BY DEF RestType, Seqs
    <2> QED BY <1>1, <1>7, <2>1 DEF RewindRead, Plan, Act, RestType, writing
<1>8. CASE Rewind(w) \/ Skip(w)
    <2>1. owed' \in [Workers -> SUBSET Seqs]
        BY <1>8, GiveUpType DEF Rewind, Skip
    <2>2. plan' \in [Workers -> Plans]
        BY <1>8, <1>9 DEF Rewind, Skip, Carry, RestType, Plans
    <2>3. plan[w].to \in 0..MaxSeq /\ cursor[w] \in 0..MaxSeq
        BY DEF RestType
    <2>4. cursor' \in [Workers -> 0..MaxSeq]
        BY <1>8, <2>3 DEF Rewind, Skip, RestType
    <2> QED BY <1>1, <1>8, <2>1, <2>2, <2>4 DEF Rewind, Skip, RestType, Plans, writing
<1> QED BY <1>3, <1>4, <1>5, <1>6, <1>7, <1>8 DEF Admin

LEMMA LogTypeStep == TypeOK /\ [Next]_vars => TypeOK'
<1> SUFFICES ASSUME PubType, RestType, [Next]_vars PROVE PubType' /\ RestType'
    BY TwoTypes, TwoTypesNext
<1>1. CASE \E r \in Requests : Publish(r) \/ Fail(r) \/ Mute(Cid[r]) \/ Unmute(Cid[r])
    BY <1>1, PublishType, FailType
<1>2. ASSUME NEW w \in Workers, Deliver(w) \/ Lose(w) \/ Admin(w)
                 \/ \E s \in Seqs : Ack(w, s) \/ StrayAck(w, s)
      PROVE  PubType' /\ RestType'
    BY <1>2, ReaderType, AdminType
<1>3. CASE UNCHANGED vars
    BY <1>3 DEF vars, writing, reading, place, PubType, RestType, Open
<1> QED BY <1>1, <1>2, <1>3 DEF Next

\* Every variable keeps its type, for any workers, publishes and histories.
THEOREM LogTypeCorrect == Spec => []TypeOK
BY LogTypeInit, LogTypeStep, PTL DEF Spec

(***************************************************************************)
(* Publishing: an id is stored once, and what a publisher is told is true. *)
(***************************************************************************)

\* Where a transaction is: the seq an open one took is its own, nobody else
\* committed it, and a stored one is committed.
WriteInv ==
    /\ posted \subseteq 1..last /\ late \subseteq 1..last
    /\ \A s \in posted : author[s] \in Requests
    /\ \A r \in Requests : Open(r) =>
          pub[r].seq \in (1..last) \ posted /\ author[pub[r].seq] = r
    /\ \A r \in Requests : pub[r].at = "stored" =>
          pub[r].seq \in posted /\ author[pub[r].seq] = r

\* A placed row is the only telling of its id.
UniqueInv ==
    \A r \in Requests : pub[r].at = "placed" =>
        /\ \A t \in log : ~ Told(r, author[t])
        /\ \A q \in Requests \ {r} : pub[q].at = "placed" => ~ Told(r, q)

PublishInv == TypeOK /\ WriteInv /\ UniqueInv /\ StoredOnce /\ Confirmed

LEMMA AtFrame ==
    ASSUME TypeOK, NEW r \in Requests, NEW where, At(r, where)
    PROVE  /\ pub'[r].at = where /\ pub'[r].seq = pub[r].seq
           /\ \A q \in Requests \ {r} : pub'[q] = pub[q]
BY DEF At, TypeOK

\* What readers and administrators do, and what ends a transaction without
\* storing anything.
WriteFrame ==
    /\ UNCHANGED <<last, author, log, posted>>
    /\ late' = late \/ Overtaken
    /\ \A q \in Requests : pub'[q] = pub[q] \/ pub'[q].at \in {"idle", "checked", "clash", "done"}

LEMMA InFlightTaken ==
    ASSUME TypeOK, WriteInv PROVE InFlight \subseteq (1..last) \ posted
BY DEF WriteInv, InFlight

LEMMA Framed ==
    ASSUME TypeOK, WriteInv, UniqueInv, StoredOnce, WriteFrame
    PROVE  WriteInv' /\ UniqueInv' /\ StoredOnce'
<1>1. late' \subseteq 1..last'
    BY InFlightTaken DEF WriteFrame, WriteInv, Overtaken
<1>2. \A q \in Requests : Open(q)' => Open(q) /\ pub'[q] = pub[q]
    BY DEF WriteFrame, Open
<1>3. WriteInv'
    BY <1>1, <1>2 DEF WriteFrame, WriteInv
<1>4. UniqueInv'
    BY DEF WriteFrame, UniqueInv, Told
<1>5. StoredOnce'
    BY DEF WriteFrame, StoredOnce, Told
<1> QED BY <1>3, <1>4, <1>5

LEMMA ConfirmedFrame ==
    ASSUME Confirmed, posted \subseteq posted', UNCHANGED answer,
           \A s \in posted : author'[s] = author[s]
    PROVE  Confirmed'
BY DEF Confirmed, Told, SameJob

LEMMA PublishPreserves ==
    ASSUME PublishInv, NEW r \in Requests, Publish(r)
    PROVE  WriteInv' /\ UniqueInv' /\ StoredOnce' /\ Confirmed'
<1> USE LogAssumption
<1>0. TypeOK /\ WriteInv /\ UniqueInv /\ StoredOnce /\ Confirmed
    BY DEF PublishInv
<1>f. \A where : At(r, where) =>
          /\ pub'[r].at = where /\ pub'[r].seq = pub[r].seq
          /\ \A q \in Requests \ {r} : pub'[q] = pub[q]
    BY <1>0, AtFrame
<1>1. CASE Check(r)
    <2>1. WriteFrame
        BY <1>1, <1>f DEF Check, WriteFrame
    <2>2. Confirmed'
        <3>1. \A s : s \in Lowest({t \in log : SameJob(r, author[t])}, 1)
                       => s \in posted /\ SameJob(r, author[s])
            BY <1>0 DEF Lowest, TypeOK
        <3>2. \A q \in Requests : answer'[q] # answer[q] =>
                 q = r /\ answer'[q] \in posted /\ SameJob(r, author[answer'[q]])
            BY <1>0, <1>1, <3>1 DEF Check, TypeOK
        <3> QED BY <1>0, <1>1, <3>2 DEF Check, Confirmed, Told, SameJob
    <2> QED BY <1>0, <2>1, <2>2, Framed
<1>2. CASE Insert(r)
    <2>1. /\ last \in Nat /\ last' = last + 1 /\ pub'[r].seq = last + 1
          /\ pub'[r].at = "inserting"
          /\ \A q \in Requests \ {r} : pub'[q] = pub[q]
        BY <1>0, <1>2 DEF Insert, TypeOK
    <2>2. author'[last + 1] = r /\ \A s \in 1..last : author'[s] = author[s]
        BY <1>0, <1>2 DEF Insert, TypeOK, Seqs
    <2>3. late' \subseteq 1..last'
        <3>1. late' \subseteq 1..last
            BY <1>0, <1>2, InFlightTaken DEF Insert, Overtaken, WriteInv
        <3> QED BY <2>1, <3>1
    <2>4. WriteInv'
        <3>1. posted' = posted /\ posted \subseteq 1..last
            BY <1>0, <1>2 DEF Insert, WriteInv
        <3>2. \A s \in posted' : author'[s] \in Requests
            BY <1>0, <2>2, <3>1 DEF WriteInv
        <3>3. ASSUME NEW q \in Requests, Open(q)'
              PROVE  pub'[q].seq \in (1..last') \ posted' /\ author'[pub'[q].seq] = q
            BY <1>0, <2>1, <2>2, <3>1, <3>3 DEF WriteInv, Open
        <3>4. ASSUME NEW q \in Requests, pub'[q].at = "stored"
              PROVE  pub'[q].seq \in posted' /\ author'[pub'[q].seq] = q
            <4>1. q # r /\ pub'[q] = pub[q]
                BY <2>1, <3>4
            <4>2. pub[q].seq \in posted /\ author[pub[q].seq] = q
                BY <1>0, <3>4, <4>1 DEF WriteInv
            <4> QED BY <2>2, <3>1, <4>1, <4>2
        <3> QED BY <2>1, <2>3, <3>1, <3>2, <3>3, <3>4 DEF WriteInv
    <2>5. log' = log /\ \A s \in log : author'[s] = author[s]
        BY <1>0, <1>2, <2>2 DEF Insert, WriteInv, TypeOK
    <2>6. UniqueInv' /\ StoredOnce'
        BY <1>0, <2>1, <2>5 DEF UniqueInv, StoredOnce, Told
    <2>7. Confirmed'
        BY <1>0, <1>2, <2>2, ConfirmedFrame DEF Insert, WriteInv
    <2> QED BY <2>4, <2>6, <2>7
<1>3. CASE Place(r)
    <2>1. CASE \E t \in log : Told(r, author[t])
        <3>1. WriteFrame
            BY <1>3, <1>f, <2>1 DEF Place, WriteFrame
        <3> QED BY <1>0, <1>3, <3>1, Framed, ConfirmedFrame DEF Place
    <2>2. CASE ~ \E t \in log : Told(r, author[t])
        <3>1. /\ pub'[r].seq = pub[r].seq /\ pub'[r].at = "placed" /\ Open(r)
              /\ \A q \in Requests \ {r} : pub'[q] = pub[q]
            BY <1>0, <1>3, <2>2 DEF Place, TypeOK, Open
        <3>2. WriteInv'
            BY <1>0, <1>3, <3>1 DEF Place, WriteInv, Open
        <3>3. UniqueInv'
            BY <1>0, <1>3, <2>2, <3>1 DEF Place, UniqueInv, Told
        <3>4. StoredOnce'
            BY <1>0, <1>3 DEF Place, StoredOnce, Told
        <3> QED BY <1>0, <1>3, <3>2, <3>3, <3>4, ConfirmedFrame DEF Place
    <2> QED BY <2>1, <2>2
<1>4. CASE Commit(r)
    <2> DEFINE s == pub[r].seq
    <2>1. s \in (1..last) \ posted /\ author[s] = r /\ pub[r].at = "placed"
        BY <1>0, <1>4 DEF Commit, WriteInv, Open
    <2>2. /\ pub'[r].at = "stored" /\ pub'[r].seq = s
          /\ \A q \in Requests \ {r} : pub'[q] = pub[q]
        BY <1>4, <1>f DEF Commit
    <2>3. posted' = posted \cup {s} /\ log' \subseteq log \cup {s}
        BY <1>4 DEF Commit
    <2>4. UNCHANGED <<last, author, late, answer>>
        BY <1>4 DEF Commit
    <2> HIDE DEF s
    <2>5. WriteInv'
        <3>1. ASSUME NEW q \in Requests, Open(q)'
              PROVE  pub'[q].seq \in (1..last') \ posted' /\ author'[pub'[q].seq] = q
            BY <1>0, <2>1, <2>2, <2>3, <2>4, <3>1 DEF WriteInv, Open
        <3>2. ASSUME NEW q \in Requests, pub'[q].at = "stored"
              PROVE  pub'[q].seq \in posted' /\ author'[pub'[q].seq] = q
            BY <1>0, <2>1, <2>2, <2>3, <2>4, <3>2 DEF WriteInv
        <3> QED BY <1>0, <2>1, <2>3, <2>4, <3>1, <3>2 DEF WriteInv
    <2>6. UniqueInv'
        BY <1>0, <2>1, <2>2, <2>3, <2>4 DEF UniqueInv, Told
    <2>7. StoredOnce'
        <3>1. \A t \in log : author[t] \in Requests
            BY <1>0 DEF WriteInv, TypeOK
        <3>2. \A t \in log : ~ Told(r, author[t])
            BY <1>0, <2>1 DEF UniqueInv
        <3> QED BY <1>0, <2>1, <2>3, <2>4, <3>1, <3>2 DEF StoredOnce, Told
    <2>8. Confirmed'
        BY <1>0, <2>3, <2>4, ConfirmedFrame
    <2> QED BY <2>5, <2>6, <2>7, <2>8
<1>5. CASE Confirm(r)
    <2>1. WriteFrame
        BY <1>5, <1>f DEF Confirm, WriteFrame
    <2>2. pub[r].seq \in posted /\ author[pub[r].seq] = r
        BY <1>0, <1>5 DEF Confirm, WriteInv
    <2>3. \A q \in Requests : answer'[q] # answer[q] => q = r /\ answer'[q] = pub[r].seq
        BY <1>0, <1>5 DEF Confirm, TypeOK
    <2>4. Confirmed'
        BY <1>0, <1>5, <2>2, <2>3 DEF Confirm, Confirmed, Told, SameJob
    <2> QED BY <1>0, <2>1, <2>4, Framed
<1>6. CASE Lookup(r)
    <2>1. WriteFrame
        BY <1>6, <1>f DEF Lookup, WriteFrame
    <2>2. \A q \in Requests : answer'[q] # answer[q] =>
             q = r /\ answer'[q] \in posted /\ Told(r, author[answer'[q]])
        BY <1>0, <1>6 DEF Lookup, TypeOK
    <2>3. Confirmed'
        BY <1>0, <1>6, <2>2 DEF Lookup, Confirmed, Told, SameJob
    <2> QED BY <1>0, <2>1, <2>3, Framed
<1> QED BY <1>1, <1>2, <1>3, <1>4, <1>5, <1>6 DEF Publish

LEMMA OthersFrame ==
    ASSUME TypeOK, [Next]_vars, \A r \in Requests : ~ Publish(r)
    PROVE  WriteFrame /\ UNCHANGED answer
<1>1. ASSUME NEW r \in Requests, Fail(r) \/ Mute(Cid[r]) \/ Unmute(Cid[r])
      PROVE  WriteFrame /\ UNCHANGED answer
    <2>1. CASE Fail(r)
        <3>1. \A q \in Requests : pub'[q] = pub[q] \/ pub'[q] = Idle
            BY <2>1 DEF Fail, TypeOK
        <3> QED BY <2>1, <3>1 DEF Fail, WriteFrame, Idle
    <2>2. CASE Mute(Cid[r]) \/ Unmute(Cid[r])
        BY <2>2 DEF Mute, Unmute, WriteFrame
    <2> QED BY <1>1, <2>1, <2>2
<1>2. ASSUME NEW w \in Workers, Deliver(w) \/ Lose(w)
      PROVE  WriteFrame /\ UNCHANGED answer
    BY <1>2 DEF Deliver, Read, Spend, Receive, Lose, WriteFrame, writing
<1>3. ASSUME NEW w \in Workers, \E s \in Seqs : Ack(w, s) \/ StrayAck(w, s)
      PROVE  WriteFrame /\ UNCHANGED answer
    BY <1>3 DEF Ack, StrayAck, WriteFrame, writing
<1>4. ASSUME NEW w \in Workers, Admin(w)
      PROVE  WriteFrame /\ UNCHANGED answer
    <2>1. UNCHANGED writing /\ (UNCHANGED late \/ Overtaken)
        BY <1>4 DEF Admin, JoinRead, Join, JoinFromStart, Enter, Leave, SendAgain,
                    RewindRead, Rewind, SkipRead, Skip, Plan
    <2> QED BY <2>1 DEF writing, WriteFrame
<1>5. CASE UNCHANGED vars
    BY <1>5 DEF vars, writing, WriteFrame
<1> QED BY <1>1, <1>2, <1>3, <1>4, <1>5 DEF Next

LEMMA PublishInitial == Init => PublishInv
<1> SUFFICES ASSUME Init PROVE PublishInv
    OBVIOUS
<1>1. TypeOK
    BY LogTypeInit
<1>2. \A r \in Requests : pub[r].at = "idle"
    BY DEF Init, Idle
<1> QED BY <1>1, <1>2
        DEF Init, PublishInv, WriteInv, UniqueInv, StoredOnce, Confirmed, Open

LEMMA PublishStep == PublishInv /\ [Next]_vars => PublishInv'
<1> SUFFICES ASSUME PublishInv, [Next]_vars PROVE PublishInv'
    OBVIOUS
<1>1. TypeOK'
    BY LogTypeStep DEF PublishInv
<1>2. CASE \E r \in Requests : Publish(r)
    BY <1>1, <1>2, PublishPreserves DEF PublishInv
<1>3. CASE \A r \in Requests : ~ Publish(r)
    <2>1. WriteFrame /\ UNCHANGED answer
        BY <1>3, OthersFrame DEF PublishInv
    <2>2. WriteInv' /\ UniqueInv' /\ StoredOnce'
        BY <2>1, Framed DEF PublishInv
    <2>3. Confirmed'
        BY <2>1, ConfirmedFrame DEF PublishInv, WriteFrame
    <2> QED BY <1>1, <2>2, <2>3 DEF PublishInv
<1> QED BY <1>2, <1>3

THEOREM Published == Spec => []PublishInv
BY PublishInitial, PublishStep, PTL DEF Spec

\* However tellings of one id overlap and fail, one of them is in the channel.
THEOREM StoredOnceAlways == Spec => []StoredOnce
BY Published, PTL DEF PublishInv

\* Whatever a publisher is told was committed, and is what it published, or its
\* id's or its job's earlier telling.
THEOREM ConfirmedAlways == Spec => []Confirmed
BY Published, PTL DEF PublishInv

(***************************************************************************)
(* Delivery: what a member's cursor passes was received, or was late.      *)
(***************************************************************************)

\* An open transaction that nobody overtook has the last seq, and is above
\* every place in the channel and every place an administrator has in mind.
FreshInv ==
    \A s \in InFlight \ late :
        s = last /\ \A w \in Workers : cursor[w] < s /\ plan[w].to < s

ReadInv ==
    \A w \in Workers :
        /\ cursor[w] <= last /\ plan[w].to <= last
        /\ got[w] \subseteq posted /\ resp[w].seqs \subseteq posted
        /\ owed[w] \subseteq Others(w, log)
        /\ w \notin member => got[w] = {} /\ resp[w] = NoResp /\ owed[w] = {}

\* Whatever a member received or is being sent, it has or is being sent what
\* was posted to it in time below that.
InOrder(w) ==
    \A s \in owed[w] \ late :
        /\ s <= cursor[w] => s \in got[w]
        /\ \A t \in got[w] : s < t => s \in got[w]
        /\ \A t \in resp[w].seqs : s < t => s \in got[w] \cup resp[w].seqs

OrderInv == \A w \in Workers : InOrder(w)

DeliverInv == FreshInv /\ ReadInv /\ OrderInv
Base == TypeOK /\ WriteInv /\ DeliverInv

\* A response carries the lowest: what is below a part of it is in it.
LEMMA LowestFirst ==
    ASSUME NEW S \in SUBSET Seqs, NEW n \in Nat, NEW s \in S,
           NEW t \in Lowest(S, n), s < t
    PROVE  s \in Lowest(S, n)
<1> DEFINE A == {x \in S : x < s}
           B == {x \in S : x < t}
<1>1. A \subseteq B
    <2>1. \A x \in S : x \in Nat
        BY LogAssumption DEF Seqs
    <2>2. t \in S
        BY DEF Lowest
    <2> QED BY <2>1, <2>2
<1>2. IsFiniteSet(B)
    <2>1. IsFiniteSet(Seqs)
        BY FS_Interval, LogAssumption DEF Seqs
    <2> QED BY <2>1, FS_Subset
<1>3. Cardinality(A) <= Cardinality(B) /\ Cardinality(A) \in Nat /\ Cardinality(B) \in Nat
    BY <1>1, <1>2, FS_Subset, FS_CardinalityType
<1>4. Cardinality(B) < n
    BY DEF Lowest
<1> QED BY <1>3, <1>4 DEF Lowest

\* Steps that move nobody, and open no transaction.
LEMMA Quiet ==
    ASSUME DeliverInv, UNCHANGED <<last, author, log, member, cursor, plan, resp, got, owed>>,
           InFlight' \subseteq InFlight, late \subseteq late', posted \subseteq posted'
    PROVE  DeliverInv'
<1>1. FreshInv'
    BY DEF DeliverInv, FreshInv
<1>2. ReadInv'
    BY DEF DeliverInv, ReadInv, Others
<1>3. ASSUME NEW w \in Workers PROVE InOrder(w)'
    <2>1. InOrder(w)
        BY DEF DeliverInv, OrderInv
    <2> QED BY <2>1 DEF InOrder
<1> QED BY <1>1, <1>2, <1>3 DEF DeliverInv, OrderInv

LEMMA PublishDelivers ==
    ASSUME Base, NEW r \in Requests, Publish(r)
    PROVE  DeliverInv'
<1> USE LogAssumption
<1>0. TypeOK /\ WriteInv /\ DeliverInv /\ FreshInv /\ ReadInv /\ OrderInv
    BY DEF Base, DeliverInv
<1>f. \A where : At(r, where) =>
          /\ pub'[r].at = where /\ pub'[r].seq = pub[r].seq
          /\ \A q \in Requests \ {r} : pub'[q] = pub[q]
    BY <1>0, AtFrame
<1>1. CASE Check(r) \/ Confirm(r) \/ Lookup(r) \/ Place(r)
    <2>1. \A q \in Requests : Open(q)' => Open(q) /\ pub'[q].seq = pub[q].seq
        <3>1. CASE Check(r) \/ Confirm(r) \/ Lookup(r)
            BY <1>f, <3>1 DEF Check, Confirm, Lookup, Open
        <3>2. CASE Place(r)
            <4>1. Open(r)
                BY <3>2 DEF Place, Open
            <4>2. pub'[r].seq = pub[r].seq /\ \A q \in Requests \ {r} : pub'[q] = pub[q]
                BY <1>0, <1>f, <3>2 DEF Place, TypeOK
            <4> QED BY <4>1, <4>2 DEF Open
        <3> QED BY <1>1, <3>1, <3>2
    <2>2. InFlight' \subseteq InFlight
        BY <2>1 DEF InFlight
    <2>3. UNCHANGED <<last, author, log, posted, reading, late>>
        BY <1>1 DEF Check, Confirm, Lookup, Place
    <2> QED BY <1>0, <2>2, <2>3, Quiet DEF reading, place
<1>2. CASE Insert(r)
    <2>1. last \in Nat /\ last' = last + 1 /\ late' = late \cup InFlight
        BY <1>0, <1>2 DEF Insert, Overtaken, TypeOK
    <2>2. InFlight' \subseteq InFlight \cup {last + 1}
        BY <1>0, <1>2 DEF Insert, InFlight, Open, TypeOK
    <2>3. UNCHANGED <<log, posted, member, cursor, plan, resp, got, owed>>
        BY <1>2 DEF Insert, reading, place
    <2>4. \A s \in log : author'[s] = author[s]
        BY <1>0, <1>2, <2>1 DEF Insert, TypeOK, WriteInv, Seqs
    <2>5. \A w \in Workers : cursor[w] \in Nat /\ plan[w].to \in Nat
        BY <1>0 DEF TypeOK
    <2>6. FreshInv'
        BY <1>0, <2>1, <2>2, <2>3, <2>5 DEF FreshInv, ReadInv
    <2>7. ReadInv'
        BY <1>0, <2>1, <2>3, <2>4, <2>5 DEF ReadInv, Others
    <2>8. OrderInv'
        BY <1>0, <2>1, <2>3 DEF OrderInv, InOrder
    <2> QED BY <2>6, <2>7, <2>8 DEF DeliverInv
<1>3. CASE Commit(r)
    <2> DEFINE s == pub[r].seq
    <2>1. s \in (1..last) \ posted /\ author[s] = r /\ s \in Seqs /\ s \in InFlight
        BY <1>0, <1>3 DEF Commit, WriteInv, Open, TypeOK, InFlight
    <2>2. UNCHANGED <<last, author, late, member, cursor, plan, resp, got>>
        BY <1>3 DEF Commit, place
    <2>3. posted' = posted \cup {s} /\ log' \subseteq log \cup {s}
        BY <1>3 DEF Commit
    <2>4. \A w \in Workers :
             /\ owed'[w] \subseteq log' /\ owed'[w] \subseteq owed[w] \cup {s}
             /\ s \in owed'[w] => s \in owed[w] \/ (w \in member /\ Sender[r] # w)
        BY <1>0, <1>3 DEF Commit, TypeOK
    <2>5. InFlight' \subseteq InFlight
        BY <1>3, <1>f DEF Commit, InFlight, Open
    <2> HIDE DEF s
    <2>6. \A w \in Workers : s \notin owed[w]
        BY <1>0, <2>1 DEF ReadInv, Others, TypeOK
    <2>7. FreshInv'
        BY <1>0, <2>2, <2>5 DEF FreshInv
    <2>8. ReadInv'
        <3>1. ASSUME NEW w \in Workers PROVE owed'[w] \subseteq Others(w, log)'
            BY <1>0, <2>1, <2>2, <2>4, <2>6 DEF ReadInv, Others
        <3>2. ASSUME NEW w \in Workers, w \notin member PROVE owed'[w] = {}
            BY <1>0, <2>4, <2>6, <3>2 DEF ReadInv
        <3> QED BY <1>0, <2>2, <2>3, <3>1, <3>2 DEF ReadInv
    <2>9. ASSUME NEW w \in Workers PROVE InOrder(w)'
        <3>1. s \notin late => s = last /\ cursor[w] < s
            BY <1>0, <2>1 DEF FreshInv
        <3>2. \A t \in got[w] \cup resp[w].seqs : t \in 1..last
            BY <1>0 DEF ReadInv, WriteInv
        <3>3. last \in Nat /\ cursor[w] \in Nat
            BY <1>0 DEF TypeOK
        <3>4. InOrder(w)
            BY <1>0 DEF OrderInv
        <3> QED BY <2>1, <2>2, <2>4, <3>1, <3>2, <3>3, <3>4 DEF InOrder
    <2> QED BY <2>7, <2>8, <2>9 DEF DeliverInv, OrderInv
<1> QED BY <1>1, <1>2, <1>3 DEF Publish

\* An acknowledgement moves a cursor no further than what it names and than
\* what is stored.
LEMMA ForwardBounds ==
    ASSUME TypeOK, NEW w \in Workers, NEW s \in Seqs, NEW top \in Tops, Forward(w, s, top)
    PROVE  /\ \A v \in Workers \ {w} : cursor'[v] = cursor[v]
           /\ cursor'[w] = cursor[w]
                 \/ (cursor'[w] <= s /\ cursor'[w] <= last /\ cursor'[w] \in 0..last
                       /\ \A f \in InFlight : f = last => cursor'[w] < f)
<1>1. top \in 0..last /\ top \notin InFlight /\ last \in Nat
    BY DEF Tops, TypeOK
<1>2. cursor[w] \in Nat /\ s \in Nat
    BY LogAssumption DEF TypeOK, Seqs
<1> DEFINE upto == IF s < top THEN s ELSE top
<1>3. upto <= s /\ upto <= top /\ upto \in 0..last
    BY <1>1, <1>2
<1>4. cursor' = [cursor EXCEPT ![w] = IF cursor[w] < upto THEN upto ELSE cursor[w]]
    BY DEF Forward
<1>5. \A f \in InFlight : f = last => upto < f
    BY <1>1, <1>3
<1> HIDE DEF upto
<1>6. cursor'[w] = cursor[w] \/ cursor'[w] = upto
    BY <1>4 DEF TypeOK
<1>7. upto <= last
    BY <1>1, <1>3
<1> QED BY <1>3, <1>4, <1>5, <1>6, <1>7 DEF TypeOK

LEMMA ReaderDelivers ==
    ASSUME Base, NEW w \in Workers,
           Deliver(w) \/ Lose(w) \/ \E s \in Seqs : Ack(w, s) \/ StrayAck(w, s)
    PROVE  DeliverInv'
<1> USE LogAssumption
<1>0. TypeOK /\ WriteInv /\ DeliverInv /\ FreshInv /\ ReadInv /\ OrderInv
    BY DEF Base, DeliverInv
<1>i. UNCHANGED pub => InFlight' = InFlight
    BY DEF InFlight, Open
<1>o. \A v \in Workers : InOrder(v)
    BY <1>0 DEF OrderInv
<1>1. CASE Read(w)
    <2> DEFINE E == Others(w, {s \in log : s > cursor[w] \/ s \in redo[w]})
    <2>1. /\ resp'[w].seqs = Lowest(E, Limit) /\ w \in member
          /\ \A v \in Workers \ {w} : resp'[v] = resp[v]
        BY <1>0, <1>1 DEF Read, TypeOK
    <2>2. E \subseteq log /\ log \subseteq posted /\ E \in SUBSET Seqs
        BY <1>0 DEF Others, TypeOK
    <2>3. UNCHANGED <<writing, member, cursor, plan, got, owed, late>>
        BY <1>1 DEF Read, place
    <2>4. FreshInv'
        BY <1>0, <1>i, <2>3 DEF FreshInv, writing
    <2>5. resp'[w].seqs \subseteq posted
        BY <2>1, <2>2, PartOf
    <2>6. ReadInv'
        BY <1>0, <2>1, <2>3, <2>5 DEF ReadInv, Others, writing
    <2>7. ASSUME NEW s \in owed[w] \ late, NEW t \in Lowest(E, Limit), s < t
          PROVE  s \in got[w] \cup Lowest(E, Limit)
        <3>1. CASE s <= cursor[w]
            BY <1>o, <3>1 DEF InOrder
        <3>2. CASE s > cursor[w]
            <4>1. s \in E
                BY <1>0, <3>2 DEF ReadInv, Others
            <4> HIDE DEF E
            <4> QED BY <2>2, <2>7, <4>1, LowestFirst
        <3>3. s \in Nat /\ cursor[w] \in Nat
            BY <1>0 DEF TypeOK, Seqs
        <3> QED BY <3>1, <3>2, <3>3
    <2> HIDE DEF E
    <2>8. ASSUME NEW v \in Workers PROVE InOrder(v)'
        <3>1. CASE v = w
            BY <1>o, <2>1, <2>3, <2>7, <3>1 DEF InOrder
        <3>2. CASE v # w
            BY <1>o, <2>1, <2>3, <3>2 DEF InOrder
        <3> QED BY <3>1, <3>2
    <2> QED BY <2>4, <2>6, <2>8 DEF DeliverInv, OrderInv
<1>2. CASE Spend(w)
    <2>1. \A v \in Workers : resp'[v].seqs = resp[v].seqs /\ (v # w => resp'[v] = resp[v])
        BY <1>0, <1>2 DEF Spend, TypeOK
    <2>2. w \in member
        BY <1>0, <1>2 DEF Spend, ReadInv, NoResp
    <2>3. UNCHANGED <<writing, member, cursor, plan, got, owed, late>>
        BY <1>2 DEF Spend, place
    <2>4. FreshInv'
        BY <1>0, <1>i, <2>3 DEF FreshInv, writing
    <2>5. ReadInv'
        BY <1>0, <2>1, <2>2, <2>3 DEF ReadInv, Others, writing
    <2>6. OrderInv'
        BY <1>0, <2>1, <2>3 DEF OrderInv, InOrder
    <2> QED BY <2>4, <2>5, <2>6 DEF DeliverInv
<1>3. CASE Receive(w)
    <2>1. /\ got'[w] = got[w] \cup resp[w].seqs /\ resp'[w] = NoResp
          /\ \A v \in Workers \ {w} : got'[v] = got[v] /\ resp'[v] = resp[v]
        BY <1>0, <1>3 DEF Receive, TypeOK
    <2>2. w \in member
        BY <1>0, <1>3 DEF Receive, ReadInv, NoResp
    <2>3. UNCHANGED <<writing, member, cursor, plan, owed, late>>
        BY <1>3 DEF Receive, place
    <2>4. FreshInv'
        BY <1>0, <1>i, <2>3 DEF FreshInv, writing
    <2>5. ReadInv'
        BY <1>0, <2>1, <2>2, <2>3 DEF ReadInv, Others, writing, NoResp
    <2>6. ASSUME NEW v \in Workers PROVE InOrder(v)'
        <3>1. CASE v = w
            BY <1>o, <2>1, <2>3, <3>1 DEF InOrder, NoResp
        <3>2. CASE v # w
            BY <1>o, <2>1, <2>3, <3>2 DEF InOrder
        <3> QED BY <3>1, <3>2
    <2> QED BY <2>4, <2>5, <2>6 DEF DeliverInv, OrderInv
<1>4. CASE Lose(w)
    <2>1. resp'[w] = NoResp /\ \A v \in Workers \ {w} : resp'[v] = resp[v]
        BY <1>0, <1>4 DEF Lose, TypeOK
    <2>2. UNCHANGED <<writing, member, cursor, plan, got, owed, late>>
        BY <1>4 DEF Lose, place
    <2>3. FreshInv'
        BY <1>0, <1>i, <2>2 DEF FreshInv, writing
    <2>4. ReadInv'
        BY <1>0, <2>1, <2>2 DEF ReadInv, Others, writing, NoResp
    <2>5. ASSUME NEW v \in Workers PROVE InOrder(v)'
        <3>1. CASE v = w
            BY <1>o, <2>1, <2>2, <3>1 DEF InOrder, NoResp
        <3>2. CASE v # w
            BY <1>o, <2>1, <2>2, <3>2 DEF InOrder
        <3> QED BY <3>1, <3>2
    <2> QED BY <2>3, <2>4, <2>5 DEF DeliverInv, OrderInv
<1>5. ASSUME NEW s \in Seqs, Ack(w, s) \/ StrayAck(w, s) PROVE DeliverInv'
    <2>1. /\ \A v \in Workers \ {w} : cursor'[v] = cursor[v]
          /\ cursor'[w] = cursor[w]
                \/ (cursor'[w] <= s /\ cursor'[w] <= last /\ cursor'[w] \in 0..last
                      /\ \A f \in InFlight : f = last => cursor'[w] < f)
        BY <1>0, <1>5, ForwardBounds DEF Ack, StrayAck
    <2>2. UNCHANGED <<writing, member, plan, resp, got, late>> /\ w \in member
        BY <1>5 DEF Ack, StrayAck
    <2>3. /\ \A v \in Workers \ {w} : owed'[v] = owed[v]
          /\ owed'[w] \subseteq owed[w]
        BY <1>0, <1>5 DEF Ack, StrayAck, GiveUp, TypeOK
    <2>4. FreshInv'
        BY <1>0, <1>i, <2>1, <2>2 DEF FreshInv, writing
    <2>5. ReadInv'
        BY <1>0, <2>1, <2>2, <2>3 DEF ReadInv, Others, writing
    <2>6. ASSUME NEW x \in owed'[w] \ late, x <= cursor'[w] PROVE x \in got[w]
        <3>1. InOrder(w) /\ x \in owed[w] \ late
            BY <1>o, <2>3
        <3>2. x \in Nat /\ s \in Nat /\ last \in Nat /\ cursor[w] \in Nat /\ x \in Seqs
            BY <1>0, <3>1 DEF TypeOK, Seqs
        <3>3. CASE cursor'[w] = cursor[w]
            BY <2>6, <3>1, <3>3 DEF InOrder
        <3>4. CASE cursor'[w] <= s /\ cursor'[w] <= last /\ cursor'[w] \in 0..last
            <4>1. x <= s /\ x <= last
                BY <2>6, <3>2, <3>4
            <4>2. CASE Ack(w, s)
                <5>1. s \in got[w]
                    BY <4>2 DEF Ack
                <5> QED BY <3>1, <3>2, <4>1, <5>1 DEF InOrder
            <4>3. CASE StrayAck(w, s)
                <5>1. x > (IF s < last THEN s ELSE last)
                    BY <1>0, <4>3, <2>6 DEF StrayAck, GiveUp, TypeOK
                <5> QED BY <3>2, <4>1, <5>1
            <4> QED BY <1>5, <4>2, <4>3
        <3> QED BY <2>1, <3>3, <3>4
    <2>7. ASSUME NEW v \in Workers PROVE InOrder(v)'
        <3>1. CASE v = w
            BY <1>o, <2>2, <2>3, <2>6, <3>1 DEF InOrder
        <3>2. CASE v # w
            BY <1>o, <2>1, <2>2, <2>3, <3>2 DEF InOrder
        <3> QED BY <3>1, <3>2
    <2> QED BY <2>4, <2>5, <2>7 DEF DeliverInv, OrderInv
<1> QED BY <1>1, <1>2, <1>3, <1>4, <1>5 DEF Deliver

LEMMA AdminDelivers ==
    ASSUME Base, NEW w \in Workers, Admin(w)
    PROVE  DeliverInv'
<1> USE LogAssumption
<1>0. TypeOK /\ WriteInv /\ DeliverInv /\ FreshInv /\ ReadInv /\ OrderInv
    BY DEF Base, DeliverInv
<1>i. UNCHANGED pub => InFlight' = InFlight
    BY DEF InFlight, Open
<1>o. \A v \in Workers : InOrder(v)
    BY <1>0 DEF OrderInv
<1>n. last \in Nat /\ \A v \in Workers : cursor[v] \in Nat /\ plan[v].to \in Nat
    BY <1>0 DEF TypeOK
<1>1. CASE JoinRead(w) \/ SkipRead(w)
    <2>1. /\ UNCHANGED <<writing, member, cursor, resp, got, owed>>
          /\ plan'[w].to = last /\ \A v \in Workers \ {w} : plan'[v] = plan[v]
          /\ late' = late \cup InFlight
        BY <1>0, <1>1 DEF JoinRead, SkipRead, Plan, Overtaken, TypeOK
    <2>2. FreshInv'
        BY <1>i, <2>1 DEF FreshInv, writing
    <2>3. ReadInv'
        BY <1>0, <1>n, <2>1 DEF ReadInv, Others, writing
    <2>4. OrderInv'
        BY <1>o, <2>1 DEF OrderInv, InOrder
    <2> QED BY <2>2, <2>3, <2>4 DEF DeliverInv
<1>2. ASSUME NEW from \in 0..last, Enter(w, from), w \notin member,
             \A s \in InFlight \ late : from < s,
             \A v \in Workers : plan'[v] = plan[v] \/ plan'[v] = NoPlan
      PROVE  DeliverInv'
    <2>1. /\ UNCHANGED <<writing, resp, got, late>> /\ member' = member \cup {w}
          /\ cursor'[w] = from /\ owed'[w] = {s \in Others(w, log) : s > from}
          /\ \A v \in Workers \ {w} : cursor'[v] = cursor[v] /\ owed'[v] = owed[v]
        BY <1>0, <1>2 DEF Enter, TypeOK
    <2>2. got[w] = {} /\ resp[w].seqs = {}
        BY <1>0, <1>2 DEF ReadInv, NoResp
    <2>3. FreshInv'
        <3>1. \A s \in InFlight \ late : s > 0
            BY DEF InFlight, Seqs
        <3> QED BY <1>0, <1>2, <1>i, <2>1, <3>1 DEF FreshInv, writing, NoPlan
    <2>4. ReadInv'
        BY <1>0, <1>2, <1>n, <2>1, <2>2 DEF ReadInv, Others, writing, NoPlan
    <2>5. ASSUME NEW v \in Workers PROVE InOrder(v)'
        <3>1. CASE v = w
            <4>1. \A s \in Others(w, log) : s \in Nat
                BY <1>0 DEF Others, TypeOK, Seqs
            <4> QED BY <2>1, <2>2, <3>1, <4>1 DEF InOrder
        <3>2. CASE v # w
            BY <1>o, <2>1, <3>2 DEF InOrder
        <3> QED BY <3>1, <3>2
    <2> QED BY <2>3, <2>4, <2>5 DEF DeliverInv, OrderInv
<1>3. CASE Join(w)
    <2>1. \A v \in Workers : plan'[v] = plan[v] \/ plan'[v] = NoPlan
        BY <1>0, <1>3 DEF Join, Carry, TypeOK
    <2>2. CASE w \notin member /\ Enter(w, plan[w].to)
        <3>1. plan[w].to \in 0..last /\ \A s \in InFlight \ late : plan[w].to < s
            BY <1>0, <1>n DEF ReadInv, FreshInv
        <3> QED BY <1>2, <2>1, <2>2, <3>1
    <2>3. CASE UNCHANGED <<writing, member, cursor, redo, resp, got, owed, late>>
        <3>1. FreshInv'
            <4>1. \A s \in InFlight \ late : s > 0
                BY DEF InFlight, Seqs
            <4> QED BY <1>0, <1>i, <2>1, <2>3, <4>1 DEF FreshInv, writing, NoPlan
        <3>2. ReadInv'
            BY <1>0, <1>n, <2>1, <2>3 DEF ReadInv, Others, writing, NoPlan
        <3>3. OrderInv'
            BY <1>o, <2>3 DEF OrderInv, InOrder
        <3> QED BY <3>1, <3>2, <3>3 DEF DeliverInv
    <2> QED BY <1>3, <2>2, <2>3 DEF Join
<1>4. CASE JoinFromStart(w)
    <2>1. \A s \in InFlight \ late : 0 < s
        BY DEF InFlight, Seqs
    <2>2. w \notin member /\ Enter(w, 0) /\ \A v \in Workers : plan'[v] = plan[v]
        BY <1>4 DEF JoinFromStart
    <2>3. 0 \in 0..last
        BY <1>n
    <2> QED BY <1>2, <2>1, <2>2, <2>3
<1>5. CASE Leave(w)
    <2>1. /\ UNCHANGED <<writing, plan, late>> /\ member' = member \ {w}
          /\ cursor'[w] = 0 /\ got'[w] = {} /\ resp'[w] = NoResp /\ owed'[w] = {}
          /\ \A v \in Workers \ {w} : /\ cursor'[v] = cursor[v] /\ got'[v] = got[v]
                                      /\ resp'[v] = resp[v] /\ owed'[v] = owed[v]
        BY <1>0, <1>5 DEF Leave, TypeOK
    <2>2. FreshInv'
        <3>1. \A s \in InFlight \ late : s > 0
            BY DEF InFlight, Seqs
        <3> QED BY <1>0, <1>i, <2>1, <3>1 DEF FreshInv, writing
    <2>3. ReadInv'
        BY <1>0, <1>n, <2>1 DEF ReadInv, Others, writing, NoResp
    <2>4. ASSUME NEW v \in Workers PROVE InOrder(v)'
        BY <1>o, <2>1 DEF InOrder
    <2> QED BY <2>2, <2>3, <2>4 DEF DeliverInv, OrderInv
<1>6. CASE SendAgain(w)
    <2>1. UNCHANGED <<writing, member, cursor, plan, resp, got, owed, late>>
        BY <1>6 DEF SendAgain, place
    <2> QED BY <1>0, <1>i, <2>1, Quiet DEF writing
<1>7. CASE RewindRead(w)
    <2>1. /\ UNCHANGED <<writing, member, cursor, resp, got, owed, late>>
          /\ \A v \in Workers \ {w} : plan'[v] = plan[v]
          /\ \E s \in log : s <= cursor[w] /\ plan'[w].to = s - 1
        BY <1>0, <1>7 DEF RewindRead, Plan, TypeOK
    <2>2. \A s \in log : s \in Nat
        BY <1>0 DEF TypeOK, Seqs
    <2>3. plan'[w].to <= cursor[w] /\ plan'[w].to \in Int
        BY <1>n, <2>1, <2>2
    <2>4. \A s \in InFlight : s \in Nat
        BY DEF InFlight, Seqs
    <2>5. FreshInv'
        BY <1>0, <1>i, <1>n, <2>1, <2>3, <2>4 DEF FreshInv, writing
    <2>6. ReadInv'
        BY <1>0, <1>n, <2>1, <2>3 DEF ReadInv, Others, writing
    <2>7. OrderInv'
        BY <1>o, <2>1 DEF OrderInv, InOrder
    <2> QED BY <2>5, <2>6, <2>7 DEF DeliverInv
<1>8. CASE Rewind(w) \/ Skip(w)
    <2>1. /\ UNCHANGED <<writing, member, resp, got, late>>
          /\ plan'[w] = NoPlan /\ \A v \in Workers \ {w} : plan'[v] = plan[v]
          /\ \A v \in Workers \ {w} : cursor'[v] = cursor[v] /\ owed'[v] = owed[v]
          /\ owed'[w] \subseteq owed[w]
          /\ cursor'[w] = cursor[w] \/ cursor'[w] = plan[w].to
        BY <1>0, <1>8 DEF Rewind, Skip, Carry, GiveUp, TypeOK
    <2>2. \A x \in owed'[w] : cursor[w] < plan[w].to => x > plan[w].to
        BY <1>0, <1>8 DEF Rewind, Skip, GiveUp, TypeOK
    <2>3. FreshInv'
        <3>1. \A s \in InFlight \ late : s > 0
            BY DEF InFlight, Seqs
        <3> QED BY <1>0, <1>i, <2>1, <3>1 DEF FreshInv, writing, NoPlan
    <2>4. ReadInv'
        BY <1>0, <1>n, <2>1 DEF ReadInv, Others, writing, NoPlan
    <2>5. ASSUME NEW x \in owed'[w] \ late, x <= cursor'[w] PROVE x \in got[w]
        <3>1. x \in owed[w] \ late /\ x \in Nat
            BY <1>0, <2>1, <2>5 DEF TypeOK, Seqs
        <3>2. x <= cursor[w]
            BY <1>n, <2>1, <2>2, <2>5, <3>1
        <3> QED BY <1>o, <3>1, <3>2 DEF InOrder
    <2>6. ASSUME NEW v \in Workers PROVE InOrder(v)'
        <3>1. CASE v = w
            BY <1>o, <2>1, <2>5, <3>1 DEF InOrder
        <3>2. CASE v # w
            BY <1>o, <2>1, <3>2 DEF InOrder
        <3> QED BY <3>1, <3>2
    <2> QED BY <2>3, <2>4, <2>6 DEF DeliverInv, OrderInv
<1> QED BY <1>1, <1>3, <1>4, <1>5, <1>6, <1>7, <1>8 DEF Admin

LEMMA DeliverInitial == Init => DeliverInv
<1> SUFFICES ASSUME Init PROVE DeliverInv
    OBVIOUS
<1>1. InFlight = {}
    BY DEF Init, InFlight, Open, Idle
<1> QED BY <1>1
        DEF Init, DeliverInv, FreshInv, ReadInv, OrderInv, InOrder, NoResp, NoPlan, Others

LEMMA DeliverStep == Base /\ [Next]_vars => DeliverInv'
<1> SUFFICES ASSUME Base, [Next]_vars PROVE DeliverInv'
    OBVIOUS
<1>1. ASSUME NEW r \in Requests, Publish(r) PROVE DeliverInv'
    BY <1>1, PublishDelivers
<1>2. ASSUME NEW r \in Requests, Fail(r) \/ Mute(Cid[r]) \/ Unmute(Cid[r]) PROVE DeliverInv'
    <2>1. UNCHANGED <<last, author, log, posted, reading, late>>
        BY <1>2 DEF Fail, Mute, Unmute
    <2>2. \A q \in Requests : pub'[q] = pub[q] \/ pub'[q] = Idle
        BY <1>2 DEF Fail, Mute, Unmute, Base, TypeOK
    <2>3. InFlight' \subseteq InFlight
        BY <2>2 DEF InFlight, Open, Idle
    <2> QED BY <2>1, <2>3, Quiet DEF Base, reading, place
<1>3. ASSUME NEW w \in Workers, Deliver(w) \/ Lose(w) \/ Admin(w)
                 \/ \E s \in Seqs : Ack(w, s) \/ StrayAck(w, s)
      PROVE  DeliverInv'
    BY <1>3, ReaderDelivers, AdminDelivers
<1>4. CASE UNCHANGED vars
    <2>1. InFlight' = InFlight
        BY <1>4 DEF vars, writing, InFlight, Open
    <2> QED BY <1>4, <2>1, Quiet DEF Base, vars, writing, reading, place
<1> QED BY <1>1, <1>2, <1>3, <1>4 DEF Next

LEMMA BaseMissesOnlyLate == Base => MissedOnlyLate
BY DEF Base, DeliverInv, OrderInv, InOrder, MissedOnlyLate, Missed

\* For any number of publishers, readers and administrators, a member's cursor
\* passes nothing it did not receive but messages that were overtaken.
THEOREM MissedOnlyLateAlways == Spec => []MissedOnlyLate
<1>1. Init => DeliverInv
    BY DeliverInitial
<1>2. PublishInv /\ DeliverInv /\ [Next]_vars => DeliverInv'
    BY DeliverStep DEF PublishInv, Base
<1>3. PublishInv /\ DeliverInv => MissedOnlyLate
    BY BaseMissesOnlyLate DEF PublishInv, Base
<1>4. Spec => []PublishInv
    BY Published
<1> QED BY <1>1, <1>2, <1>3, <1>4, PTL DEF Spec

(***************************************************************************)
(* Trimming: the channel is longer than it keeps by overtaken messages.    *)
(***************************************************************************)

LEMMA SomeOf == ASSUME NEW S \in SUBSET Seqs PROVE IsFiniteSet(S) /\ Cardinality(S) \in Nat
<1>1. IsFiniteSet(Seqs)
    BY FS_Interval, LogAssumption DEF Seqs
<1> QED BY <1>1, FS_Subset, FS_CardinalityType

LEMMA FewerOf ==
    ASSUME NEW S \in SUBSET Seqs, NEW T \in SUBSET S, Cardinality(S) <= Keep
    PROVE  Cardinality(T) <= Keep
<1>1. Cardinality(T) <= Cardinality(S)
    BY SomeOf, FS_Subset
<1>2. T \in SUBSET Seqs
    OBVIOUS
<1> QED BY <1>1, <1>2, SomeOf, LogAssumption

\* A trimmed channel holds no more than it keeps: above the lowest it kept are
\* fewer than that.
LEMMA KeptFew ==
    ASSUME Keep # 0, NEW S \in SUBSET Seqs
    PROVE  Cardinality(Kept(S)) <= Keep
<1> DEFINE K == Kept(S)
           R == {p \in Nat \X Nat : p[1] < p[2]}
<1>0. K = {s \in S : Cardinality({t \in S : t > s}) < Keep} /\ K \in SUBSET Nat /\ S \in SUBSET Nat
    <2>1. S \in SUBSET Nat
        BY LogAssumption DEF Seqs
    <2>2. K = {s \in S : Cardinality({t \in S : t > s}) < Keep}
        BY Zenon DEF Kept
    <2> QED BY <2>1, <2>2
<1>1. Cardinality({}) = 0 /\ Keep \in Nat
    BY FS_EmptySet, LogAssumption
<1> HIDE DEF K
<1>2. CASE K = {}
    BY <1>1, <1>2 DEF K
<1>3. CASE K # {}
    <2>1. IsWellFoundedOn(R, Nat)
        BY NatLessThanWellFounded, Zenon DEF OpToRel
    <2>2. PICK m \in K : \A x \in K : <<x, m>> \notin R
        <3> HIDE DEF R
        <3> QED BY <1>0, <1>3, <2>1, WFMin
    <2>3. \A x \in K : x = m \/ x > m
        <3> SUFFICES ASSUME NEW x \in K, x # m, ~ (x > m) PROVE FALSE
            OBVIOUS
        <3>1. x \in Nat /\ m \in Nat
            BY <1>0
        <3>2. <<x, m>> \in R
            BY <3>1
        <3> HIDE DEF R
        <3> QED BY <2>2, <3>2
    <2> DEFINE Above == {t \in S : t > m}
    <2>4. Cardinality(Above) < Keep /\ Above \in SUBSET Seqs
        BY <1>0, <2>2
    <2>5. K \in SUBSET (Above \cup {m})
        BY <1>0, <2>3
    <2> HIDE DEF Above
    <2>6. IsFiniteSet(Above) /\ Cardinality(Above) \in Nat
        BY <2>4, SomeOf
    <2>7. /\ IsFiniteSet(Above \cup {m})
          /\ Cardinality(Above \cup {m}) = IF m \in Above THEN Cardinality(Above)
                                           ELSE Cardinality(Above) + 1
        BY <2>6, FS_AddElement
    <2>8. IsFiniteSet(K) /\ Cardinality(K) <= Cardinality(Above \cup {m}) /\ Cardinality(K) \in Nat
        BY <2>5, <2>7, FS_Subset, FS_CardinalityType
    <2> QED BY <1>1, <2>4, <2>6, <2>7, <2>8 DEF K
<1> QED BY <1>2, <1>3 DEF K

\* What the commit of r leaves of the messages nobody overtook.
Left(r) == ((log \ late) \cup {pub[r].seq}) \ pub[r].drop

\* They are no more than the channel keeps, before and after the commit of a
\* placed transaction that nobody overtook: its _trim saw all of them, because
\* they were committed before it took its seq.
TrimInv ==
    Keep # 0 =>
        /\ Cardinality(log \ late) <= Keep
        /\ \A r \in Requests :
              pub[r].at = "placed" /\ pub[r].seq \notin late => Cardinality(Left(r)) <= Keep

LEMMA TrimFrame ==
    ASSUME TypeOK, TypeOK', TrimInv, log' \ late' \subseteq log \ late, late \subseteq late',
           \A r \in Requests : pub'[r].at = "placed" /\ pub'[r].seq \notin late' => pub'[r] = pub[r]
    PROVE  TrimInv'
<1> SUFFICES ASSUME Keep # 0
             PROVE  /\ Cardinality(log' \ late') <= Keep
                    /\ \A r \in Requests : pub'[r].at = "placed" /\ pub'[r].seq \notin late' =>
                          Cardinality(Left(r)') <= Keep
    BY DEF TrimInv
<1>1. log \ late \in SUBSET Seqs /\ Cardinality(log \ late) <= Keep
    BY DEF TypeOK, TrimInv
<1>2. Cardinality(log' \ late') <= Keep
    BY <1>1, FewerOf
<1>3. ASSUME NEW r \in Requests, pub'[r].at = "placed", pub'[r].seq \notin late'
      PROVE  Cardinality(Left(r)') <= Keep
    <2>1. pub'[r] = pub[r] /\ pub[r].seq \in Seqs
        BY <1>3 DEF TypeOK, Open
    <2>2. Cardinality(Left(r)) <= Keep
        BY <1>3, <2>1 DEF TrimInv
    <2>3. Left(r)' \subseteq Left(r) /\ Left(r) \in SUBSET Seqs
        BY <1>1, <2>1 DEF Left
    <2> QED BY <2>2, <2>3, FewerOf
<1> QED BY <1>2, <1>3

\* What was placed sees everything that is stored.
LEMMA PlaceTrims ==
    ASSUME TypeOK, TypeOK', TrimInv, NEW r \in Requests, Place(r)
    PROVE  TrimInv'
<1> DEFINE seen == log \cup {pub[r].seq}
<1>1. /\ pub[r].at = "inserting" /\ pub[r].seq \in Seqs /\ UNCHANGED <<log, late>>
      /\ seen \in SUBSET Seqs
    BY DEF Place, TypeOK, Open
<1>2. CASE At(r, "clash")
    <2>1. \A q \in Requests : pub'[q].at = "placed" => pub'[q] = pub[q]
        BY <1>2, AtFrame
    <2> QED BY <1>1, <2>1, TrimFrame
<1>3. CASE ~ At(r, "clash")
    <2>1. pub' = [pub EXCEPT ![r] = [at |-> "placed", seq |-> @.seq, drop |-> seen \ Kept(seen)]]
        BY <1>3 DEF Place
    <2>2. pub'[r].seq = pub[r].seq /\ pub'[r].drop = seen \ Kept(seen)
          /\ \A q \in Requests \ {r} : pub'[q] = pub[q]
        BY <2>1 DEF TypeOK
    <2>3. Left(r)' \subseteq Kept(seen) /\ Kept(seen) \in SUBSET Seqs
        BY <1>1, <2>2, PartOf DEF Left
    <2>4. Keep # 0 => Cardinality(Left(r)') <= Keep
        BY <1>1, <2>3, KeptFew, FewerOf
    <2>5. \A q \in Requests \ {r} : Left(q)' = Left(q)
        BY <1>1, <2>2 DEF Left
    <2> QED BY <1>1, <2>2, <2>4, <2>5 DEF TrimInv
<1> QED BY <1>2, <1>3

LEMMA CommitTrims ==
    ASSUME Base, TypeOK', TrimInv, NEW r \in Requests, Commit(r)
    PROVE  TrimInv'
<1> DEFINE s == pub[r].seq
<1>1. /\ pub[r].at = "placed" /\ Open(r) /\ log' = (log \cup {s}) \ pub[r].drop
      /\ At(r, "stored") /\ UNCHANGED late
    BY DEF Commit, Open
<1>2. /\ TypeOK /\ pub'[r].at = "stored" /\ \A q \in Requests \ {r} : pub'[q] = pub[q]
      /\ s \in InFlight
    BY <1>1, AtFrame DEF Base, TypeOK, InFlight
<1>3. CASE s \in late
    <2>1. \A q \in Requests : pub'[q].at = "placed" => pub'[q] = pub[q]
        BY <1>2
    <2> QED BY <1>1, <1>2, <1>3, <2>1, TrimFrame
<1>4. CASE s \notin late
    <2>1. s = last
        BY <1>2, <1>4 DEF Base, DeliverInv, FreshInv
    <2>2. ASSUME NEW q \in Requests, pub'[q].at = "placed" PROVE pub'[q].seq \in late
        <3>1. q # r /\ pub'[q] = pub[q] /\ Open(q)
            BY <1>2, <2>2 DEF Open
        <3>2. pub[q].seq # s
            BY <1>1, <3>1 DEF Base, WriteInv
        <3>3. pub[q].seq \in InFlight
            BY <3>1 DEF InFlight, Base, TypeOK
        <3> QED BY <2>1, <3>1, <3>2, <3>3 DEF Base, DeliverInv, FreshInv
    <2>3. log' \ late' = Left(r)
        BY <1>1, <1>4 DEF Left
    <2> QED BY <1>1, <1>4, <2>2, <2>3 DEF TrimInv
<1> QED BY <1>3, <1>4

LEMMA TrimStep == Base /\ TrimInv /\ [Next]_vars => TrimInv'
<1> SUFFICES ASSUME Base, TrimInv, [Next]_vars PROVE TrimInv'
    OBVIOUS
<1>1. TypeOK /\ TypeOK'
    BY LogTypeStep DEF Base
<1>2. ASSUME NEW r \in Requests, Check(r) \/ Confirm(r) \/ Lookup(r) PROVE TrimInv'
    <2>1. /\ UNCHANGED <<log, late>>
          /\ \E where \in {"done", "checked", "idle"} : At(r, where)
        BY <1>2 DEF Check, Confirm, Lookup
    <2>2. \A q \in Requests : pub'[q].at = "placed" => pub'[q] = pub[q]
        BY <1>1, <2>1, AtFrame
    <2> QED BY <1>1, <2>1, <2>2, TrimFrame
<1>3. ASSUME NEW r \in Requests, Insert(r) PROVE TrimInv'
    <2>1. /\ log' = log /\ late \subseteq late'
          /\ pub' = [pub EXCEPT ![r] = [at |-> "inserting", seq |-> last + 1, drop |-> {}]]
        BY <1>3 DEF Insert, Overtaken
    <2>2. \A q \in Requests : pub'[q].at = "placed" => pub'[q] = pub[q]
        BY <1>1, <2>1 DEF TypeOK
    <2> QED BY <1>1, <2>1, <2>2, TrimFrame
<1>4. ASSUME NEW r \in Requests, Publish(r) PROVE TrimInv'
    BY <1>1, <1>2, <1>3, <1>4, PlaceTrims, CommitTrims DEF Publish
<1>5. CASE \A r \in Requests : ~ Publish(r)
    <2>1. WriteFrame
        BY <1>1, <1>5, OthersFrame
    <2>2. log' = log /\ late \subseteq late'
          /\ \A q \in Requests : pub'[q].at = "placed" => pub'[q] = pub[q]
        BY <2>1 DEF WriteFrame, Overtaken
    <2> QED BY <1>1, <2>2, TrimFrame
<1> QED BY <1>4, <1>5

LEMMA TrimInitial == Init => TrimInv
<1> SUFFICES ASSUME Init PROVE TrimInv
    OBVIOUS
<1>1. log \ late = {} /\ \A r \in Requests : pub[r].at # "placed"
    BY DEF Init, Idle
<1>2. Cardinality(log \ late) = 0 /\ Keep \in Nat
    BY <1>1, FS_EmptySet, LogAssumption
<1>3. Cardinality(log \ late) <= Keep
    BY <1>2
<1> QED BY <1>1, <1>3 DEF TrimInv

\* _trim at READ COMMITTED: however the transactions of any number of publishers
\* overlap, what a channel holds beyond what it keeps was overtaken.
THEOREM KeptPlusLateAlways == Spec => []KeptPlusLate
<1>1. Init => DeliverInv /\ TrimInv
    BY DeliverInitial, TrimInitial
<1>2. PublishInv /\ DeliverInv /\ TrimInv /\ [Next]_vars => DeliverInv' /\ TrimInv'
    BY DeliverStep, TrimStep DEF PublishInv, Base
<1>3. PublishInv /\ TrimInv => KeptPlusLate
    <2> SUFFICES ASSUME PublishInv, TrimInv, Keep # 0
                 PROVE  Cardinality(log) <= Keep + Cardinality(log \cap late)
        BY DEF KeptPlusLate
    <2>1. log \in SUBSET Seqs /\ log \cap late \in SUBSET Seqs /\ log \ late \in SUBSET Seqs
        BY DEF PublishInv, TypeOK
    <2>2. Cardinality(log \ late) = Cardinality(log) - Cardinality(log \cap late)
        BY <2>1, SomeOf, FS_Difference
    <2>3. Cardinality(log \ late) <= Keep
        BY DEF TrimInv
    <2> QED BY <2>1, <2>2, <2>3, SomeOf, LogAssumption
<1>4. Spec => []PublishInv
    BY Published
<1> QED BY <1>1, <1>2, <1>3, <1>4, PTL DEF Spec
=============================================================================
