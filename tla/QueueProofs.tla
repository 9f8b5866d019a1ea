---------------------------- MODULE QueueProofs ----------------------------
(* Theorems about Queue, for every value of its constants.                 *)
EXTENDS Queue, FiniteSetTheorems, TLAPS

(***************************************************************************)
(* Type correctness.  Each action is one step; those that share the shape  *)
(* of their updates share a leaf only when the provers find it at once.    *)
(***************************************************************************)

\* What _trim keeps is part of what there was.
LEMMA KeptSubset == \A S, n : Kept(S, n) \subseteq S
BY DEF Kept

LEMMA WithoutType ==
    ASSUME claims \in [Seqs -> Claim], NEW S
    PROVE  Without(S) \in [Seqs -> Claim]
BY DEF Without, Claim

LEMMA NoTxType ==
    NoTx \in [poll : Polls \cup {NoOne}, purge : SUBSET Seqs, from : 0..MaxSeq,
             picks : SUBSET Seqs]
BY ConstantsAssumption DEF NoTx

LEMMA TypeInit == Init => TypeOK
BY ConstantsAssumption
DEF Init, TypeOK, NoSwitch, NoTx, Claim, Free, Room, Seqs

LEMMA TypeStep == TypeOK /\ [Next]_vars => TypeOK'
<1> SUFFICES ASSUME TypeOK, [Next]_vars PROVE TypeOK'
    OBVIOUS
<1> USE ConstantsAssumption
<1>1. ASSUME NEW s \in Seqs, Post(s) PROVE TypeOK'
    <2>1. stored' \subseteq stored \cup {s}
        BY <1>1, KeptSubset DEF Post
    <2>2. claims' \in [Seqs -> Claim]
        BY <1>1, WithoutType DEF Post, TypeOK
    <2>3. head' \in 0..MaxSeq
        BY <1>1 DEF Post, TypeOK, Seqs
    <2>4. stored' \subseteq posted' /\ posted' \subseteq Seqs
        BY <1>1, <2>1 DEF Post, TypeOK
    <2> QED BY <1>1, <2>2, <2>3, <2>4 DEF Post, TypeOK, poll
<1>2. ASSUME NEW s \in Seqs, Lapse(s) PROVE TypeOK'
    <2>1. [claims[s] EXCEPT !.is = "lapsed"] \in Claim
        <3>1. claims[s] \in Claim /\ claims[s].is = "held"
            BY <1>2 DEF Lapse, TypeOK
        <3>2. claims[s] \in [by : Workers, is : {"held", "lapsed", "settled"}]
            BY <3>1 DEF Claim, Free
        <3> QED BY <3>2 DEF Claim
    <2>2. claims' \in [Seqs -> Claim]
        BY <1>2, <2>1 DEF Lapse, TypeOK
    <2> QED BY <1>2, <2>2 DEF Lapse, TypeOK, table, poll
<1>3. ASSUME NEW w \in Workers, NEW s \in Seqs, Ack(w, s) PROVE TypeOK'
    <2>1. cursor' \in [Workers -> 0..MaxSeq]
        BY <1>3 DEF Ack, TypeOK, Seqs
    <2>2. claims' \in [Seqs -> Claim]
        BY <1>3 DEF Ack, TypeOK, Claim
    <2> QED BY <1>3, <2>1, <2>2 DEF Ack, TypeOK, poll
<1>4. ASSUME NEW w \in Workers, AskLapse(w) \/ Stop(w) PROVE TypeOK'
    <2>1. CASE AskLapse(w)
        BY <2>1 DEF AskLapse, TypeOK, table, poll
    <2>2. CASE Stop(w)
        BY <2>2 DEF Stop, Act, TypeOK, table, poll
    <2> QED BY <1>4, <2>1, <2>2
<1>5. ASSUME NEW w \in Workers, Admin(w) PROVE TypeOK'
    <2>1. CASE \E t \in Turns \cup {0} : SetTurn(w, t)
        BY <2>1 DEF SetTurn, Act, TypeOK, poll
    <2>2. CASE Release(w)
        <3>1. claims' \in [Seqs -> Claim]
            BY <2>2, WithoutType DEF Release, TypeOK
        <3> QED BY <2>2, <3>1 DEF Release, TypeOK, table, poll
    <2>3. CASE Leave(w)
        BY <2>3 DEF Leave, Act, TypeOK, poll
    <2>4. CASE \E fromStart \in BOOLEAN : Join(w, fromStart)
        BY <2>4 DEF Join, Act, TypeOK, poll
    <2> QED BY <1>5, <2>1, <2>2, <2>3, <2>4 DEF Admin
<1>6. ASSUME NEW p \in Polls, Poll(p) PROVE TypeOK'
    <2>1. CASE Open(p)
        BY <2>1 DEF Open, TypeOK, table
    <2>2. CASE Enter(p)
        BY <2>2 DEF Enter, TypeOK, table
    <2>3. CASE Look(p)
        <3>1. CASE HeldBy(Owner[p]) \ Overdue # {} \/ ~ IsTaker(Owner[p])
                     \/ queueFrom = Room \/ IdleAhead(Owner[p]) # {}
            <4>1. claims' \in [Seqs -> Claim]
                BY <2>3, <3>1 DEF Look, Commit, TypeOK, Claim
            <4>2. rows' \in [Polls -> SUBSET Seqs]
                BY <2>3, <3>1 DEF Look, Commit, HeldBy, TypeOK
            <4>3. pc' \in [Polls -> {"closed", "take", "lock", "insert", "commit", "read"}]
                <5>1. pc' = [pc EXCEPT ![p] = "read"]
                    BY <2>3, <3>1 DEF Look, Commit
                <5> QED BY <5>1 DEF TypeOK
            <4>4. UNCHANGED <<table, asking, releasing, switch, tx, got, handed, acts>>
                BY <2>3, <3>1 DEF Look
            <4> QED BY <4>1, <4>2, <4>3, <4>4 DEF TypeOK, table
        <3>2. CASE ~ (HeldBy(Owner[p]) \ Overdue # {} \/ ~ IsTaker(Owner[p])
                        \/ queueFrom = Room \/ IdleAhead(Owner[p]) # {})
            <4>1. queueFrom \in 0..MaxSeq
                BY <3>2 DEF TypeOK
            <4>2. tx' \in [poll : Polls \cup {NoOne}, purge : SUBSET Seqs,
                           from : 0..MaxSeq, picks : SUBSET Seqs]
                BY <2>3, <3>2, <4>1 DEF Look, Overdue
            <4>3. /\ pc' = [pc EXCEPT ![p] = "insert"]
                  /\ UNCHANGED <<table, asking, claims, rows, releasing, switch, got, handed, acts>>
                BY <2>3, <3>2 DEF Look
            <4> QED BY <4>2, <4>3 DEF TypeOK, table
        <3> QED BY <3>1, <3>2
    <2>4. CASE Insert(p)
        <3>1. tx'.picks \subseteq Seqs
            BY <2>4 DEF Insert, Lowest, Queued, TypeOK
        <3> QED BY <2>4, <3>1 DEF Insert, TypeOK, table
    <2>5. CASE HandOver(p)
        <3>1. claims' \in [Seqs -> Claim]
            BY <2>5 DEF HandOver, Commit, TypeOK, Claim
        <3>2. tx.picks \subseteq Seqs /\ Owner[p] \in Workers
            BY DEF TypeOK
        <3>3. rows' \in [Polls -> SUBSET Seqs] /\ handed' \in [Seqs -> SUBSET Workers]
            BY <2>5, <3>2 DEF HandOver, Commit, TypeOK
        <3> QED BY <2>5, <3>1, <3>3, NoTxType DEF HandOver, Commit, TypeOK, table
    <2>6. CASE Answer(p)
        <3>1. Found(p) \subseteq Seqs
            BY DEF Found, RoomRows, TypeOK
        <3> QED BY <2>6, <3>1 DEF Answer, NotAsking, TypeOK, table
    <2>7. CASE Again(p)
        BY <2>7 DEF Again, TypeOK, table
    <2>8. CASE Close(p)
        BY <2>8 DEF Close, NotAsking, TypeOK, table
    <2> QED BY <1>6, <2>1, <2>2, <2>3, <2>4, <2>5, <2>6, <2>7, <2>8 DEF Poll
<1>7. ASSUME NEW p \in Polls, Fail(p) PROVE TypeOK'
    BY <1>7, NoTxType DEF Fail, Act, TypeOK, table
<1>8. ASSUME Switch PROVE TypeOK'
    <2>1. CASE SwitchOn
        BY <2>1 DEF SwitchOn, TypeOK, poll, NoSwitch, Room
    <2>2. CASE SwitchOff
        BY <2>2, WithoutType DEF SwitchOff, TypeOK, poll, NoSwitch
    <2>3. CASE \E to \in {"on", "off"} : SwitchRead(to)
        BY <2>3 DEF SwitchRead, Act, TypeOK, table, poll
    <2> QED BY <1>8, <2>1, <2>2, <2>3 DEF Switch
<1>9. ASSUME NEW n \in Keeps, SetKeep(n) PROVE TypeOK'
    <2>1. stored' \subseteq stored
        BY <1>9, KeptSubset DEF SetKeep
    <2>2. claims' \in [Seqs -> Claim]
        BY <1>9, WithoutType DEF SetKeep, TypeOK
    <2> QED BY <1>9, <2>1, <2>2 DEF SetKeep, Act, TypeOK, poll
<1>10. CASE UNCHANGED vars
    BY <1>10 DEF vars, table, poll, TypeOK
<1> QED BY <1>1, <1>2, <1>3, <1>4, <1>5, <1>6, <1>7, <1>8, <1>9, <1>10 DEF Next

\* Every variable keeps its type, whatever the sizes and the histories.
THEOREM TypeCorrect == Spec => []TypeOK
BY TypeInit, TypeStep, PTL DEF Spec

(***************************************************************************)
(* The open transaction.  TxInv says that what it has read is still true:  *)
(* it stays true in a step that leaves the transaction alone, and changes  *)
(* a claim only by freeing it, or one that is held, or one that is overdue *)
(* and not being purged.                                                   *)
(***************************************************************************)

InTx == {"insert", "commit"}

LEMMA TxFrame ==
    ASSUME TypeOK, TxInv, tx' = tx, posted \subseteq posted',
           \A p \in Polls : pc'[p] = pc[p] \/ (pc[p] \notin InTx /\ pc'[p] \notin InTx),
           \A s \in Seqs :
              \/ claims'[s] \in {claims[s], Free}
              \/ claims[s].is = "held"
              \/ claims[s].is = "lapsed" /\ s \notin tx.purge
    PROVE  TxInv'
<1>1. \A s \in tx.purge : claims'[s] = Free \/ claims'[s].is = "lapsed"
    BY DEF TxInv, TypeOK, Free
<1>2. \A s \in tx.picks : claims'[s] = Free \/ s \in tx.purge
    BY DEF TxInv, TypeOK, Free
<1>3. \A p \in Polls : pc'[p] \in InTx <=> tx.poll = p
    BY DEF TxInv, InTx
<1>4. ASSUME tx.picks # {} PROVE pc'[tx.poll] = "commit"
    <2>1. tx.poll \in Polls
        BY <1>4 DEF TxInv, TypeOK, NoTx
    <2> QED BY <1>4, <2>1 DEF TxInv, InTx
<1> QED BY <1>1, <1>2, <1>3, <1>4 DEF TxInv, InTx

LEMMA WithoutFrees ==
    \A S : \A s \in Seqs : Without(S)[s] = IF s \in S THEN Free ELSE claims[s]
BY DEF Without

LEMMA TxStep == TypeOK /\ TxInv /\ [Next]_vars => TxInv'
<1> SUFFICES ASSUME TypeOK, TxInv, [Next]_vars PROVE TxInv'
    OBVIOUS
<1>1. ASSUME NEW s \in Seqs, Post(s) PROVE TxInv'
    BY <1>1, TxFrame, WithoutFrees DEF Post, poll
<1>2. ASSUME NEW s \in Seqs, Lapse(s) PROVE TxInv'
    BY <1>2, TxFrame DEF Lapse, TypeOK, table, poll
<1>3. ASSUME NEW w \in Workers, NEW s \in Seqs, Ack(w, s) PROVE TxInv'
    BY <1>3, TxFrame DEF Ack, HeldBy, Unacked, poll
<1>4. ASSUME NEW w \in Workers, AskLapse(w) \/ Stop(w) PROVE TxInv'
    BY <1>4, TxFrame DEF AskLapse, Stop, table, poll
<1>5. ASSUME NEW w \in Workers, Admin(w) PROVE TxInv'
    <2>1. CASE \E t \in Turns \cup {0} : SetTurn(w, t)
        BY <2>1, TxFrame DEF SetTurn, poll
    <2>2. CASE Release(w)
        BY <2>2, TxFrame, WithoutFrees DEF Release, table, poll
    <2>3. CASE Leave(w)
        BY <2>3, TxFrame DEF Leave, poll
    <2>4. CASE \E fromStart \in BOOLEAN : Join(w, fromStart)
        BY <2>4, TxFrame DEF Join, poll
    <2> QED BY <1>5, <2>1, <2>2, <2>3, <2>4 DEF Admin
<1>6. ASSUME NEW p \in Polls, Poll(p) PROVE TxInv'
    <2>1. CASE Open(p)
        BY <2>1, TxFrame DEF Open, TypeOK, InTx, table
    <2>2. CASE Enter(p)
        BY <2>2, TxFrame DEF Enter, TypeOK, InTx, table
    <2>3. CASE Look(p)
        <3>1. tx = NoTx
            BY <2>3 DEF Look, TxInv
        <3>2. CASE tx' = tx
            <4>1. [poll |-> p, purge |-> Overdue, from |-> queueFrom, picks |-> {}] # tx
                BY <3>1, ConstantsAssumption DEF NoTx
            <4>2. pc' = [pc EXCEPT ![p] = "read"]
                BY <2>3, <3>2, <4>1 DEF Look, Commit
            <4> QED BY <2>3, <3>1, <3>2, <4>2, ConstantsAssumption
                    DEF Look, TxInv, TypeOK, NoTx, table
        <3>3. CASE tx' # tx
            BY <2>3, <3>1, <3>3, ConstantsAssumption
            DEF Look, Overdue, TxInv, TypeOK, NoTx, table
        <3> QED BY <3>2, <3>3
    <2>4. CASE Insert(p)
        <3>1. tx.poll = p
            BY <2>4 DEF Insert, TxInv
        <3>2. tx' = [tx EXCEPT !.picks = Lowest(Queued(tx.from, Owner[p]), Batch)]
            BY <2>4 DEF Insert
        <3>3. tx'.poll = p /\ tx'.purge = tx.purge
              /\ tx'.picks = Lowest(Queued(tx.from, Owner[p]), Batch)
            BY <3>1, <3>2 DEF TypeOK
        <3>4. \A s \in tx'.picks : s \in stored /\ (claims[s] = Free \/ s \in tx.purge)
            BY <3>3 DEF Lowest, Queued
        <3> QED BY <2>4, <3>1, <3>3, <3>4, ConstantsAssumption
                DEF Insert, TxInv, TypeOK, table
    <2>5. CASE HandOver(p)
        <3>1. tx.poll = p
            BY <2>5 DEF HandOver, TxInv
        <3> QED BY <2>5, <3>1, ConstantsAssumption
                DEF HandOver, Commit, TxInv, TypeOK, NoTx, table
    <2>6. CASE Answer(p)
        BY <2>6, TxFrame DEF Answer, TypeOK, InTx, table
    <2>7. CASE Again(p) \/ Close(p)
        BY <2>7, TxFrame DEF Again, Close, TypeOK, InTx, table
    <2> QED BY <1>6, <2>1, <2>2, <2>3, <2>4, <2>5, <2>6, <2>7 DEF Poll
<1>7. ASSUME NEW p \in Polls, Fail(p) PROVE TxInv'
    <2>1. CASE tx.poll = p
        BY <1>7, <2>1, ConstantsAssumption DEF Fail, TxInv, TypeOK, NoTx, table
    <2>2. CASE tx.poll # p
        <3>1. pc[p] \notin InTx
            BY <2>2 DEF TxInv, InTx
        <3> QED BY <1>7, <2>2, <3>1, TxFrame DEF Fail, TypeOK, InTx, table
    <2> QED BY <2>1, <2>2
<1>8. ASSUME Switch PROVE TxInv'
    <2>1. CASE SwitchOn
        BY <2>1, TxFrame DEF SwitchOn, poll
    <2>2. CASE SwitchOff
        BY <2>2, TxFrame, WithoutFrees DEF SwitchOff, poll
    <2>3. CASE \E to \in {"on", "off"} : SwitchRead(to)
        BY <2>3, TxFrame DEF SwitchRead, table, poll
    <2> QED BY <1>8, <2>1, <2>2, <2>3 DEF Switch
<1>9. ASSUME NEW n \in Keeps, SetKeep(n) PROVE TxInv'
    BY <1>9, TxFrame, WithoutFrees DEF SetKeep, poll
<1>10. CASE UNCHANGED vars
    BY <1>10, TxFrame DEF vars, table, poll
<1> QED BY <1>1, <1>2, <1>3, <1>4, <1>5, <1>6, <1>7, <1>8, <1>9, <1>10 DEF Next

(***************************************************************************)
(* One taker.  OneTaker is not inductive: why no second taker is handed a  *)
(* message is that the first one's claim is still there, and that nothing  *)
(* the open transaction picked has been handed to anybody, which is what   *)
(* ClaimInv and TxInv add.                                                 *)
(***************************************************************************)

IInv == TypeOK /\ TxInv /\ ClaimInv /\ OneTaker

\* _trim drops from the bottom: no claim it drops is of a message it keeps.
LEMMA KeptAbove ==
    ASSUME NEW S \in SUBSET Seqs, NEW n \in Nat, NEW s \in Kept(S, n),
           NEW d \in S \ Kept(S, n)
    PROVE  d < s
<1>0. s \in S /\ Seqs \subseteq Int
    BY KeptSubset, ConstantsAssumption DEF Seqs
<1> SUFFICES ASSUME s <= d PROVE FALSE
    BY <1>0
<1> DEFINE Above(x) == {t \in S : t > x}
<1>1. n # 0 /\ Cardinality(Above(s)) < n /\ ~ (Cardinality(Above(d)) < n)
    BY DEF Kept
<1>2. IsFiniteSet(Seqs)
    BY FS_Interval, ConstantsAssumption DEF Seqs
<1>3. IsFiniteSet(S) /\ IsFiniteSet(Above(s))
    BY <1>2, FS_Subset
<1>4. Above(d) \in SUBSET Above(s)
    <2>1. d \in Int /\ s \in Int /\ \A t \in S : t > d => t > s
        BY <1>0
    <2> QED BY <2>1
<1> HIDE DEF Above
<1>5. IsFiniteSet(Above(d)) /\ Cardinality(Above(d)) <= Cardinality(Above(s))
    BY <1>3, <1>4, FS_Subset
<1>6. Cardinality(Above(d)) \in Nat /\ Cardinality(Above(s)) \in Nat
    BY <1>3, <1>5, FS_CardinalityType
<1> QED BY <1>1, <1>5, <1>6

\* A step that hands out only what nobody was handed, and frees a claim only
\* together with the message or with the memory of who was handed it.
LEMMA ClaimFrame ==
    ASSUME TypeOK, TxInv, ClaimInv, OneTaker, posted \subseteq posted',
           tx'.picks \subseteq tx.picks \cup stored',
           stored' \cap posted \subseteq stored,
           \A s \in Seqs :
              \/ handed'[s] = {} /\ (claims'[s] # Free => s \in posted')
              \/ handed'[s] = handed[s] /\ claims'[s] = claims[s]
              \/ handed'[s] = handed[s] /\ claims'[s] = Free /\ claims[s].is = "lapsed"
              \/ handed'[s] = handed[s] /\ claims'[s] = Free
                 /\ (s \in posted => s \notin stored')
              \/ handed'[s] = handed[s] /\ claims[s].is = "held"
                 /\ claims'[s] = [by |-> claims[s].by, is |-> "settled"]
              \/ handed'[s] = {claims'[s].by} /\ claims'[s].is = "held" /\ s \in posted'
    PROVE  ClaimInv' /\ OneTaker'
<1> SUFFICES ASSUME NEW s \in Seqs
    PROVE  /\ claims'[s] # Free => s \in posted'
           /\ handed'[s] # {} =>
                 \/ claims'[s].is \in {"held", "settled"} /\ handed'[s] = {claims'[s].by}
                 \/ claims'[s] = Free /\ s \in posted' \ stored' /\ s \notin tx'.picks
           /\ \A v, w \in handed'[s] : v = w
    BY DEF ClaimInv, OneTaker
<1>1. \A v, w \in handed[s] : v = w
    BY DEF OneTaker
<1>2. /\ claims[s] # Free => s \in posted
      /\ handed[s] # {} =>
            \/ claims[s].is \in {"held", "settled"} /\ handed[s] = {claims[s].by}
            \/ claims[s] = Free /\ s \in posted \ stored /\ s \notin tx.picks
    BY DEF ClaimInv
<1>3. s \notin tx.picks /\ s \notin stored' => s \notin tx'.picks
    OBVIOUS
<1>4. claims[s].is \in {"held", "settled"} => s \notin tx.picks
    BY DEF TxInv, Free
<1>5. Free.is = "free"
    BY DEF Free
<1>6. CASE handed'[s] = {} /\ (claims'[s] # Free => s \in posted')
    BY <1>6
<1>7. CASE handed'[s] = handed[s] /\ claims'[s] = claims[s]
    BY <1>1, <1>2, <1>3, <1>7
<1>8. CASE handed'[s] = handed[s] /\ claims'[s] = Free /\ claims[s].is = "lapsed"
    BY <1>1, <1>2, <1>5, <1>8
<1>9. CASE handed'[s] = handed[s] /\ claims'[s] = Free
           /\ (s \in posted => s \notin stored')
    BY <1>1, <1>2, <1>3, <1>4, <1>5, <1>9
<1>10. CASE handed'[s] = handed[s] /\ claims[s].is = "held"
            /\ claims'[s] = [by |-> claims[s].by, is |-> "settled"]
    BY <1>1, <1>2, <1>5, <1>10
<1>11. CASE handed'[s] = {claims'[s].by} /\ claims'[s].is = "held" /\ s \in posted'
    BY <1>11
<1> QED BY <1>6, <1>7, <1>8, <1>9, <1>10, <1>11

\* Ditto of a step that trims the channel S down to n.
LEMMA TrimFrees ==
    ASSUME NEW S \in SUBSET Seqs, NEW n \in Nat,
           NEW s \in UpTo(S \ Kept(S, n))
    PROVE  s \notin Kept(S, n)
<1>1. PICK d \in S \ Kept(S, n) : s <= d
    BY DEF UpTo
<1>2. s \in Int /\ d \in Int
    BY ConstantsAssumption DEF UpTo, Seqs
<1> QED BY <1>1, <1>2, KeptAbove

LEMMA ClaimStep ==
    TypeOK /\ TxInv /\ ClaimInv /\ OneTaker /\ [Next]_vars => ClaimInv' /\ OneTaker'
<1> SUFFICES ASSUME TypeOK, TxInv, ClaimInv, OneTaker, [Next]_vars
    PROVE  ClaimInv' /\ OneTaker'
    OBVIOUS
<1> DEFINE Goal == ClaimInv' /\ OneTaker'
<1>0. keep \in Nat /\ Keeps \subseteq Nat
    BY ConstantsAssumption DEF TypeOK
<1>1. ASSUME NEW s \in Seqs, Post(s) PROVE Goal
    <2> DEFINE S == stored \cup {s}
    <2>1. S \subseteq Seqs
        BY DEF TypeOK
    <2>2. stored' = Kept(S, keep) /\ stored' \subseteq S
        BY <1>1, KeptSubset DEF Post
    <2>3. \A t \in UpTo(S \ stored') : t \notin stored'
        BY <1>0, <2>1, <2>2, TrimFrees
    <2>4. \A t \in Seqs : claims'[t] = IF t \in UpTo(S \ stored') THEN Free ELSE claims[t]
        BY <1>1, WithoutFrees DEF Post
    <2> QED BY <1>1, <2>2, <2>3, <2>4, ClaimFrame DEF Post, poll
<1>2. ASSUME NEW s \in Seqs, Lapse(s) PROVE Goal
    BY <1>2, ClaimFrame DEF Lapse, ClaimInv, TypeOK, Free, table, poll
<1>3. ASSUME NEW w \in Workers, NEW s \in Seqs, Ack(w, s) PROVE Goal
    <2>1. \A t \in Seqs :
             \/ claims'[t] = claims[t]
             \/ /\ claims[t].is \in {"held", "lapsed"}
                /\ claims'[t] = [by |-> claims[t].by, is |-> "settled"]
        BY <1>3 DEF Ack, HeldBy, Unacked
    <2> QED BY <1>3, <2>1, ClaimFrame DEF Ack, ClaimInv, Free, poll
<1>4. ASSUME NEW w \in Workers, AskLapse(w) \/ Stop(w) PROVE Goal
    BY <1>4, ClaimFrame DEF AskLapse, Stop, table, poll
<1>5. ASSUME NEW w \in Workers, Admin(w) PROVE Goal
    <2>1. CASE \E t \in Turns \cup {0} : SetTurn(w, t)
        BY <2>1, ClaimFrame DEF SetTurn, poll
    <2>2. CASE Release(w)
        BY <2>2, ClaimFrame, WithoutFrees DEF Release, table, poll
    <2>3. CASE Leave(w)
        BY <2>3, ClaimFrame DEF Leave, poll
    <2>4. CASE \E fromStart \in BOOLEAN : Join(w, fromStart)
        BY <2>4, ClaimFrame DEF Join, poll
    <2> QED BY <1>5, <2>1, <2>2, <2>3, <2>4 DEF Admin
<1>6. ASSUME NEW p \in Polls, Poll(p) PROVE Goal
    <2>1. CASE Open(p) \/ Enter(p)
        BY <2>1, ClaimFrame DEF Open, Enter, table
    <2>2. CASE Look(p)
        <3>1. tx'.picks \subseteq tx.picks
            BY <2>2 DEF Look
        <3>2. \A s \in Seqs :
                 claims'[s] = claims[s] \/ (claims'[s] = Free /\ claims[s].is = "lapsed")
            BY <2>2 DEF Look, Commit, Overdue
        <3> QED BY <2>2, <3>1, <3>2, ClaimFrame DEF Look, table
    <2>3. CASE Insert(p)
        <3>1. tx'.picks \subseteq stored
            BY <2>3 DEF Insert, Lowest, Queued, TypeOK
        <3> QED BY <2>3, <3>1, ClaimFrame DEF Insert, table
    <2>4. CASE HandOver(p)
        <3>1. tx'.picks = {}
            BY <2>4 DEF HandOver, NoTx
        <3>2. ASSUME NEW s \in Seqs, s \in tx.picks
              PROVE  /\ handed'[s] = {claims'[s].by} /\ claims'[s].is = "held"
                     /\ s \in posted
            <4>1. handed[s] = {} /\ s \in posted
                BY <3>2 DEF TxInv, ClaimInv, Free
            <4> QED BY <2>4, <3>2, <4>1 DEF HandOver, Commit, TypeOK
        <3>3. ASSUME NEW s \in Seqs, s \notin tx.picks
              PROVE  /\ handed'[s] = handed[s]
                     /\ claims'[s] = claims[s]
                        \/ (claims'[s] = Free /\ claims[s].is = "lapsed")
            BY <2>4, <3>3 DEF HandOver, Commit, TxInv
        <3> QED BY <2>4, <3>1, <3>2, <3>3, ClaimFrame DEF HandOver, table
    <2>5. CASE Answer(p) \/ Again(p) \/ Close(p)
        BY <2>5, ClaimFrame DEF Answer, Again, Close, table
    <2> QED BY <1>6, <2>1, <2>2, <2>3, <2>4, <2>5 DEF Poll
<1>7. ASSUME NEW p \in Polls, Fail(p) PROVE Goal
    BY <1>7, ClaimFrame DEF Fail, NoTx, table
<1>8. ASSUME Switch PROVE Goal
    <2>1. CASE SwitchOn
        BY <2>1, ClaimFrame DEF SwitchOn, poll
    <2>2. CASE SwitchOff
        BY <2>2, ClaimFrame, WithoutFrees DEF SwitchOff, poll
    <2>3. CASE \E to \in {"on", "off"} : SwitchRead(to)
        BY <2>3, ClaimFrame DEF SwitchRead, table, poll
    <2> QED BY <1>8, <2>1, <2>2, <2>3 DEF Switch
<1>9. ASSUME NEW n \in Keeps, SetKeep(n) PROVE Goal
    <2>1. stored' = Kept(stored, n) /\ stored' \subseteq stored
        BY <1>9, KeptSubset DEF SetKeep
    <2>2. \A t \in UpTo(stored \ stored') : t \notin stored'
        BY <1>0, <2>1, TrimFrees DEF TypeOK
    <2>3. \A t \in Seqs : claims'[t] = IF t \in UpTo(stored \ stored') THEN Free ELSE claims[t]
        BY <1>9, WithoutFrees DEF SetKeep
    <2> QED BY <1>9, <2>1, <2>2, <2>3, ClaimFrame DEF SetKeep, poll
<1>10. CASE UNCHANGED vars
    BY <1>10, ClaimFrame DEF vars, table, poll
<1> QED BY <1>1, <1>2, <1>3, <1>4, <1>5, <1>6, <1>7, <1>8, <1>9, <1>10 DEF Next

LEMMA IInvInit == Init => IInv
<1> SUFFICES ASSUME Init PROVE IInv
    OBVIOUS
<1>1. TypeOK
    BY TypeInit
<1>2. TxInv
    BY ConstantsAssumption DEF Init, TxInv, NoTx
<1>3. ClaimInv /\ OneTaker
    BY DEF Init, ClaimInv, OneTaker
<1> QED BY <1>1, <1>2, <1>3 DEF IInv

THEOREM Inductive == Spec => []IInv
<1>1. IInv /\ [Next]_vars => IInv'
    BY TypeStep, TxStep, ClaimStep DEF IInv
<1> QED BY <1>1, IInvInit, PTL DEF Spec

\* However many workers, instances and messages there are, whatever the
\* administrator does and whichever requests fail: between two returns to the
\* queue a message is handed to one taker at most.
THEOREM OneTakerAlways == Spec => []OneTaker
BY Inductive, PTL DEF IInv

\* What the open transaction of a queue decided still holds when it commits.
THEOREM TxAlways == Spec => []TxInv
BY Inductive, PTL DEF IInv

\* A message that was handed to a taker is claimed for it until it is dropped.
THEOREM ClaimAlways == Spec => []ClaimInv
BY Inductive, PTL DEF IInv

(***************************************************************************)
(* Queue implements WorkQueue: every request, in whatever order the        *)
(* statements of others come, does to the queue one step of WorkQueue or   *)
(* none.                                                                   *)
(***************************************************************************)

\* The step of WorkQueue, as the tables show it.
AStep == Promise!Next \/ UNCHANGED <<[s \in Seqs |-> Item(s)], queueFrom # Room>>
Same(s) == Item(s)' = Item(s)

\* A message that stays stored, or stays out, with its claim as it was.
LEMMA SameItem ==
    ASSUME NEW s \in Seqs, s \in posted <=> s \in posted',
           s \in stored <=> s \in stored', s \in stored => claims'[s] = claims[s]
    PROVE  Same(s)
BY DEF Same, Item

LEMMA AllSame ==
    ASSUME \A s \in Seqs : Same(s), queueFrom' = queueFrom
    PROVE  AStep
BY DEF AStep, Same

LEMMA Unmoved ==
    ASSUME posted' = posted, stored' = stored, claims' = claims, queueFrom' = queueFrom
    PROVE  AStep
BY SameItem, AllSame

\* What the abstract state says of a message, from the tables.
LEMMA View ==
    ASSUME TypeOK, NEW s \in Seqs
    PROVE  /\ s \notin posted => Item(s) = Promise!Nowhere("new")
           /\ s \in posted \ stored => Item(s) = Promise!Nowhere("gone")
           /\ s \in stored /\ claims[s] = Free => Item(s) = Promise!Nowhere("waiting")
           /\ s \in stored /\ claims[s].is = "held" =>
                 Item(s) = Promise!With(claims[s].by, "held")
           /\ s \in stored /\ claims[s].is = "lapsed" =>
                 Item(s) = Promise!With(claims[s].by, "overdue")
           /\ s \in stored /\ claims[s].is = "settled" =>
                 Item(s) = Promise!With(claims[s].by, "done")
           /\ claims[s].is = "free" <=> claims[s] = Free
           /\ claims[s].is \in {"free", "held", "lapsed", "settled"}
<1>1. claims[s] \in Claim /\ (s \in stored => s \in posted)
    BY DEF TypeOK
<1> QED BY <1>1 DEF Item, Word, Claim, Free, Promise!Nowhere, Promise!With

LEMMA PostRefines ==
    ASSUME IInv, IInv', NEW s \in Seqs, Post(s) PROVE AStep
<1> USE DEF IInv
<1> DEFINE S == stored \cup {s}
           dropped == S \ stored'
<1>1. S \subseteq Seqs /\ stored' = Kept(S, keep) /\ stored' \subseteq S /\ keep \in Nat
    BY KeptSubset, ConstantsAssumption DEF Post, TypeOK
<1>2. \A t \in UpTo(dropped) : t \notin stored'
    BY <1>1, TrimFrees
<1>3. \A t \in stored' : claims'[t] = claims[t]
    <2>1. claims' = Without(UpTo(dropped))
        BY DEF Post
    <2> HIDE DEF S, dropped
    <2> QED BY <1>1, <1>2, <2>1, WithoutFrees
<1>4. s \notin posted /\ claims[s] = Free
    BY DEF Post, ClaimInv
<1>5. Item(s) = Promise!Nowhere("new")
    BY <1>4, View
<1>6. \A t \in stored : Item(t).at \notin {"new", "gone"}
    <2> SUFFICES ASSUME NEW t \in stored PROVE Item(t).at \notin {"new", "gone"}
        OBVIOUS
    <2>1. t \in Seqs /\ t \in posted /\ Item(t).at = Word[claims[t].is]
        BY DEF TypeOK, Item
    <2>2. claims[t].is \in {"free", "held", "lapsed", "settled"}
        BY <2>1, View
    <2> QED BY <2>1, <2>2 DEF Word
<1>7. ASSUME NEW t \in dropped PROVE Item(t)' = Promise!Nowhere("gone")
    <2>1. t \in posted' \ stored' /\ t \in Seqs
        BY <1>1 DEF Post, TypeOK
    <2> QED BY <2>1 DEF Item, Promise!Nowhere
<1>8. ASSUME s \notin dropped PROVE Item(s)' = Promise!Nowhere("waiting")
    <2>1. s \in stored' /\ s \in posted'
        BY <1>8 DEF Post
    <2>2. claims'[s] = Free
        BY <1>3, <1>4, <2>1
    <2>3. Word[Free.is] = "waiting" /\ Free.by = NoOne
        BY DEF Word, Free
    <2> QED BY <2>1, <2>2, <2>3 DEF Item, Promise!Nowhere
<1>9. ASSUME NEW t \in Seqs, t \notin dropped, t # s PROVE Item(t)' = Item(t)
    <2>1. (t \in posted <=> t \in posted') /\ (t \in stored <=> t \in stored')
        BY <1>1, <1>9 DEF Post
    <2> QED BY <1>3, <2>1, SameItem DEF Same
<1>10. Promise!Arrive(s, dropped)
    BY <1>1, <1>5, <1>6, <1>7, <1>8, <1>9
    DEF Promise!Arrive, Promise!At, Promise!Known, Promise!Nowhere
<1>11. UNCHANGED (queueFrom # Room)
    BY DEF Post
<1> QED BY <1>1, <1>10, <1>11 DEF AStep, Promise!Next, Promise!Work

LEMMA SetKeepRefines ==
    ASSUME IInv, IInv', NEW n \in Keeps, SetKeep(n) PROVE AStep
<1> USE DEF IInv
<1> DEFINE dropped == stored \ stored'
<1>1. stored \subseteq Seqs /\ stored' = Kept(stored, n) /\ stored' \subseteq stored
      /\ n \in Nat
    BY KeptSubset, ConstantsAssumption DEF SetKeep, TypeOK
<1>2. \A t \in UpTo(dropped) : t \notin stored'
    BY <1>1, TrimFrees
<1>3. \A t \in stored' : claims'[t] = claims[t]
    BY <1>1, <1>2, WithoutFrees DEF SetKeep
<1>4. \A t \in stored : Item(t).at \notin {"new", "gone"}
    BY View DEF TypeOK, Promise!Nowhere, Promise!With
<1>5. ASSUME NEW t \in dropped PROVE Item(t)' = Promise!Nowhere("gone")
    <2>1. t \in posted' \ stored' /\ t \in Seqs
        BY DEF SetKeep, TypeOK
    <2> QED BY <2>1 DEF Item, Promise!Nowhere
<1>6. ASSUME NEW t \in Seqs, t \notin dropped PROVE Item(t)' = Item(t)
    <2>1. (t \in posted <=> t \in posted') /\ (t \in stored <=> t \in stored')
        BY <1>1, <1>6 DEF SetKeep
    <2> QED BY <1>3, <2>1, SameItem DEF Same
<1>7. Promise!Drop(dropped)
    BY <1>1, <1>4, <1>5, <1>6 DEF Promise!Drop, Promise!At, Promise!Known
<1>8. UNCHANGED (queueFrom # Room)
    BY DEF SetKeep
<1> QED BY <1>1, <1>7, <1>8 DEF AStep, Promise!Next, Promise!Work

LEMMA AckRefines ==
    ASSUME IInv, NEW w \in Workers, NEW s \in Seqs, Ack(w, s) PROVE AStep
<1> USE DEF IInv
<1> DEFINE S == {t \in stored : t \in HeldBy(w) \ tx.purge /\ t <= s}
<1>1. S \subseteq Seqs /\ posted' = posted /\ stored' = stored /\ queueFrom' = queueFrom
    BY DEF Ack, TypeOK
<1>2. ASSUME NEW t \in S
      PROVE  /\ Item(t).by = w /\ Item(t).at \in {"held", "overdue"}
             /\ Item(t)' = Promise!With(w, "done")
    <2>1. claims[t].by = w /\ claims[t].is \in {"held", "lapsed"} /\ t \in Seqs
        BY DEF HeldBy, Unacked
    <2>2. claims'[t] = [by |-> w, is |-> "settled"] /\ t \in stored' /\ t \in posted'
        BY <1>1, <2>1 DEF Ack, TypeOK
    <2>3. Word["settled"] = "done"
        BY DEF Word
    <2>4. Item(t)' = Promise!With(w, "done")
        BY <2>2, <2>3 DEF Item, Promise!With
    <2>5. Item(t) = Promise!With(w, "held") \/ Item(t) = Promise!With(w, "overdue")
        BY <2>1, View
    <2> QED BY <2>4, <2>5 DEF Promise!With
<1>3. ASSUME NEW t \in Seqs, t \notin S PROVE Item(t)' = Item(t)
    <2>1. t \in stored => claims'[t] = claims[t]
        BY <1>3 DEF Ack
    <2> QED BY <1>1, <2>1, SameItem DEF Same
<1>4. Promise!Settle(w, S)
    BY <1>1, <1>2, <1>3 DEF Promise!Settle, Promise!InHand, Promise!At
<1> QED BY <1>1, <1>4 DEF AStep, Promise!Next, Promise!Work

LEMMA LapseRefines ==
    ASSUME IInv, NEW s \in Seqs, Lapse(s) PROVE AStep
<1> USE DEF IInv
<1>1. posted' = posted /\ stored' = stored /\ queueFrom' = queueFrom
    BY DEF Lapse, table
<1>2. claims[s].is = "held" /\ claims' = [claims EXCEPT ![s].is = "lapsed"]
    BY DEF Lapse
<1>3. \A t \in Seqs \ {s} : Item(t)' = Item(t)
    BY <1>1, <1>2, SameItem DEF Same, TypeOK
<1>4. CASE s \in stored
    <2>1. Item(s) = Promise!With(claims[s].by, "held")
        BY <1>2, <1>4, View
    <2>2. claims'[s].is = "lapsed" /\ claims'[s].by = claims[s].by
        <3>1. claims[s] \in [by : Workers, is : {"held", "lapsed", "settled"}]
            BY <1>2 DEF TypeOK, Claim, Free
        <3> QED BY <1>2, <3>1 DEF TypeOK
    <2>3. Item(s)' = Promise!With(Item(s).by, "overdue")
        BY <1>1, <1>4, <2>1, <2>2 DEF Item, Word, Promise!With, TypeOK
    <2>4. Promise!Overdue(s)
        BY <1>3, <2>1, <2>3 DEF Promise!Overdue, Promise!At, Promise!With
    <2> QED BY <1>1, <2>4 DEF AStep, Promise!Next, Promise!Work
<1>5. CASE s \notin stored
    <2>1. Same(s)
        BY <1>1, <1>5, SameItem
    <2> QED BY <1>1, <1>3, <2>1, AllSame DEF Same
<1> QED BY <1>4, <1>5

\* A step of a take transaction: S is handed to w, and the overdue R go back.
LEMMA HandRefines ==
    ASSUME IInv, NEW w \in Workers, NEW S \in SUBSET Seqs, NEW R \in SUBSET Seqs,
           posted' = posted, stored' = stored, queueFrom' = queueFrom,
           \A s \in S : claims[s] = Free \/ claims[s].is = "lapsed",
           \A s \in R : claims[s] = Free \/ claims[s].is = "lapsed",
           claims' = [s \in Seqs |-> IF s \in S THEN [by |-> w, is |-> "held"]
                                     ELSE IF s \in R THEN Free ELSE claims[s]]
    PROVE  AStep
<1> USE DEF IInv
<1> DEFINE A == S \cap stored
           B == {s \in R \cap stored : claims[s].is = "lapsed"}
<1>1. stored \subseteq posted
    BY DEF TypeOK
<1>2. \A s \in A : Item(s).at \in {"waiting", "overdue"}
    BY View DEF Promise!Nowhere, Promise!With
<1>3. \A s \in B : Item(s).at = "overdue"
    BY View DEF Promise!With
<1>4. ASSUME NEW s \in A PROVE Item(s)' = Promise!With(w, "held")
    <2>1. claims'[s] = [by |-> w, is |-> "held"] /\ s \in stored' /\ s \in posted'
        BY <1>1
    <2>2. Word["held"] = "held"
        BY DEF Word
    <2> QED BY <2>1, <2>2 DEF Item, Promise!With
<1>5. ASSUME NEW s \in B, s \notin A PROVE Item(s)' = Promise!Nowhere("waiting")
    <2>1. claims'[s] = Free /\ s \in stored' /\ s \in posted'
        BY <1>1, <1>5
    <2>2. Word[Free.is] = "waiting" /\ Free.by = NoOne
        BY DEF Word, Free
    <2> QED BY <2>1, <2>2 DEF Item, Promise!Nowhere
<1>6. ASSUME NEW s \in Seqs, s \notin A, s \notin B PROVE Item(s)' = Item(s)
    <2>1. s \in stored => claims'[s] = claims[s]
        BY <1>6
    <2> QED BY <2>1, SameItem DEF Same
<1>7. Promise!Hand(w, A, B)
    BY <1>2, <1>3, <1>4, <1>5, <1>6 DEF Promise!Hand, Promise!At
<1> QED BY <1>7 DEF AStep, Promise!Next, Promise!Work

LEMMA ReleaseRefines ==
    ASSUME IInv, NEW w \in Workers, Release(w) PROVE AStep
<1> USE DEF IInv
<1> DEFINE S == HeldBy(w) \cap stored
<1>1. posted' = posted /\ stored' = stored /\ queueFrom' = queueFrom /\ stored \subseteq posted
    BY DEF Release, table, TypeOK
<1>2. \A s \in Seqs : s \in Promise!InHand(w) <=> s \in S
    <2>1. ASSUME NEW s \in Seqs
          PROVE  (Item(s).by = w /\ Item(s).at \in {"held", "overdue"}) <=> s \in S
        <3>1. s \notin posted \/ s \in posted \ stored \/ s \in stored
            OBVIOUS
        <3> QED BY <3>1, View DEF HeldBy, Unacked, Free, Promise!Nowhere, Promise!With
    <2> QED BY <2>1 DEF Promise!InHand, Promise!At
<1>3. ASSUME NEW s \in Seqs
      PROVE  Item(s)' = IF s \in S THEN Promise!Nowhere("waiting") ELSE Item(s)
    <2>1. claims'[s] = IF s \in HeldBy(w) THEN Free ELSE claims[s]
        BY WithoutFrees DEF Release
    <2>2. CASE s \in S
        <3>1. claims'[s] = Free /\ s \in stored' /\ s \in posted'
            BY <1>1, <2>1, <2>2
        <3>2. Word[Free.is] = "waiting" /\ Free.by = NoOne
            BY DEF Word, Free
        <3> QED BY <2>2, <3>1, <3>2 DEF Item, Promise!Nowhere
    <2>3. CASE s \notin S
        BY <1>1, <2>1, <2>3, SameItem DEF Same
    <2> QED BY <2>2, <2>3
<1>4. Promise!GiveBack(w)
    BY <1>2, <1>3 DEF Promise!GiveBack
<1> QED BY <1>1, <1>4 DEF AStep, Promise!Next, Promise!Work

LEMMA SwitchOffRefines ==
    ASSUME IInv, SwitchOff PROVE AStep
<1> USE DEF IInv
<1>1. posted' = posted /\ stored' = stored /\ queueFrom' = Room /\ stored \subseteq posted
    BY DEF SwitchOff, TypeOK
<1>2. \A s \in Seqs : s \in Promise!Known <=> s \in stored
    <2>1. ASSUME NEW s \in Seqs PROVE Item(s).at \notin {"new", "gone"} <=> s \in stored
        <3>1. s \notin posted \/ s \in posted \ stored \/ s \in stored
            OBVIOUS
        <3> QED BY <3>1, View DEF Promise!Nowhere, Promise!With
    <2> QED BY <2>1 DEF Promise!Known, Promise!At
<1>3. ASSUME NEW s \in Seqs
      PROVE  Item(s)' = IF s \in stored THEN Promise!Nowhere("waiting") ELSE Item(s)
    <2>1. claims'[s] = Free
        BY WithoutFrees DEF SwitchOff
    <2>2. CASE s \in stored
        <3>1. s \in stored' /\ s \in posted'
            BY <1>1, <2>2
        <3>2. Word[Free.is] = "waiting" /\ Free.by = NoOne
            BY DEF Word, Free
        <3> QED BY <2>1, <2>2, <3>1, <3>2 DEF Item, Promise!Nowhere
    <2>3. CASE s \notin stored
        BY <1>1, <2>3, SameItem DEF Same
    <2> QED BY <2>2, <2>3
<1>4. Promise!Recall
    BY <1>1, <1>2, <1>3 DEF Promise!Recall
<1> QED BY <1>4 DEF AStep, Promise!Next

LEMMA SwitchOnRefines ==
    ASSUME IInv, SwitchOn PROVE AStep
<1>1. posted' = posted /\ stored' = stored /\ claims' = claims
    BY DEF SwitchOn
<1>2. \A s \in Seqs : Item(s)' = Item(s)
    BY <1>1, SameItem DEF Same
<1>3. queueFrom' # Room
    BY ConstantsAssumption DEF SwitchOn, IInv, TypeOK, Room
<1>4. Promise!SwitchedOn
    BY <1>2, <1>3 DEF Promise!SwitchedOn
<1> QED BY <1>4 DEF AStep, Promise!Next

LEMMA StepRefines == IInv /\ IInv' /\ [Next]_vars => AStep
<1> SUFFICES ASSUME IInv, IInv', [Next]_vars PROVE AStep
    OBVIOUS
<1>1. ASSUME NEW s \in Seqs, Post(s) \/ Lapse(s) PROVE AStep
    BY <1>1, PostRefines, LapseRefines
<1>2. ASSUME NEW w \in Workers, NEW s \in Seqs, Ack(w, s) PROVE AStep
    BY <1>2, AckRefines
<1>3. ASSUME NEW w \in Workers, AskLapse(w) \/ Stop(w) PROVE AStep
    BY <1>3, Unmoved DEF AskLapse, Stop, table
<1>4. ASSUME NEW w \in Workers, Admin(w) PROVE AStep
    <2>1. CASE \E t \in Turns \cup {0} : SetTurn(w, t)
        BY <2>1, Unmoved DEF SetTurn
    <2>2. CASE Release(w)
        BY <2>2, ReleaseRefines
    <2>3. CASE Leave(w)
        BY <2>3, Unmoved DEF Leave
    <2>4. CASE \E fromStart \in BOOLEAN : Join(w, fromStart)
        BY <2>4, Unmoved DEF Join
    <2> QED BY <1>4, <2>1, <2>2, <2>3, <2>4 DEF Admin
<1>5. ASSUME NEW p \in Polls, Poll(p) PROVE AStep
    <2>1. CASE Open(p) \/ Enter(p) \/ Insert(p)
        BY <2>1, Unmoved DEF Open, Enter, Insert, table
    <2>2. CASE Look(p)
        <3>1. CASE claims' = claims
            BY <2>2, <3>1, Unmoved DEF Look, table
        <3>2. CASE claims' # claims
            <4>1. Commit(p, Overdue, {}, HeldBy(Owner[p]) \ Overdue)
                BY <2>2, <3>2 DEF Look
            <4>2. \A s \in Overdue : claims[s].is = "lapsed"
                BY DEF Overdue
            <4>3. Overdue \subseteq Seqs /\ Owner[p] \in Workers
                BY ConstantsAssumption DEF Overdue
            <4>4. posted' = posted /\ stored' = stored /\ queueFrom' = queueFrom
                BY <2>2 DEF Look, table
            <4>5. {} \in SUBSET Seqs /\ Overdue \in SUBSET Seqs
                BY <4>3
            <4>6. claims' = [s \in Seqs |-> IF s \in {} THEN [by |-> Owner[p], is |-> "held"]
                                ELSE IF s \in Overdue THEN Free ELSE claims[s]]
                BY <4>1 DEF Commit
            <4> QED BY <4>2, <4>3, <4>4, <4>5, <4>6, HandRefines
        <3> QED BY <3>1, <3>2
    <2>3. CASE HandOver(p)
        <3>1. /\ \A s \in tx.purge : claims[s] = Free \/ claims[s].is = "lapsed"
              /\ \A s \in tx.picks : claims[s] = Free \/ s \in tx.purge
              /\ tx.purge \subseteq Seqs /\ tx.picks \subseteq Seqs
            BY DEF IInv, TxInv, TypeOK
        <3>2. Owner[p] \in Workers
            BY ConstantsAssumption
        <3> QED BY <2>3, <3>1, <3>2, HandRefines DEF HandOver, Commit, table
    <2>4. CASE Answer(p) \/ Again(p) \/ Close(p)
        BY <2>4, Unmoved DEF Answer, Again, Close, table
    <2> QED BY <1>5, <2>1, <2>2, <2>3, <2>4 DEF Poll
<1>6. ASSUME NEW p \in Polls, Fail(p) PROVE AStep
    BY <1>6, Unmoved DEF Fail, table
<1>7. CASE Switch
    <2>1. CASE \E to \in {"on", "off"} : SwitchRead(to)
        BY <2>1, Unmoved DEF SwitchRead, table
    <2> QED BY <1>7, <2>1, SwitchOnRefines, SwitchOffRefines DEF Switch
<1>8. ASSUME NEW n \in Keeps, SetKeep(n) PROVE AStep
    BY <1>8, SetKeepRefines
<1>9. CASE UNCHANGED vars
    BY <1>9, Unmoved DEF vars, table
<1> QED BY <1>1, <1>2, <1>3, <1>4, <1>5, <1>6, <1>7, <1>8, <1>9 DEF Next

\* The queue keeps its promise: the tables, read as WorkQueue's state, only ever
\* take WorkQueue's steps, however many requests are in flight.
THEOREM QueueImplements == Spec => KeepsPromise
<1>1. Init => Promise!Init
    <2> SUFFICES ASSUME Init PROVE Promise!Init
        OBVIOUS
    <2>1. \A s \in Seqs : Item(s) = Promise!Nowhere("new")
        BY DEF Init, Item, Promise!Nowhere
    <2> QED BY <2>1 DEF Promise!Init
<1>2. IInv /\ IInv' /\ [Next]_vars
        => [Promise!Next]_<<[s \in Seqs |-> Item(s)], queueFrom # Room>>
    BY StepRefines DEF AStep
<1> QED BY <1>1, <1>2, Inductive, PTL DEF Spec, KeepsPromise, Promise!Spec

=============================================================================
