---------------------------- MODULE BridgeProofs ----------------------------
(* Theorems about Bridge: types, and that what a cursor passed was handed to
   proposal-writer or refused by it. *)
EXTENDS Bridge, FiniteSetTheorems, WellFoundedInduction, TLAPS

USE BridgeAssumption

\* A set of messages that is not empty has a first one.
LEMMA FirstOf ==
    ASSUME NEW S \in SUBSET Seqs, S # {}
    PROVE  First(S) \in S /\ \A q \in S : First(S) <= q
<1> DEFINE R == {p \in Nat \X Nat : p[1] < p[2]}
<1>1. IsWellFoundedOn(R, Nat)
  BY NatLessThanWellFounded, Zenon DEF OpToRel
<1>2. S \in SUBSET Nat
  BY DEF Seqs
<1>3. PICK q \in S : \A r \in S : <<r, q>> \notin R
  <2> HIDE DEF R
  <2> QED BY <1>1, <1>2, WFMin
<1>4. \A r \in S : q <= r
  <2> SUFFICES ASSUME NEW r \in S, ~ (q <= r) PROVE FALSE
    OBVIOUS
  <2>1. q \in Nat /\ r \in Nat /\ r < q
    BY <1>2
  <2>2. <<r, q>> \in R
    BY <2>1
  <2> HIDE DEF R
  <2> QED BY <1>3, <2>2
<1> QED BY <1>4, Zenon DEF First

LEMMA SomeFinite ==
    ASSUME NEW S \in SUBSET Seqs
    PROVE  IsFiniteSet(S) /\ Cardinality(S) \in Nat
<1>1. IsFiniteSet(1..MaxSeq)
  BY FS_Interval
<1> QED BY <1>1, FS_Subset, FS_CardinalityType DEF Seqs

\* A response carries something when something is due ...
LEMMA LowestSome ==
    ASSUME NEW S \in SUBSET Seqs, S # {}
    PROVE  Lowest(S, Limit) # {} /\ Lowest(S, Limit) \subseteq S
<1> DEFINE f == First(S)
<1>1. f \in S /\ \A q \in S : f <= q
  BY FirstOf
<1> HIDE DEF f
<1>2. {t \in S : t < f} = {}
  <2> SUFFICES ASSUME NEW t \in S, t < f PROVE FALSE
    OBVIOUS
  <2> QED BY <1>1 DEF Seqs
<1>3. Cardinality({t \in S : t < f}) = 0
  BY <1>2, FS_EmptySet
<1>4. f \in Lowest(S, Limit)
  BY <1>1, <1>3 DEF Lowest
<1> QED BY <1>4 DEF Lowest

\* ... and skips nothing.
LEMMA LowestFirst ==
    ASSUME NEW S \in SUBSET Seqs, NEW r \in Lowest(S, Limit), NEW s \in S, s < r
    PROVE  s \in Lowest(S, Limit)
<1> DEFINE A == {t \in S : t < s}
           B == {t \in S : t < r}
<1>0. r \in S
  BY DEF Lowest
<1>1. A \subseteq B /\ A \in SUBSET Seqs /\ B \in SUBSET Seqs
  <2> SUFFICES ASSUME NEW t \in S, t < s PROVE t < r
    OBVIOUS
  <2> QED BY <1>0 DEF Seqs
<1>2. Cardinality(A) <= Cardinality(B)
  BY <1>1, SomeFinite, FS_Subset
<1>3. Cardinality(B) < Limit
  BY DEF Lowest
<1>4. Cardinality(A) \in Nat /\ Cardinality(B) \in Nat
  BY <1>1, SomeFinite
<1> HIDE DEF B
<1>5. Cardinality(A) < Limit
  BY <1>2, <1>3, <1>4
<1> QED BY <1>5 DEF Lowest

(***************************************************************************)
(* Types.                                                                  *)
(***************************************************************************)

States == [at : {"polling", "delivering", "answered"}, rows : SUBSET Seqs,
           refused : Reasons, refusals : 0..Blame]

BridgeType ==
    /\ bridge \in States
    /\ bridge.at = "polling" <=> bridge.rows = {}

\* The message in hand is one of the rows.
LEMMA InHandType ==
    ASSUME BridgeType, bridge.at # "polling"
    PROVE  This \in bridge.rows /\ This \in Seqs /\ \A q \in bridge.rows : This <= q
BY FirstOf DEF BridgeType, States, This

LEMMA ActType == \A what : Act(what) => acts' \in Histories
BY DEF Act

\* Whatever was said of the last refusal, going on or giving up is well typed.
LEMMA Moves ==
    ASSUME NEW p \in States,
           p.rows # {}, This \in p.rows,
           bridge' \in {Onward(p), Answered(p), GiveUp(p)}
    PROVE  BridgeType'
<1>1. CASE bridge' = Onward(p)
  <2>1. p.rows \ {This} = {} <=> p.rows = {This}
    OBVIOUS
  <2> QED BY <1>1, <2>1 DEF BridgeType, States, Onward
<1>2. CASE bridge' = Answered(p)
  BY <1>2 DEF BridgeType, States, Answered
<1>3. CASE bridge' = GiveUp(p)
  BY <1>3 DEF BridgeType, States, GiveUp
<1> QED BY <1>1, <1>2, <1>3

LEMMA CountType ==
    ASSUME BridgeType, NEW why \in Reasons
    PROVE  Count(why) \in States /\ Count(why).rows = bridge.rows
<1> DEFINE n == IF why # bridge.refused THEN 1
                ELSE IF bridge.refusals < Blame THEN bridge.refusals + 1 ELSE Blame
<1>1. bridge \in States /\ bridge.refusals \in 0..Blame
  BY DEF BridgeType, States
<1>2. n \in 0..Blame
  BY <1>1
<1>3. Count(why) = [bridge EXCEPT !.refused = why, !.refusals = n]
  BY Zenon DEF Count
<1> HIDE DEF n
<1> QED BY <1>1, <1>2, <1>3 DEF States

LEMMA IdleType == Idle \in States
<1>1. "" \in Reasons
  BY DEF Reasons
<1>2. 0 \in 0..Blame
  OBVIOUS
<1> HIDE DEF Reasons
<1> QED BY <1>1, <1>2 DEF Idle, States

LEMMA WhyType == \A s : Why(s) \subseteq Reasons
BY DEF Why, Reasons

\* Type correctness of the proposal bridge: while it has rows in hand there is
\* a first one, and no cursor leaves the range of the messages.
THEOREM BridgeTypeCorrect == Spec => []TypeOK
<1>1. Init => TypeOK
  <2> SUFFICES ASSUME Init PROVE TypeOK
    OBVIOUS
  <2>1. bridge \in States /\ bridge.at = "polling" /\ bridge.rows = {}
    BY IdleType DEF Init, Idle
  <2> QED BY <2>1 DEF Init, TypeOK, States
<1>2. TypeOK /\ [Next]_vars => TypeOK'
  <2> SUFFICES ASSUME TypeOK, [Next]_vars PROVE TypeOK'
    OBVIOUS
  <2> USE DEF TypeOK
  <2>t. BridgeType
    BY DEF BridgeType, States
  <2>o. /\ BridgeType' /\ acts' \in Histories
        /\ late' \subseteq stored' /\ stored' \subseteq Seqs
        /\ cursor' \in [Channels -> 0..MaxSeq] /\ writer' \in {"up", "down", "amiss"}
        /\ handed' \subseteq Seqs /\ dropped' \subseteq Jobs
        => TypeOK'
    BY DEF BridgeType, States
  <2>h. /\ bridge \in States
        /\ bridge.at # "polling" => bridge.rows # {} /\ This \in bridge.rows /\ This \in Seqs
    BY <2>t, InHandType DEF BridgeType
  <2>1. CASE Poll
    <3>1. Due \in SUBSET Seqs /\ Due # {}
      BY <2>1 DEF Poll, Due
    <3>2. Lowest(Due, Limit) \in SUBSET Seqs /\ Lowest(Due, Limit) # {}
      BY <3>1, LowestSome
    <3>3. BridgeType'
      BY <2>1, <2>t, <3>2 DEF Poll, BridgeType, States
    <3> QED BY <2>1, <2>o, <3>3 DEF Poll
  <2>2. ASSUME NEW s \in Seqs, PassOver(s) PROVE TypeOK'
    <3>1. BridgeType'
      BY <2>2, <2>h, Moves DEF PassOver, Passed, At
    <3> QED BY <2>2, <2>o, <3>1 DEF PassOver
  <2>3. ASSUME NEW s \in Seqs, Report(s) PROVE TypeOK'
    <3>1. BridgeType'
      BY <2>3, <2>h, Moves DEF Report, At
    <3> QED BY <2>3, <2>o, <3>1 DEF Report
  <2>4. ASSUME NEW s \in Seqs, Draft(s) PROVE TypeOK'
    <3> DEFINE p == [bridge EXCEPT !.refusals = 0]
    <3>0. 0 \in 0..Blame
      OBVIOUS
    <3>1. p \in States /\ p.rows = bridge.rows
      BY <2>t, <3>0 DEF BridgeType, States
    <3>2. bridge' = Answered(p) /\ bridge.at # "polling"
      BY <2>4 DEF Draft, At
    <3> HIDE DEF p
    <3>3. BridgeType'
      BY <3>1, <3>2, <2>h, Moves
    <3> QED BY <2>4, <2>o, <3>3 DEF Draft
  <2>5. ASSUME NEW s \in Seqs, Refuse(s) PROVE TypeOK'
    <3>1. PICK why \in Why(s) :
              \/ bridge' = GiveUp(Count(why)) /\ UNCHANGED dropped
              \/ bridge' = Answered(Count(why)) /\ dropped' = dropped \cup {s}
      BY <2>5 DEF Refuse
    <3>2. why \in Reasons
      BY WhyType
    <3>3. bridge.at # "polling" /\ s \in Jobs
      BY <2>5 DEF Refuse, At
    <3>4. BridgeType'
      BY <3>1, <3>2, <3>3, <2>t, <2>h, CountType, Moves
    <3> QED BY <2>5, <2>o, <3>1, <3>3, <3>4 DEF Refuse
  <2>6. ASSUME NEW s \in Seqs, Silent(s) PROVE TypeOK'
    <3>1. BridgeType'
      BY <2>6, <2>h, Moves DEF Silent, At
    <3> QED BY <2>6, <2>o, <3>1 DEF Silent
  <2>7. CASE Ack
    <3>1. BridgeType'
      BY <2>7, <2>h, Moves DEF Ack
    <3>2. This \in 0..MaxSeq
      BY <2>7, <2>h DEF Ack, Seqs
    <3>3. cursor' \in [Channels -> 0..MaxSeq]
      BY <2>7, <3>2 DEF Ack, Larger
    <3> QED BY <2>7, <2>o, <3>1, <3>3 DEF Ack
  <2>8. CASE AckLost
    <3>1. BridgeType'
      BY <2>8, <2>h, Moves DEF AckLost
    <3> QED BY <2>8, <2>o, <3>1, ActType DEF AckLost
  <2>9. ASSUME NEW s \in Seqs, TimeOut(s) PROVE TypeOK'
    <3>1. BridgeType'
      BY <2>9, <2>h, Moves DEF TimeOut, At
    <3>2. handed' \subseteq Seqs
      BY <2>9 DEF TimeOut
    <3> QED BY <2>9, <2>o, <3>1, <3>2, ActType DEF TimeOut
  <2>10. CASE Crash
    <3>1. BridgeType'
      BY <2>10, IdleType DEF Crash, Idle, BridgeType
    <3> QED BY <2>10, <2>o, <3>1, ActType DEF Crash
  <2>11. ASSUME NEW s \in Seqs, Publish(s) PROVE TypeOK'
    BY <2>11 DEF Publish
  <2>12. ASSUME NEW to \in {"up", "down", "amiss"}, Turn(to) PROVE TypeOK'
    BY <2>12, ActType DEF Turn
  <2>13. CASE UNCHANGED vars
    BY <2>13 DEF vars
  <2> QED BY <2>1, <2>2, <2>3, <2>4, <2>5, <2>6, <2>7, <2>8, <2>9, <2>10, <2>11, <2>12, <2>13
          DEF Next, Step
<1> QED BY <1>1, <1>2, PTL DEF Spec

(***************************************************************************)
(* What a cursor passed.                                                   *)
(***************************************************************************)

\* What is kept for the bridge until proposal-writer had it, or would not.
Owed == {s \in stored \ late : Channel[s] \in Watched}
Had == handed \cup dropped

\* The rows in hand are messages, what is about to be acknowledged was had, and
\* so was everything owed below a row in hand that is not in hand itself: the
\* response skipped nothing, and the loop leaves nothing behind.
InOrder ==
    /\ bridge.rows \subseteq stored
    /\ bridge.at = "answered" => This \in Had
    /\ \A r \in bridge.rows, s \in Owed \ bridge.rows : s < r => s \in Had

\* A cursor was moved to a message, never past the last one.
Reached == \A c \in Channels : cursor[c] \in stored \cup {0}

KeptInv == TypeOK /\ Kept /\ InOrder /\ Reached

LEMMA KeptMeans == Kept <=> \A s \in Owed : s <= cursor[Channel[s]] => s \in Had
BY DEF Kept, Owed, Had

LEMMA KeptMeansNext == Kept' <=> \A s \in Owed' : s <= cursor'[Channel[s]] => s \in Had'
BY DEF Kept, Owed, Had

\* The row in hand is behind the bridge, and was had if it is owed.
LEMMA GoesOn ==
    ASSUME KeptInv, bridge.at # "polling", This \in Owed => This \in Had,
           bridge' = Onward(bridge), UNCHANGED <<stored, late, handed, dropped>>
    PROVE  InOrder'
<1>1. bridge.rows \subseteq stored /\ bridge' \in States /\ bridge.rows \subseteq Seqs
  <2>1. BridgeType /\ bridge \in States
    BY DEF KeptInv, TypeOK, BridgeType, States
  <2>2. This \in bridge.rows /\ bridge.rows # {}
    BY <2>1, InHandType
  <2>3. BridgeType'
    BY <2>1, <2>2, Moves
  <2> QED BY <2>1, <2>3 DEF BridgeType, States, KeptInv, InOrder
<1>2. bridge'.rows = bridge.rows \ {This} /\ bridge'.at # "answered"
  <2>1. bridge \in States
    BY DEF KeptInv, TypeOK, States
  <2> QED BY <2>1 DEF Onward, States
<1>3. ASSUME NEW r \in bridge'.rows, NEW s \in Owed' \ bridge'.rows, s < r PROVE s \in Had'
  <2>1. s \in Owed /\ r \in bridge.rows /\ Had' = Had
    BY <1>2, <1>3 DEF Owed, Had
  <2>2. CASE s = This
    BY <2>1, <2>2
  <2>3. CASE s # This
    BY <1>2, <1>3, <2>1, <2>3 DEF KeptInv, InOrder
  <2> QED BY <2>2, <2>3
<1> QED BY <1>1, <1>2, <1>3 DEF InOrder

\* The bridge has nothing in hand any more.
LEMMA LetsGo ==
    ASSUME bridge'.rows = {}, bridge'.at = "polling"
    PROVE  InOrder'
BY DEF InOrder

\* The row in hand was answered.
LEMMA Answers ==
    ASSUME KeptInv, bridge'.rows = bridge.rows, This \in Had',
           Had \subseteq Had', UNCHANGED <<stored, late>>
    PROVE  InOrder'
BY DEF KeptInv, InOrder, This, Owed

\* What was had stays had.
LEMMA KeepsKept ==
    ASSUME Kept, UNCHANGED <<stored, late, cursor>>, Had \subseteq Had'
    PROVE  Kept'
BY KeptMeans, KeptMeansNext DEF Owed

\* Whatever goes wrong - proposal-writer down or refusing everything, a request
\* that times out, an acknowledgement lost, the bridge dying - a cursor passes
\* nothing of the watched channels that was not handed over or refused.
THEOREM KeptAlways == Spec => []Kept
<1>1. Init => InOrder /\ Kept /\ Reached
  <2> SUFFICES ASSUME Init PROVE InOrder /\ Kept /\ Reached
    OBVIOUS
  <2>1. bridge.rows = {} /\ bridge.at = "polling" /\ stored = {}
    BY DEF Init, Idle
  <2>2. \A c \in Channels : cursor[c] = 0
    BY DEF Init
  <2> QED BY <2>1, <2>2 DEF InOrder, Kept, Reached
<1>2. ASSUME KeptInv, TypeOK', [Next]_vars PROVE Kept' /\ InOrder'
  <2>k. Kept /\ InOrder /\ TypeOK
    BY <1>2 DEF KeptInv
  <2>t. BridgeType /\ bridge \in States
    BY <2>k DEF TypeOK, BridgeType, States
  <2>h. bridge.at # "polling" => bridge.rows # {} /\ This \in bridge.rows /\ This \in Seqs
                                  /\ \A q \in bridge.rows : This <= q
    BY <2>t, InHandType DEF BridgeType
  <2>1. CASE Poll
    <3>1. Due \in SUBSET Seqs /\ Due # {} /\ Due \subseteq stored
      BY <2>1, <2>k DEF Poll, Due, TypeOK
    <3>2. bridge'.rows = Lowest(Due, Limit) /\ bridge'.at = "delivering"
      BY <2>1, <2>t DEF Poll, States
    <3>3. Owed' = Owed /\ Had' = Had /\ stored' = stored
      BY <2>1 DEF Poll, Owed, Had
    <3>4. ASSUME NEW r \in bridge'.rows, NEW s \in Owed \ bridge'.rows, s < r PROVE s \in Had
      <4>1. s \notin Due
        BY <3>1, <3>2, <3>4, LowestFirst
      <4>2. s \in Seqs /\ Channel[s] \in Channels /\ s \in stored
        BY <2>k DEF TypeOK, Owed
      <4>3. cursor[Channel[s]] \in 0..MaxSeq
        BY <4>2, <2>k DEF TypeOK
      <4>4. s <= cursor[Channel[s]]
        BY <4>1, <4>2, <4>3 DEF Due, Seqs
      <4> QED BY <4>4, <2>k, KeptMeans
    <3>5. InOrder'
      <4>1. bridge'.rows \subseteq stored'
        BY <3>1, <3>2, <3>3, LowestSome
      <4> QED BY <3>2, <3>3, <3>4, <4>1 DEF InOrder
    <3> QED BY <3>5, <2>1, <2>k, <3>3, KeepsKept DEF Poll
  <2>2. ASSUME NEW s \in Seqs, PassOver(s) PROVE Kept' /\ InOrder'
    <3>1. This \notin Owed /\ bridge.at # "polling"
      BY <2>2 DEF PassOver, At, Owed
    <3>2. InOrder'
      BY <1>2, <2>2, <3>1, GoesOn DEF PassOver, Passed
    <3> QED BY <2>2, <2>k, <3>2, KeepsKept DEF PassOver, Had
  <2>3. ASSUME NEW s \in Seqs, Report(s) PROVE Kept' /\ InOrder'
    <3>1. This \in Had' /\ Had \subseteq Had'
      BY <2>3 DEF Report, At, Had
    <3>2. bridge'.rows = bridge.rows
      BY <2>3, <2>t DEF Report, Answered, States
    <3> QED BY <1>2, <2>3, <2>k, <3>1, <3>2, Answers, KeepsKept DEF Report
  <2>4. ASSUME NEW s \in Seqs, Draft(s) PROVE Kept' /\ InOrder'
    <3>1. This \in Had' /\ Had \subseteq Had'
      BY <2>4 DEF Draft, At, Had
    <3>2. bridge'.rows = bridge.rows
      BY <2>4, <2>t DEF Draft, Answered, States
    <3> QED BY <1>2, <2>4, <2>k, <3>1, <3>2, Answers, KeepsKept DEF Draft
  <2>5. ASSUME NEW s \in Seqs, Refuse(s) PROVE Kept' /\ InOrder'
    <3>1. PICK why \in Why(s) :
              \/ bridge' = GiveUp(Count(why)) /\ UNCHANGED dropped
              \/ bridge' = Answered(Count(why)) /\ dropped' = dropped \cup {s}
      BY <2>5 DEF Refuse
    <3>2. Count(why) \in States /\ Count(why).rows = bridge.rows
      BY <2>t, WhyType, CountType
    <3>3. Had \subseteq Had' /\ This = s
      BY <2>5, <3>1 DEF Refuse, At, Had
    <3>4. CASE bridge' = GiveUp(Count(why))
      <4>1. bridge'.rows = {} /\ bridge'.at = "polling"
        BY <3>2, <3>4 DEF GiveUp, States
      <4> QED BY <4>1, <2>5, <2>k, <3>3, LetsGo, KeepsKept DEF Refuse
    <3>5. CASE bridge' = Answered(Count(why)) /\ dropped' = dropped \cup {s}
      <4>1. bridge'.rows = bridge.rows
        BY <3>2, <3>5 DEF Answered, States
      <4>2. This \in Had'
        BY <3>3, <3>5 DEF Had
      <4> QED BY <1>2, <4>1, <4>2, <2>5, <2>k, <3>3, Answers, KeepsKept DEF Refuse
    <3> QED BY <3>1, <3>4, <3>5
  <2>6. ASSUME NEW s \in Seqs, Silent(s) PROVE Kept' /\ InOrder'
    <3>1. bridge'.rows = {} /\ bridge'.at = "polling"
      BY <2>6, <2>t DEF Silent, GiveUp, States
    <3> QED BY <3>1, <2>6, <2>k, LetsGo, KeepsKept DEF Silent, Had
  <2>7. CASE Ack
    <3>1. This \in Had /\ bridge.at # "polling" /\ Had' = Had /\ Owed' = Owed
      BY <2>7, <2>k DEF Ack, InOrder, Had, Owed
    <3>2. InOrder'
      BY <1>2, <2>7, <3>1, GoesOn DEF Ack
    <3>3. ASSUME NEW s \in Owed, s <= cursor'[Channel[s]] PROVE s \in Had
      <4>1. s \in Seqs /\ Channel[s] \in Channels /\ This \in Seqs
        BY <2>k, <2>h, <3>1 DEF TypeOK, Owed
      <4>2. s <= cursor[Channel[s]] \/ s <= This
        BY <2>7, <3>3, <4>1, <2>k DEF Ack, Larger, TypeOK
      <4>3. CASE s <= cursor[Channel[s]]
        BY <4>3, <2>k, KeptMeans
      <4>4. CASE s <= This /\ s \in bridge.rows
        <5>1. s = This
          BY <4>1, <4>4, <2>h, <3>1 DEF Seqs
        <5> QED BY <5>1, <3>1
      <4>5. CASE s <= This /\ s \notin bridge.rows
        <5>1. s < This /\ This \in bridge.rows
          BY <4>1, <4>5, <2>h, <3>1 DEF Seqs
        <5> QED BY <5>1, <4>5, <2>k DEF InOrder
      <4> QED BY <4>2, <4>3, <4>4, <4>5
    <3> QED BY <3>1, <3>2, <3>3, KeptMeansNext
  <2>8. CASE AckLost
    <3>1. This \in Had /\ bridge.at # "polling"
      BY <2>8, <2>k DEF AckLost, InOrder
    <3>2. InOrder'
      BY <1>2, <2>8, <3>1, GoesOn DEF AckLost
    <3> QED BY <2>8, <2>k, <3>2, KeepsKept DEF AckLost, Had
  <2>9. ASSUME NEW s \in Seqs, TimeOut(s) PROVE Kept' /\ InOrder'
    <3>1. bridge'.rows = {} /\ bridge'.at = "polling"
      BY <2>9, <2>t DEF TimeOut, GiveUp, States
    <3>2. Had \subseteq Had'
      BY <2>9 DEF TimeOut, Had
    <3> QED BY <3>1, <3>2, <2>9, <2>k, LetsGo, KeepsKept DEF TimeOut
  <2>10. CASE Crash
    <3>1. bridge'.rows = {} /\ bridge'.at = "polling"
      BY <2>10 DEF Crash, Idle
    <3> QED BY <3>1, <2>10, <2>k, LetsGo, KeepsKept DEF Crash, Had
  <2>11. ASSUME NEW s \in Seqs, Publish(s) PROVE Kept' /\ InOrder'
    <3>1. stored' = stored \cup {s} /\ Had' = Had /\ UNCHANGED <<bridge, cursor>>
      BY <2>11 DEF Publish, Had
    <3>2. late \subseteq late'
      BY <2>11 DEF Publish
    <3>3. ASSUME NEW t \in Owed' PROVE t \in Owed \/ (t = s /\ \A r \in stored : ~ (s < r))
      <4>1. t \in Owed \/ t = s
        BY <3>1, <3>2, <3>3 DEF Owed
      <4>2. CASE t = s
        <5>1. s \notin late'
          BY <4>2, <3>3 DEF Owed
        <5> QED BY <5>1, <4>2, <2>11, <2>k DEF Publish, TypeOK, Seqs
      <4> QED BY <4>1, <4>2
    <3>4. Kept'
      <4> SUFFICES ASSUME NEW t \in Owed', t <= cursor[Channel[t]] PROVE t \in Had
        BY <3>1, KeptMeansNext
      <4>1. CASE t \in Owed
        BY <4>1, <2>k, KeptMeans
      <4>2. CASE t = s /\ \A r \in stored : ~ (s < r)
        <5>1. s \in Nat /\ s # 0 /\ s \notin stored /\ Channel[s] \in Channels
          BY <2>11 DEF Publish, Seqs
        <5>2. cursor[Channel[s]] \in stored \cup {0}
          BY <5>1, <1>2 DEF KeptInv, Reached
        <5>3. cursor[Channel[s]] \in Nat
          BY <5>1, <2>k DEF TypeOK
        <5> QED BY <4>2, <5>1, <5>2, <5>3
      <4> QED BY <3>3, <4>1, <4>2
    <3>5. InOrder'
      <4>1. ASSUME NEW r \in bridge.rows, NEW t \in Owed' \ bridge.rows, t < r PROVE t \in Had
        BY <3>3, <4>1, <2>k DEF InOrder
      <4> QED BY <3>1, <4>1, <2>k DEF InOrder, This
    <3> QED BY <3>4, <3>5
  <2>12. ASSUME NEW to \in {"up", "down", "amiss"}, Turn(to) PROVE Kept' /\ InOrder'
    BY <2>12, <2>k DEF Turn, Kept, InOrder, Owed, Had, This
  <2>13. CASE UNCHANGED vars
    BY <2>13, <2>k DEF vars, Kept, InOrder, Owed, Had, This
  <2> QED BY <1>2, <2>1, <2>2, <2>3, <2>4, <2>5, <2>6, <2>7, <2>8, <2>9, <2>10, <2>11, <2>12, <2>13
          DEF Next, Step
<1>3. ASSUME KeptInv, [Next]_vars PROVE Reached'
  <2>1. stored \subseteq stored'
    BY <1>3 DEF Next, Step, Poll, PassOver, Report, Draft, Refuse, Silent, Ack, AckLost,
                TimeOut, Crash, Publish, Turn, vars
  <2>2. CASE Ack
    <3>1. This \in stored
      <4>1. BridgeType /\ bridge.at # "polling"
        BY <1>3, <2>2 DEF KeptInv, TypeOK, BridgeType, States, Ack
      <4> QED BY <1>3, <4>1, InHandType DEF KeptInv, InOrder
    <3>2. \A c \in Channels : cursor'[c] \in {cursor[c], This}
      BY <1>3, <2>2 DEF Ack, Larger, KeptInv, TypeOK
    <3> QED BY <1>3, <2>1, <3>1, <3>2 DEF KeptInv, Reached
  <2>3. CASE ~ Ack
    <3>1. cursor' = cursor
      BY <1>3, <2>3 DEF Next, Step, Poll, PassOver, Report, Draft, Refuse, Silent, AckLost,
                        TimeOut, Crash, Publish, Turn, vars
    <3> QED BY <1>3, <2>1, <3>1 DEF KeptInv, Reached
  <2> QED BY <2>2, <2>3
<1>4. TypeOK /\ Kept /\ InOrder /\ Reached /\ TypeOK' /\ [Next]_vars
        => Kept' /\ InOrder' /\ Reached'
  BY <1>2, <1>3, Zenon DEF KeptInv
<1> QED BY <1>1, <1>4, BridgeTypeCorrect, PTL DEF Spec
=============================================================================
