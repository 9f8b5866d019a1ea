----------------------------- MODULE PushProofs -----------------------------
(* Theorems about Push: types, that a cursor passes nothing that was not sent,
   and that a loop sends a thing once. *)
EXTENDS Push, FiniteSetTheorems, WellFoundedInduction, TLAPS

USE PushAssumption

(***************************************************************************)
(* Sets of messages.                                                       *)
(***************************************************************************)

LEMMA SomeFinite ==
    ASSUME NEW S \in SUBSET Seqs
    PROVE  IsFiniteSet(S) /\ Cardinality(S) \in Nat
<1>1. IsFiniteSet(1..MaxSeq)
  BY FS_Interval
<1> QED BY <1>1, FS_Subset, FS_CardinalityType DEF Seqs

\* Some element of a set that is not empty has the least of a measure.
LEMMA Least ==
    ASSUME NEW S \in SUBSET Nat, S # {}
    PROVE  \E q \in S : \A r \in S : q <= r
<1> DEFINE R == {p \in Nat \X Nat : p[1] < p[2]}
<1>1. IsWellFoundedOn(R, Nat)
  BY NatLessThanWellFounded, Zenon DEF OpToRel
<1>2. PICK q \in S : \A r \in S : <<r, q>> \notin R
  <2> HIDE DEF R
  <2> QED BY <1>1, WFMin
<1>3. \A r \in S : q <= r
  <2> SUFFICES ASSUME NEW r \in S, ~ (q <= r) PROVE FALSE
    OBVIOUS
  <2>1. q \in Nat /\ r \in Nat /\ r < q
    OBVIOUS
  <2>2. <<r, q>> \in R
    BY <2>1
  <2> HIDE DEF R
  <2> QED BY <1>2, <2>2
<1> QED BY <1>3

LEMMA FirstOf ==
    ASSUME NEW S \in SUBSET Seqs, S # {}
    PROVE  First(S) \in S /\ First(S) \in Seqs /\ \A q \in S : First(S) <= q
<1>1. S \in SUBSET Nat
  BY DEF Seqs
<1>2. \E q \in S : \A r \in S : q <= r
  BY <1>1, Least
<1> QED BY <1>2, Zenon DEF First

\* The last one is as far from MaxSeq as possible.
LEMMA LastOf ==
    ASSUME NEW S \in SUBSET Seqs, S # {}
    PROVE  \E q \in S : \A r \in S : r <= q
<1> DEFINE T == {n \in Nat : \E q \in S : n = MaxSeq - q}
<1>1. T \in SUBSET Nat /\ T # {}
  <2>1. PICK q \in S : TRUE
    OBVIOUS
  <2>2. MaxSeq - q \in Nat
    BY DEF Seqs
  <2> QED BY <2>2
<1>2. PICK d \in T : \A c \in T : d <= c
  <2> HIDE DEF T
  <2> QED BY <1>1, Least
<1>3. PICK q \in S : d = MaxSeq - q
  BY <1>2
<1>4. \A r \in S : MaxSeq - q <= MaxSeq - r
  <2> SUFFICES ASSUME NEW r \in S PROVE d <= MaxSeq - r
    BY <1>3
  <2>1. MaxSeq - r \in Nat
    BY DEF Seqs
  <2>2. MaxSeq - r \in T
    BY <2>1
  <2> HIDE DEF T
  <2> QED BY <1>2, <2>2
<1>5. \A r \in S : r <= q
  BY <1>4 DEF Seqs
<1> QED BY <1>5

LEMMA NewestOf ==
    ASSUME stored \subseteq Seqs
    PROVE  /\ Newest \in 0..MaxSeq
           /\ stored = {} => Newest = 0
           /\ stored # {} => Newest \in stored
           /\ \A t \in stored : t <= Newest
<1>1. CASE stored = {}
  BY <1>1 DEF Newest
<1>2. CASE stored # {}
  <2>1. \E q \in stored : \A r \in stored : r <= q
    BY <1>2, LastOf
  <2>2. Newest \in stored /\ \A t \in stored : t <= Newest
    BY <1>2, <2>1, Zenon DEF Newest
  <2> QED BY <1>2, <2>2 DEF Seqs
<1> QED BY <1>1, <1>2

LEMMA LowestPart == \A S, n : Lowest(S, n) \subseteq S
BY DEF Lowest

\* A page skips nothing.
LEMMA LowestFirst ==
    ASSUME NEW S \in SUBSET Seqs, NEW r \in Lowest(S, Page), NEW s \in S, s < r
    PROVE  s \in Lowest(S, Page)
<1> DEFINE A == {t \in S : t < s}
           B == {t \in S : t < r}
<1>0. r \in S
  BY DEF Lowest
<1>1. A \subseteq B /\ A \in SUBSET Seqs /\ B \in SUBSET Seqs
  <2> SUFFICES ASSUME NEW t \in S, t < s PROVE t < r
    OBVIOUS
  <2> QED BY <1>0 DEF Seqs
<1>2. Cardinality(A) <= Cardinality(B)
  BY <1>1, SomeFinite, FS_Subset
<1>3. Cardinality(B) < Page
  BY DEF Lowest
<1>4. Cardinality(A) \in Nat /\ Cardinality(B) \in Nat
  BY <1>1, SomeFinite
<1> HIDE DEF B
<1>5. Cardinality(A) < Page
  BY <1>2, <1>3, <1>4
<1> QED BY <1>5 DEF Lowest

(***************************************************************************)
(* Types.                                                                  *)
(***************************************************************************)

LogType == running \subseteq Loops /\ late \subseteq stored /\ stored \subseteq Seqs

RowType ==
    /\ member \subseteq Rows /\ resting \subseteq Triggers
    /\ cursor \in [Rows -> 0..MaxSeq] /\ deaf \in [Rows -> SUBSET Authors]

HistType ==
    /\ told \in [Rows -> SUBSET Seqs] /\ passed \in [Rows -> SUBSET Seqs]
    /\ mine \subseteq Loops \X Rows \X (0..MaxSeq)

\* What a loop has in hand is stored, and what it acknowledges is in hand.
Shape(p) ==
    /\ p \in LoopType
    /\ p.page \subseteq stored
    /\ \A e \in p.list : e.head \in stored
    /\ p.at = "acking" => p.page # {}

LoopsSound == loop \in [Loops -> LoopType] /\ \A l \in Loops : Shape(loop[l])

Sound == LogType /\ RowType /\ HistType /\ LoopsSound /\ acts \in Histories

LEMMA SoundTypes == Sound => TypeOK
BY DEF Sound, LogType, RowType, HistType, LoopsSound, TypeOK

LEMMA ActType == \A what : Act(what) => acts' \in Histories
BY DEF Act

LEMMA NoEntryType == NoEntry \in Entries
<1>1. (CHOOSE r \in Rows : TRUE) \in Rows
  OBVIOUS
<1>2. 0 \in 0..MaxSeq
  OBVIOUS
<1> QED BY <1>1, <1>2 DEF NoEntry, Entries

LEMMA FreshShape ==
    ASSUME NEW at \in {"off", "waiting", "looking", "round"}
    PROVE  Fresh(at) \in LoopType /\ Fresh(at).at = at /\ Fresh(at).list = {} /\ Fresh(at).page = {}
           /\ Shape(Fresh(at))
BY NoEntryType DEF Fresh, LoopType, Shape

LEMMA EntryType ==
    ASSUME LogType, RowType, NEW r \in Rows
    PROVE  Entry(r) \in Entries /\ Entry(r).row = r /\ Entry(r).cursor = cursor[r]
           /\ Entry(r).head = Newest
BY NewestOf DEF LogType, RowType, Entry, Entries

\* Only the loop l changes.
LEMMA OneLoop ==
    ASSUME LoopsSound, NEW l \in Loops, NEW p, Shape(p),
           loop' = [loop EXCEPT ![l] = p], stored' = stored
    PROVE  LoopsSound'
<1>1. p \in LoopType
  BY DEF Shape
<1>2. loop' \in [Loops -> LoopType]
  BY <1>1 DEF LoopsSound
<1>3. \A k \in Loops : loop'[k] = (IF k = l THEN p ELSE loop[k])
  BY DEF LoopsSound
<1> QED BY <1>2, <1>3 DEF LoopsSound, Shape

\* The message in hand.
LEMMA InHandOf ==
    ASSUME Sound, NEW l \in Loops, loop[l].page # {}
    PROVE  /\ Message(l) \in loop[l].page /\ Message(l) \in Seqs /\ Message(l) \in stored
           /\ \A q \in loop[l].page : Message(l) <= q
           /\ Row(l) \in Rows /\ loop[l] \in LoopType /\ loop[l].now \in Entries
           /\ Current(l) = <<l, Row(l), Message(l)>>
           /\ Current(l) \in Loops \X Rows \X (0..MaxSeq)
<1>1. loop[l] \in LoopType /\ loop[l].page \subseteq stored
  BY DEF Sound, LoopsSound, Shape
<1>2. loop[l].page \in SUBSET Seqs
  BY <1>1 DEF Sound, LogType
<1>3. Message(l) \in loop[l].page /\ Message(l) \in Seqs /\ \A q \in loop[l].page : Message(l) <= q
  BY <1>2, FirstOf DEF Message
<1>4. loop[l].now \in Entries /\ Row(l) \in Rows
  BY <1>1 DEF LoopType, Entries, Row
<1>5. Message(l) \in 0..MaxSeq
  BY <1>3 DEF Seqs
<1> QED BY <1>1, <1>3, <1>4, <1>5 DEF Current

(***************************************************************************)
(* Each step keeps the types.                                              *)
(***************************************************************************)

\* Parts of a loop's turn.
LEMMA LeftShape ==
    ASSUME Sound, NEW l \in Loops, NEW S \in SUBSET loop[l].page, loop[l].at = "round"
    PROVE  /\ Left(l, S) \in LoopType /\ Left(l, S).page = S /\ Left(l, S).list = loop[l].list
           /\ Left(l, S).at = "round"
           /\ S # {} => Left(l, S).now = loop[l].now
           /\ Shape(Left(l, S))
<1>1. Shape(loop[l]) /\ loop[l] \in LoopType
  BY DEF Sound, LoopsSound, Shape
<1>2. S \in SUBSET (0..MaxSeq)
  BY <1>1 DEF LoopType
<1>3. (IF S = {} THEN NoEntry ELSE loop[l].now) \in Entries
  BY <1>1, NoEntryType DEF LoopType
<1>4. Left(l, S) = [loop[l] EXCEPT !.page = S, !.now = IF S = {} THEN NoEntry ELSE loop[l].now]
  BY <1>1 DEF Left, LoopType
<1> QED BY <1>1, <1>2, <1>3, <1>4 DEF LoopType, Shape

\* Acknowledging follows on a message in hand.
LEMMA AckingShape ==
    ASSUME Sound, NEW l \in Loops, loop[l].page # {}
    PROVE  Shape([loop[l] EXCEPT !.at = "acking"])
BY DEF Sound, LoopsSound, Shape, LoopType

LEMMA StepSound ==
    ASSUME Sound, NEW l \in Loops, Step(l) \/ Fail(l) \/ Refuse(l) \/ Abort(l)
    PROVE  Sound'
<1>t. /\ LogType /\ RowType /\ HistType /\ LoopsSound /\ acts \in Histories
      /\ Shape(loop[l]) /\ loop[l] \in LoopType
  BY DEF Sound, LoopsSound, Shape
<1>1. CASE Wake(l)
  <2>1. Shape([loop[l] EXCEPT !.at = "looking"])
    BY <1>t DEF Shape, LoopType
  <2>2. LoopsSound'
    BY <1>1, <1>t, <2>1, OneLoop DEF Wake, log
  <2> QED BY <1>1, <1>t, <2>2 DEF Wake, log, rows, hist, Sound, LogType, RowType, HistType
<1>2. CASE Look(l)
  <2> DEFINE due == {r \in l[2] : HasWork(r)}
  <2>1. PICK chosen \in SUBSET due :
          loop' = [loop EXCEPT ![l] = [Fresh("round") EXCEPT !.list = {Entry(r) : r \in chosen}]]
    BY <1>2 DEF Look
  <2>2. \A r \in chosen : r \in Rows /\ stored # {}
    BY <1>t DEF HasWork, RowType, Above
  <2>3. \A r \in chosen : Entry(r) \in Entries /\ Entry(r).head \in stored
    BY <1>t, <2>2, EntryType, NewestOf DEF LogType
  <2>4. Shape([Fresh("round") EXCEPT !.list = {Entry(r) : r \in chosen}])
    BY <2>3, FreshShape DEF Shape, LoopType
  <2>5. LoopsSound'
    BY <1>2, <1>t, <2>1, <2>4, OneLoop DEF Look, log
  <2> QED BY <1>2, <1>t, <2>5 DEF Look, log, rows, hist, Sound, LogType, RowType, HistType
<1>3. CASE Turn(l)
  <2>1. PICK e \in loop[l].list :
          loop' = [loop EXCEPT ![l].list = @ \ {e}, ![l].now = e,
                     ![l].page = IF e.row \in Chats THEN Lowest(Above(e.cursor), Page)
                                 ELSE {e.head}]
    BY <1>3 DEF Turn
  <2> DEFINE page == IF e.row \in Chats THEN Lowest(Above(e.cursor), Page) ELSE {e.head}
             p == [loop[l] EXCEPT !.list = loop[l].list \ {e}, !.now = e, !.page = page]
  <2>2. e \in Entries /\ e.head \in stored
    BY <1>t DEF Shape, LoopType
  <2>3. page \in SUBSET stored
    BY <2>2, LowestPart DEF Above
  <2>4. page \in SUBSET (0..MaxSeq)
    <3> HIDE DEF page
    <3> QED BY <2>3, <1>t DEF LogType, Seqs
  <2>5. loop' = [loop EXCEPT ![l] = p]
    BY <2>1, <1>t DEF LoopsSound
  <2> HIDE DEF page
  <2>6. Shape(p)
    BY <1>3, <1>t, <2>2, <2>3, <2>4 DEF Shape, LoopType, Turn
  <2> HIDE DEF p
  <2>7. LoopsSound'
    BY <1>3, <1>t, <2>5, <2>6, OneLoop DEF Turn, log
  <2> QED BY <1>3, <1>t, <2>7 DEF Turn, log, rows, hist, Sound, LogType, RowType, HistType
<1>4. CASE End(l)
  <2>1. Shape(Fresh(IF loop[l].sent THEN "looking" ELSE "waiting"))
    BY FreshShape
  <2>2. LoopsSound'
    BY <1>4, <1>t, <2>1, OneLoop DEF End, log
  <2> QED BY <1>4, <1>t, <2>2 DEF End, log, rows, hist, Sound, LogType, RowType, HistType
<1>5. CASE PassOver(l)
  <2>1. loop[l].page # {}
    BY <1>5 DEF PassOver, AtMessage
  <2>2. Message(l) \in Seqs /\ Row(l) \in Rows
    BY <2>1, InHandOf
  <2>3. loop' = [loop EXCEPT ![l] = [loop[l] EXCEPT !.at = "acking"]]
    BY <1>5, <1>t DEF PassOver, LoopsSound
  <2>4. LoopsSound'
    BY <1>5, <1>t, <2>1, <2>3, AckingShape, OneLoop DEF PassOver, log
  <2>5. HistType'
    BY <1>5, <1>t, <2>2 DEF PassOver, HistType
  <2> QED BY <1>5, <1>t, <2>4, <2>5 DEF PassOver, log, rows, Sound, LogType, RowType
<1>6. CASE Send(l)
  <2>1. loop[l].page # {}
    BY <1>6 DEF Send, AtMessage
  <2>2. Message(l) \in Seqs /\ Row(l) \in Rows /\ Current(l) \in Loops \X Rows \X (0..MaxSeq)
    BY <2>1, InHandOf
  <2>3. loop' = [loop EXCEPT ![l] = [loop[l] EXCEPT !.at = "acking"]]
    BY <1>6, <1>t DEF Send, LoopsSound
  <2>4. LoopsSound'
    BY <1>6, <1>t, <2>1, <2>3, AckingShape, OneLoop DEF Send, log
  <2>5. HistType'
    <3> DEFINE now == IF Row(l) \in Chats THEN {Message(l)} ELSE stored
    <3>1. now \in SUBSET Seqs
      BY <2>2, <1>t DEF LogType
    <3>2. told' = [told EXCEPT ![Row(l)] = @ \cup now] /\ mine' = mine \cup {Current(l)} /\ passed' = passed
      BY <1>6 DEF Send
    <3> HIDE DEF now
    <3>3. told' \in [Rows -> SUBSET Seqs]
      BY <3>1, <3>2, <1>t DEF HistType
    <3>4. mine' \subseteq Loops \X Rows \X (0..MaxSeq)
      BY <3>2, <2>2, <1>t DEF HistType
    <3> QED BY <3>2, <3>3, <3>4, <1>t DEF HistType
  <2> QED BY <1>6, <1>t, <2>4, <2>5 DEF Send, log, rows, Sound, LogType, RowType
<1>7. CASE Ack(l)
  <2>1. loop[l].page # {} /\ loop[l].at = "acking"
    BY <1>7, <1>t DEF Ack, Shape
  <2>2. Message(l) \in 0..MaxSeq /\ Row(l) \in Rows
    BY <2>1, InHandOf DEF Seqs
  <2> DEFINE S == loop[l].page \ {Message(l)}
             p == [Left(l, S) EXCEPT !.at = "round", !.sent = TRUE]
  <2>3. Shape(p)
    <3>1. Left(l, S) = [loop[l] EXCEPT !.page = S, !.now = IF S = {} THEN NoEntry ELSE loop[l].now]
      BY <1>t DEF Left, LoopType
    <3>2. (IF S = {} THEN NoEntry ELSE loop[l].now) \in Entries
      BY <1>t, NoEntryType DEF LoopType
    <3>3. S \in SUBSET (0..MaxSeq) /\ S \subseteq stored
      BY <1>t DEF LoopType, Shape
    <3> HIDE DEF S
    <3> QED BY <1>t, <3>1, <3>2, <3>3 DEF Shape, LoopType
  <2>4. loop' = [loop EXCEPT ![l] = p]
    BY <1>7 DEF Ack
  <2> HIDE DEF p
  <2>5. LoopsSound'
    BY <1>7, <1>t, <2>3, <2>4, OneLoop DEF Ack, log
  <2>6. RowType'
    <3>1. \A s \in 0..MaxSeq : Moved(Row(l), s) \in 0..MaxSeq
      BY <1>t, <2>2 DEF RowType, Moved, Larger
    <3> QED BY <1>7, <1>t, <2>2, <3>1 DEF Ack, RowType
  <2> QED BY <1>7, <1>t, <2>5, <2>6 DEF Ack, log, hist, Sound, LogType, HistType
<1>8. CASE Fail(l)
  <2>1. loop[l].at = "round" /\ {} \in SUBSET loop[l].page
    BY <1>8 DEF Fail, AtMessage
  <2>2. Shape(Left(l, {}))
    BY <2>1, LeftShape
  <2>3. LoopsSound'
    BY <1>8, <1>t, <2>2, OneLoop DEF Fail, GiveUp, log
  <2>4. RowType'
    BY <1>8, <1>t DEF Fail, GiveUp, RowType
  <2>5. acts' \in Histories
    BY <1>8, <1>t, ActType DEF Fail
  <2> QED BY <1>8, <1>t, <2>3, <2>4, <2>5 DEF Fail, log, hist, Sound, LogType, HistType
<1>9. CASE Refuse(l)
  <2>1. loop[l].page # {}
    BY <1>9 DEF Refuse, AtMessage
  <2>2. Message(l) \in Seqs /\ Row(l) \in Rows
    BY <2>1, InHandOf
  <2>3. loop' = [loop EXCEPT ![l] = [loop[l] EXCEPT !.at = "acking"]]
    BY <1>9, <1>t DEF Refuse, LoopsSound
  <2>4. LoopsSound'
    BY <1>9, <1>t, <2>1, <2>3, AckingShape, OneLoop DEF Refuse, log
  <2>5. HistType'
    BY <1>9, <1>t, <2>2 DEF Refuse, HistType
  <2> QED BY <1>9, <1>t, <2>4, <2>5, ActType DEF Refuse, log, rows, Sound, LogType, RowType
<1>10. CASE Abort(l)
  <2>1. Shape(Fresh("waiting"))
    BY FreshShape
  <2>2. LoopsSound'
    BY <1>10, <1>t, <2>1, OneLoop DEF Abort, log
  <2>3. HistType'
    BY <1>10, <1>t DEF Abort, HistType
  <2> QED BY <1>10, <1>t, <2>2, <2>3, ActType DEF Abort, log, rows, Sound, LogType, RowType
<1> QED BY <1>1, <1>2, <1>3, <1>4, <1>5, <1>6, <1>7, <1>8, <1>9, <1>10 DEF Step

\* A place that goes back by one message goes back to below a stored one.
LEMMA BackOne ==
    ASSUME Sound, NEW r \in Rows, Resend(r)
    PROVE  \E last \in stored :
              /\ cursor' = [cursor EXCEPT ![r] = last - 1] /\ last - 1 \in 0..MaxSeq
              /\ last \in Seqs /\ last <= cursor[r]
              /\ PutBack(r, {last}) /\ mine' = mine \ Forgiven(r, last - 1)
<1> DEFINE had == {s \in stored : s <= cursor[r]}
           last == CHOOSE s \in had : \A t \in had : t <= s
<1>1. /\ had # {} /\ cursor' = [cursor EXCEPT ![r] = last - 1]
      /\ PutBack(r, {last}) /\ mine' = mine \ Forgiven(r, last - 1)
  BY DEF Resend
<1>2. had \in SUBSET Seqs
  BY DEF Sound, LogType
<1>3. \E q \in had : \A t \in had : t <= q
  <2> HIDE DEF had
  <2> QED BY <1>1, <1>2, LastOf
<1>4. last \in had
  <2> HIDE DEF had
  <2> QED BY <1>3, Zenon
<1>5. last \in stored /\ last \in Seqs /\ last <= cursor[r]
  BY <1>4, <1>2
<1>6. last - 1 \in 0..MaxSeq
  <2> HIDE DEF last
  <2> QED BY <1>5 DEF Seqs
<1> HIDE DEF last
<1> QED BY <1>1, <1>5, <1>6

\* What moves rows moves no loop.
LEMMA RowSound ==
    ASSUME Sound, NEW r \in Rows,
           \/ Rested(r) \/ Leave(r) \/ Join(r) \/ JoinFromStart(r) \/ Skip(r) \/ Resend(r)
           \/ \E a \in Authors : Silence(r, a)
    PROVE  Sound'
<1>t. LogType /\ RowType /\ HistType /\ LoopsSound /\ acts \in Histories
  BY DEF Sound
<1>n. Newest \in 0..MaxSeq /\ stored \subseteq Seqs
  BY <1>t, NewestOf DEF LogType
<1>1. LogType' /\ LoopsSound'
  BY <1>t DEF Rested, Leave, Join, JoinFromStart, NewRow, Skip, Resend, Silence, log,
              LogType, LoopsSound, Shape
<1>2. acts' \in Histories
  BY <1>t, ActType DEF Rested, Leave, Join, JoinFromStart, Skip, Resend, Silence
<1>3. HistType'
  <2>1. \A S \in SUBSET Seqs : PutBack(r, S) =>
           told' \in [Rows -> SUBSET Seqs] /\ passed' \in [Rows -> SUBSET Seqs]
    BY <1>t DEF PutBack, HistType
  <2>2. mine' \subseteq mine
    BY DEF Rested, Leave, Join, JoinFromStart, NewRow, Skip, Resend, Silence, hist
  <2>3. told' \in [Rows -> SUBSET Seqs] /\ passed' \in [Rows -> SUBSET Seqs]
    <3>1. CASE Rested(r) \/ Leave(r) \/ \E a \in Authors : Silence(r, a)
      BY <3>1, <1>t DEF Rested, Leave, Silence, hist, HistType
    <3>2. CASE Join(r) \/ Skip(r)
      BY <3>2, <1>t, <1>n DEF Join, Skip, HistType
    <3>3. CASE JoinFromStart(r)
      BY <3>3, <1>n, <2>1 DEF JoinFromStart
    <3>4. CASE Resend(r)
      BY <3>4, <1>t, <1>n, <2>1, BackOne DEF Resend
    <3> QED BY <3>1, <3>2, <3>3, <3>4
  <2> QED BY <2>2, <2>3, <1>t DEF HistType
<1>4. RowType'
  <2>1. CASE Rested(r)
    BY <2>1, <1>t DEF Rested, RowType
  <2>2. CASE Leave(r)
    BY <2>2, <1>t DEF Leave, RowType
  <2>3. CASE Join(r) \/ JoinFromStart(r)
    <3>0. 0 \in 0..MaxSeq
      OBVIOUS
    <3>1. PICK from \in 0..MaxSeq : NewRow(r, from)
      BY <2>3, <1>n, <3>0 DEF Join, JoinFromStart
    <3>2. /\ member' = member \cup {r} /\ resting' = resting
          /\ cursor' = [cursor EXCEPT ![r] = from] /\ deaf' = [deaf EXCEPT ![r] = {}]
      BY <3>1 DEF NewRow
    <3> QED BY <3>2, <1>t DEF RowType
  <2>4. CASE Skip(r)
    BY <2>4, <1>t, <1>n DEF Skip, RowType, Larger
  <2>5. CASE Resend(r)
    <3>1. PICK last \in stored :
            cursor' = [cursor EXCEPT ![r] = last - 1] /\ last - 1 \in 0..MaxSeq
      BY <2>5, BackOne
    <3>2. UNCHANGED <<member, deaf, resting>>
      BY <2>5 DEF Resend
    <3> QED BY <1>t, <3>1, <3>2 DEF RowType
  <2>6. CASE \E a \in Authors : Silence(r, a)
    BY <2>6, <1>t DEF Silence, RowType
  <2> QED BY <2>1, <2>2, <2>3, <2>4, <2>5, <2>6
<1> QED BY <1>1, <1>2, <1>3, <1>4 DEF Sound

LEMMA CrashSound ==
    ASSUME Sound, NEW v \in Servers, Crash(v)
    PROVE  Sound'
<1>t. LogType /\ RowType /\ HistType /\ LoopsSound /\ acts \in Histories
  BY DEF Sound
<1>1. /\ loop' = [l \in Loops |-> IF l[1] = v /\ l \in running THEN Fresh("looking") ELSE loop[l]]
      /\ mine' \subseteq mine
      /\ UNCHANGED <<running, stored, late, member, cursor, deaf, resting, told, passed>>
  BY DEF Crash, log, rows
<1>2. Shape(Fresh("looking")) /\ Fresh("looking") \in LoopType
  BY FreshShape
<1>3. LoopsSound'
  BY <1>1, <1>2, <1>t DEF LoopsSound, Shape
<1>4. acts' \in Histories
  BY ActType DEF Crash
<1> QED BY <1>1, <1>3, <1>4, <1>t DEF Sound, LogType, RowType, HistType

LEMMA PublishSound ==
    ASSUME Sound, NEW s \in Seqs, Publish(s)
    PROVE  Sound'
<1>t. LogType /\ RowType /\ HistType /\ LoopsSound /\ acts \in Histories
  BY DEF Sound
<1>1. LogType' /\ stored \subseteq stored'
  BY <1>t DEF Publish, LogType
<1>2. LoopsSound'
  BY <1>t, <1>1 DEF Publish, LoopsSound, Shape
<1> QED BY <1>t, <1>1, <1>2 DEF Publish, rows, hist, Sound, RowType, HistType

LEMMA StutterSound == Sound /\ UNCHANGED vars => Sound'
BY DEF Sound, vars, log, rows, hist, LogType, RowType, HistType, LoopsSound, Shape

LEMMA InitSound == Init => Sound
<1> SUFFICES ASSUME Init PROVE Sound
  OBVIOUS
<1>1. running \in {Servers \X {Chats}, Servers \X {Triggers}}
  BY DEF Init
<1>2. running \subseteq Loops
  BY <1>1 DEF Loops
<1>3. \A l \in running : l[2] \subseteq Rows
  BY <1>1 DEF Rows
<1>4. UNION {l[2] : l \in running} \subseteq Rows
  BY <1>3
<1>5. LoopsSound
  <2>1. \A l \in Loops : (IF l \in running THEN "looking" ELSE "off")
                             \in {"off", "waiting", "looking", "round"}
    OBVIOUS
  <2> QED BY <2>1, FreshShape DEF Init, LoopsSound
<1>6. LogType /\ RowType /\ HistType
  BY <1>2, <1>4 DEF Init, LogType, RowType, HistType
<1> QED BY <1>5, <1>6 DEF Init, Sound

LEMMA SoundStep == Sound /\ [Next]_vars => Sound'
BY StepSound, RowSound, CrashSound, PublishSound, StutterSound DEF Next

LEMMA SoundAlways == Spec => []Sound
BY InitSound, SoundStep, PTL DEF Spec

\* Type correctness of the deliveries: a loop always has a message in hand when
\* it sends or acknowledges, and no cursor leaves the range of the messages.
THEOREM PushTypeCorrect == Spec => []TypeOK
BY SoundAlways, SoundTypes, PTL

(***************************************************************************)
(* A cursor passes nothing that was not sent.                              *)
(***************************************************************************)

\* What is kept for a row in time, and what it had, or was not to have.
Due == stored \ late
Had(r) == told[r] \cup passed[r]

Upto(r, c) == \A s \in Due : s <= c => s \in Had(r)

\* What appears below c is late.
Reached(c) == \A s \in Seqs \ stored : s <= c => Above(s) # {}

\* What a round has listed of a row.
ListInv(l) ==
    \A e \in loop[l].list : Upto(e.row, e.cursor) /\ Reached(e.cursor)

\* A chat's page skips nothing; what is about to be acknowledged was had, with
\* everything below it.
PageInv(l) ==
    /\ Row(l) \in Chats =>
         \A m \in loop[l].page, s \in Due \ loop[l].page : s < m => s \in Had(Row(l))
    /\ Row(l) \notin Chats => \A m, n \in loop[l].page : m = n
    /\ loop[l].at = "acking" => Upto(Row(l), Message(l))

CursorInv == \A r \in Rows : Upto(r, cursor[r]) /\ Reached(cursor[r])
LoopsInv == \A l \in Loops : ListInv(l) /\ (loop[l].page # {} => PageInv(l))

SentInv == CursorInv /\ LoopsInv

LEMMA SentMeans == Sound /\ SentInv => NothingPassedOver
BY DEF SentInv, CursorInv, Upto, Due, Had, NothingPassedOver

LEMMA ReachedStored ==
    ASSUME Sound, NEW c \in 0..MaxSeq, NEW t \in stored, c <= t
    PROVE  Reached(c)
<1> SUFFICES ASSUME NEW s \in Seqs \ stored, s <= c PROVE t \in Above(s)
  BY DEF Reached
<1>1. t \in Seqs
  BY DEF Sound, LogType
<1>2. s <= t /\ s # t
  BY <1>1 DEF Seqs
<1> QED BY <1>1, <1>2 DEF Seqs, Above

LEMMA ReachedZero == Reached(0)
BY DEF Reached, Seqs

\* More was had, nothing was published.
LEMMA UptoGrows ==
    ASSUME UNCHANGED log, NEW r, Had(r) \subseteq Had(r)', NEW c, Upto(r, c)
    PROVE  \A s \in Due' : s <= c => s \in Had(r)'
BY DEF Upto, Due, log

LEMMA CursorKept ==
    ASSUME CursorInv, UNCHANGED <<log, cursor>>, \A r \in Rows : Had(r) \subseteq Had(r)'
    PROVE  CursorInv'
<1> SUFFICES ASSUME NEW r \in Rows PROVE Upto(r, cursor[r])' /\ Reached(cursor[r])'
  BY DEF CursorInv
<1>1. cursor'[r] = cursor[r] /\ Upto(r, cursor[r]) /\ Reached(cursor[r])
  BY DEF CursorInv
<1>2. Upto(r, cursor[r])'
  BY <1>1, UptoGrows DEF Upto
<1>3. Reached(cursor[r])'
  BY <1>1 DEF Reached, Above, log
<1> QED BY <1>2, <1>3

\* What other loops know of their rows stays true.
LEMMA OthersSame ==
    ASSUME Sound, LoopsInv, UNCHANGED log, NEW l \in Loops,
           \A k \in Loops \ {l} : loop'[k] = loop[k],
           \A r \in Rows : Had(r) \subseteq Had(r)',
           ListInv(l)', loop'[l].page # {} => PageInv(l)'
    PROVE  LoopsInv'
<1> SUFFICES ASSUME NEW k \in Loops, k # l
             PROVE  ListInv(k)' /\ (loop'[k].page # {} => PageInv(k)')
  BY DEF LoopsInv
<1>1. loop'[k] = loop[k] /\ ListInv(k) /\ (loop[k].page # {} => PageInv(k)) /\ loop[k] \in LoopType
  BY DEF LoopsInv, Sound, LoopsSound
<1>2. ASSUME NEW e \in loop'[k].list PROVE Upto(e.row, e.cursor)' /\ Reached(e.cursor)'
  <2>1. e.row \in Rows /\ Upto(e.row, e.cursor) /\ Reached(e.cursor)
    BY <1>1, <1>2 DEF ListInv, LoopType, Entries
  <2>2. Upto(e.row, e.cursor)'
    BY <2>1, UptoGrows DEF Upto
  <2> QED BY <2>1, <2>2 DEF Reached, Above, log
<1>3. ASSUME loop'[k].page # {} PROVE PageInv(k)'
  <2>1. PageInv(k) /\ Row(k)' = Row(k) /\ Message(k)' = Message(k) /\ Row(k) \in Rows
    BY <1>1, <1>3, InHandOf DEF Row, Message
  <2>2. Due' = Due /\ Had(Row(k)) \subseteq Had(Row(k))'
    BY <2>1 DEF Due, log, Had
  <2>3. Upto(Row(k), Message(k)) => Upto(Row(k), Message(k))'
    BY <2>1, <2>2 DEF Upto
  <2> QED BY <1>1, <2>1, <2>2, <2>3 DEF PageInv
<1> QED BY <1>2, <1>3 DEF ListInv

\* A loop that has nothing in hand or on its list.
LEMMA NothingListed ==
    ASSUME NEW l \in Loops, NEW at \in {"off", "waiting", "looking", "round"},
           loop'[l] = Fresh(at)
    PROVE  ListInv(l)' /\ (loop'[l].page # {} => PageInv(l)')
BY FreshShape DEF ListInv

\* The list is what it was, or shorter.
LEMMA ListKept ==
    ASSUME Sound, LoopsInv, UNCHANGED log, NEW l \in Loops, loop'[l].list \subseteq loop[l].list,
           \A r \in Rows : Had(r) \subseteq Had(r)'
    PROVE  ListInv(l)'
<1> SUFFICES ASSUME NEW e \in loop'[l].list PROVE Upto(e.row, e.cursor)' /\ Reached(e.cursor)'
  BY DEF ListInv
<1>1. e.row \in Rows /\ Upto(e.row, e.cursor) /\ Reached(e.cursor)
  BY DEF LoopsInv, ListInv, Sound, LoopsSound, LoopType, Entries
<1>2. Upto(e.row, e.cursor)'
  BY <1>1, UptoGrows DEF Upto
<1> QED BY <1>1, <1>2 DEF Reached, Above, log

\* The message in hand was had: so was everything below it, of a chat by its
\* page, of a trigger because what it woke finds all that is stored.
LEMMA HadShown ==
    ASSUME Sound, SentInv, UNCHANGED <<log, cursor>>, NEW l \in Loops, loop[l].page # {},
           loop' = [loop EXCEPT ![l] = [loop[l] EXCEPT !.at = "acking"]],
           \A r \in Rows : Had(r) \subseteq Had(r)',
           Row(l) \in Chats => Message(l) \in Had(Row(l))',
           Row(l) \notin Chats => stored \subseteq Had(Row(l))'
    PROVE  SentInv'
<1>1. /\ loop'[l] = [loop[l] EXCEPT !.at = "acking"] /\ \A k \in Loops \ {l} : loop'[k] = loop[k]
      /\ PageInv(l) /\ loop[l] \in LoopType
  BY DEF Sound, LoopsSound, SentInv, LoopsInv
<1>2. /\ loop'[l].list = loop[l].list /\ loop'[l].page = loop[l].page /\ loop'[l].now = loop[l].now
      /\ Row(l)' = Row(l) /\ Message(l)' = Message(l) /\ Row(l) \in Rows
  BY <1>1, InHandOf DEF LoopType, Row, Message
<1>3. ListInv(l)'
  BY <1>2, ListKept DEF SentInv
<1>4. Due' = Due /\ Had(Row(l)) \subseteq Had(Row(l))'
  BY <1>2 DEF Due, log
<1>5. Upto(Row(l), Message(l))'
  <2> SUFFICES ASSUME NEW s \in Due, s <= Message(l) PROVE s \in Had(Row(l))'
    BY <1>2, <1>4 DEF Upto, Had
  <2>1. CASE Row(l) \notin Chats
    BY <2>1 DEF Due
  <2>2. CASE Row(l) \in Chats /\ s # Message(l)
    <3>1. Message(l) \in Seqs /\ s \in Seqs /\ \A q \in loop[l].page : Message(l) <= q
      BY InHandOf DEF Due, Sound, LogType
    <3>2. s < Message(l) /\ s \notin loop[l].page
      BY <2>2, <3>1 DEF Seqs
    <3> QED BY <1>1, <1>4, <2>2, <3>2, InHandOf DEF PageInv
  <2>3. CASE Row(l) \in Chats /\ s = Message(l)
    BY <2>3
  <2> QED BY <2>1, <2>2, <2>3
<1>6. PageInv(l)'
  BY <1>1, <1>2, <1>4, <1>5 DEF PageInv, Had
<1>7. LoopsInv'
  BY <1>1, <1>3, <1>6, OthersSame DEF SentInv
<1> QED BY <1>7, CursorKept DEF SentInv

LEMMA SentStep ==
    ASSUME Sound, SentInv, NEW l \in Loops, Step(l) \/ Fail(l) \/ Refuse(l) \/ Abort(l)
    PROVE  SentInv'
<1>t. /\ loop[l] \in LoopType /\ Shape(loop[l]) /\ CursorInv /\ LoopsInv /\ ListInv(l)
      /\ loop \in [Loops -> LoopType] /\ told \in [Rows -> SUBSET Seqs]
      /\ passed \in [Rows -> SUBSET Seqs] /\ cursor \in [Rows -> 0..MaxSeq]
  BY DEF Sound, LoopsSound, Shape, SentInv, LoopsInv, HistType, RowType
<1>s. ASSUME UNCHANGED <<log, cursor, told, passed>>, NEW p,
             loop' = [loop EXCEPT ![l] = p],
             ListInv(l)', loop'[l].page # {} => PageInv(l)'
      PROVE  SentInv'
  <2>1. \A k \in Loops \ {l} : loop'[k] = loop[k]
    BY <1>s, <1>t
  <2>2. \A r \in Rows : Had(r)' = Had(r)
    BY <1>s DEF Had
  <2>3. LoopsInv'
    BY <1>s, <1>t, <2>1, <2>2, OthersSame
  <2> QED BY <1>s, <1>t, <2>2, <2>3, CursorKept DEF SentInv
<1>f. ASSUME UNCHANGED <<log, cursor, told, passed>>,
             NEW at \in {"off", "waiting", "looking", "round"},
             loop' = [loop EXCEPT ![l] = Fresh(at)]
      PROVE  SentInv'
  <2>1. loop'[l] = Fresh(at)
    BY <1>f, <1>t
  <2> QED BY <1>f, <1>s, <2>1, NothingListed
<1>1. CASE Wake(l)
  <2>1. /\ loop' = [loop EXCEPT ![l] = [loop[l] EXCEPT !.at = "looking"]]
        /\ UNCHANGED <<log, cursor, told, passed>> /\ loop[l].at = "waiting"
    BY <1>1, <1>t DEF Wake, rows, hist
  <2>2. loop'[l] = [loop[l] EXCEPT !.at = "looking"]
    BY <2>1, <1>t
  <2>3. loop'[l].list = loop[l].list /\ loop'[l].page = loop[l].page /\ loop'[l].now = loop[l].now
        /\ loop'[l].at = "looking"
    BY <2>2, <1>t DEF LoopType
  <2>4. ListInv(l)'
    BY <2>1, <2>3, <1>t, ListKept DEF Had
  <2>5. loop'[l].page # {} => PageInv(l)'
    BY <2>1, <2>3, <1>t DEF LoopsInv, PageInv, Row, Message, Due, Had, log
  <2> QED BY <1>s, <2>1, <2>4, <2>5
<1>2. CASE Look(l)
  <2> DEFINE due == {r \in l[2] : HasWork(r)}
  <2>1. PICK chosen \in SUBSET due :
          loop' = [loop EXCEPT ![l] = [Fresh("round") EXCEPT !.list = {Entry(r) : r \in chosen}]]
    BY <1>2 DEF Look
  <2>2. UNCHANGED <<log, cursor, told, passed>>
    BY <1>2 DEF Look, rows, hist
  <2>3. loop'[l].list = {Entry(r) : r \in chosen} /\ loop'[l].page = {}
    BY <2>1, <1>t, FreshShape DEF LoopType
  <2>4. ASSUME NEW e \in loop'[l].list PROVE Upto(e.row, e.cursor)' /\ Reached(e.cursor)'
    <3>1. PICK r \in chosen : e = Entry(r)
      BY <2>3, <2>4
    <3>2. r \in Rows /\ e.row = r /\ e.cursor = cursor[r]
      BY <3>1, EntryType DEF Sound, HasWork, RowType
    <3>3. Upto(e.row, e.cursor) /\ Reached(e.cursor)
      BY <3>2, <1>t DEF CursorInv
    <3> QED BY <3>3, <2>2 DEF Upto, Reached, Due, Had, Above, log
  <2>5. ListInv(l)'
    BY <2>4 DEF ListInv
  <2> QED BY <1>s, <2>1, <2>2, <2>3, <2>5
<1>3. CASE Turn(l)
  <2>1. PICK e \in loop[l].list :
          loop' = [loop EXCEPT ![l].list = @ \ {e}, ![l].now = e,
                     ![l].page = IF e.row \in Chats THEN Lowest(Above(e.cursor), Page)
                                 ELSE {e.head}]
    BY <1>3 DEF Turn
  <2> DEFINE page == IF e.row \in Chats THEN Lowest(Above(e.cursor), Page) ELSE {e.head}
             p == [loop[l] EXCEPT !.list = loop[l].list \ {e}, !.now = e, !.page = page]
  <2>2. /\ e \in Entries /\ Upto(e.row, e.cursor) /\ Reached(e.cursor)
        /\ loop[l].at = "round" /\ UNCHANGED <<log, cursor, told, passed>>
    BY <1>3, <2>1, <1>t DEF Shape, LoopType, ListInv, Turn, rows, hist
  <2>3. loop' = [loop EXCEPT ![l] = p]
    BY <2>1, <1>t
  <2>4. loop'[l] = p
    BY <2>3, <1>t
  <2>5. loop'[l].list \subseteq loop[l].list /\ loop'[l].page = page /\ loop'[l].now = e
        /\ loop'[l].at = "round"
    <3> HIDE DEF page
    <3> QED BY <2>4, <2>2, <1>t DEF LoopType
  <2>6. Row(l)' = e.row
    BY <2>5 DEF Row
  <2>7. ListInv(l)'
    BY <2>2, <2>5, <1>t, ListKept DEF Had
  <2>8. ASSUME e.row \in Chats, NEW m \in page, NEW s \in Due \ page, s < m PROVE s \in Had(e.row)
    <3>1. page = Lowest(Above(e.cursor), Page)
      BY <2>8
    <3>2. Above(e.cursor) \in SUBSET Seqs
      BY DEF Above, Sound, LogType
    <3>3. s \notin Above(e.cursor)
      <4> HIDE DEF page
      <4> QED BY <2>8, <3>1, <3>2, LowestFirst
    <3>4. s \in stored /\ s \in Seqs /\ e.cursor \in 0..MaxSeq
      BY <2>2 DEF Due, Sound, LogType, Entries
    <3>5. s <= e.cursor
      BY <3>3, <3>4 DEF Above, Seqs
    <3> QED BY <2>2, <2>8, <3>5 DEF Upto
  <2>9. PageInv(l)'
    <3>1. Due' = Due /\ Had(Row(l))' = Had(e.row)
      BY <2>2, <2>6 DEF Due, Had, log
    <3>2. e.row \notin Chats => \A m, n \in page : m = n
      OBVIOUS
    <3> HIDE DEF page
    <3> QED BY <2>5, <2>6, <2>8, <3>1, <3>2 DEF PageInv
  <2> HIDE DEF p, page
  <2> QED BY <1>s, <2>2, <2>3, <2>7, <2>9
<1>4. CASE End(l)
  <2>1. (IF loop[l].sent THEN "looking" ELSE "waiting") \in {"off", "waiting", "looking", "round"}
    OBVIOUS
  <2> QED BY <1>f, <1>4, <2>1 DEF End, rows, hist
<1>5. CASE PassOver(l) \/ Refuse(l)
  <2>1. /\ UNCHANGED <<log, cursor>> /\ loop[l].page # {} /\ Row(l) \in Chats
        /\ loop' = [loop EXCEPT ![l] = [loop[l] EXCEPT !.at = "acking"]]
        /\ told' = told /\ passed' = [passed EXCEPT ![Row(l)] = @ \cup {Message(l)}]
    BY <1>5, <1>t DEF PassOver, Refuse, AtMessage, Silenced, rows
  <2>2. Row(l) \in Rows
    BY <2>1, InHandOf
  <2>3. /\ \A r \in Rows : Had(r) \subseteq Had(r)'
        /\ Message(l) \in told'[Row(l)] \cup passed'[Row(l)]
    BY <2>1, <2>2, <1>t DEF Had
  <2>4. Row(l)' = Row(l)
    BY <2>1, <1>t DEF Row, LoopType
  <2>5. Message(l) \in Had(Row(l))'
    BY <2>3, <2>4 DEF Had
  <2> QED BY <2>1, <2>3, <2>5, HadShown
<1>6. CASE Send(l)
  <2> DEFINE now == IF Row(l) \in Chats THEN {Message(l)} ELSE stored
  <2>1. /\ UNCHANGED <<log, cursor>> /\ loop[l].page # {}
        /\ loop' = [loop EXCEPT ![l] = [loop[l] EXCEPT !.at = "acking"]]
        /\ passed' = passed /\ told' = [told EXCEPT ![Row(l)] = @ \cup now]
    BY <1>6, <1>t DEF Send, AtMessage, rows
  <2>2. Row(l) \in Rows
    BY <2>1, InHandOf
  <2>3. (\A r \in Rows : Had(r) \subseteq Had(r)') /\ now \subseteq told'[Row(l)]
    <3> HIDE DEF now
    <3> QED BY <2>1, <2>2, <1>t DEF Had
  <2>4. Row(l)' = Row(l)
    <3> HIDE DEF now
    <3> QED BY <2>1, <1>t DEF Row, LoopType
  <2>5. now \subseteq Had(Row(l))'
    <3> HIDE DEF now
    <3> QED BY <2>3, <2>4 DEF Had
  <2> QED BY <2>1, <2>3, <2>5, HadShown
<1>7. CASE Ack(l)
  <2>1. loop[l].page # {} /\ loop[l].at = "acking"
    BY <1>7, <1>t DEF Ack, Shape
  <2>2. /\ Message(l) \in stored /\ Message(l) \in Seqs /\ Row(l) \in Rows /\ PageInv(l)
        /\ \A q \in loop[l].page : Message(l) <= q
    BY <2>1, <1>t, InHandOf DEF LoopsInv
  <2> DEFINE S == loop[l].page \ {Message(l)}
             p == [Left(l, S) EXCEPT !.at = "round", !.sent = TRUE]
  <2>3. loop' = [loop EXCEPT ![l] = p] /\ UNCHANGED <<log, told, passed>>
    BY <1>7 DEF Ack, hist
  <2>4. /\ loop'[l].list = loop[l].list /\ loop'[l].page = S /\ loop'[l].at = "round"
        /\ S # {} => loop'[l].now = loop[l].now
    <3>1. Left(l, S) = [loop[l] EXCEPT !.page = S, !.now = IF S = {} THEN NoEntry ELSE loop[l].now]
      BY <1>t DEF Left, LoopType
    <3>2. loop'[l] = p
      BY <2>3, <1>t
    <3> HIDE DEF S
    <3> QED BY <3>1, <3>2, <1>t DEF LoopType
  <2>5. ListInv(l)'
    BY <2>3, <2>4, <1>t, ListKept DEF Had
  <2>6. Upto(Row(l), Message(l)) /\ Reached(Message(l))
    <3>1. Message(l) <= Message(l) /\ Message(l) \in 0..MaxSeq
      BY <2>2 DEF Seqs
    <3> QED BY <3>1, <2>1, <2>2, ReachedStored DEF PageInv
  <2>7. ASSUME S # {} PROVE PageInv(l)'
    <3>1. Row(l)' = Row(l) /\ Due' = Due /\ Had(Row(l))' = Had(Row(l))
      BY <2>3, <2>4, <2>7 DEF Row, Due, log, Had
    <3>2. Row(l) \in Chats => \A m \in S, s \in Due \ S : s < m => s \in Had(Row(l))
      <4> SUFFICES ASSUME Row(l) \in Chats, NEW m \in S, NEW s \in Due \ S, s < m
                   PROVE  s \in Had(Row(l))
        OBVIOUS
      <4>1. CASE s = Message(l)
        <5>1. s <= Message(l)
          BY <4>1, <2>2 DEF Seqs
        <5> QED BY <5>1, <2>6 DEF Upto
      <4>2. CASE s # Message(l)
        BY <4>2, <2>2 DEF PageInv
      <4> QED BY <4>1, <4>2
    <3>3. Row(l) \notin Chats => \A m, n \in S : m = n
      BY <2>2 DEF PageInv
    <3> HIDE DEF S
    <3> QED BY <2>4, <3>1, <3>2, <3>3 DEF PageInv
  <2>8. LoopsInv'
    <3>1. \A k \in Loops \ {l} : loop'[k] = loop[k]
      BY <2>3, <1>t
    <3>2. loop'[l].page # {} => PageInv(l)'
      <4> HIDE DEF S
      <4> QED BY <2>4, <2>7
    <3> QED BY <2>3, <2>5, <3>1, <3>2, <1>t, OthersSame DEF Had
  <2>9. CursorInv'
    <3> SUFFICES ASSUME NEW r \in Rows
                 PROVE  Upto(r, cursor[r])' /\ Reached(cursor[r])'
      BY DEF CursorInv
    <3>1. cursor'[r] = cursor[r] \/ (r = Row(l) /\ cursor'[r] = Message(l))
      BY <1>7, <1>t, <2>2 DEF Ack, Moved, Larger
    <3>2. Upto(r, cursor'[r]) /\ Reached(cursor'[r])
      BY <3>1, <2>6, <1>t DEF CursorInv
    <3> QED BY <3>2, <2>3 DEF Upto, Reached, Due, Had, Above, log
  <2> QED BY <2>8, <2>9 DEF SentInv
<1>8. CASE Fail(l)
  <2>1. /\ loop' = [loop EXCEPT ![l] = Left(l, {})] /\ UNCHANGED <<log, cursor, told, passed>>
        /\ loop[l].at = "round" /\ {} \in SUBSET loop[l].page
    BY <1>8 DEF Fail, GiveUp, AtMessage, hist
  <2>2. loop'[l] = Left(l, {})
    BY <2>1, <1>t
  <2>3. loop'[l].list = loop[l].list /\ loop'[l].page = {}
    BY <2>1, <2>2, LeftShape
  <2>4. ListInv(l)'
    BY <2>1, <2>3, <1>t, ListKept DEF Had
  <2> QED BY <1>s, <2>1, <2>3, <2>4
<1>9. CASE Abort(l)
  BY <1>f, <1>9 DEF Abort, rows
<1> QED BY <1>1, <1>2, <1>3, <1>4, <1>5, <1>6, <1>7, <1>8, <1>9 DEF Step

\* What is in a loop's hand keeps what it had, though a row be put back.
LEMMA LoopsKept ==
    ASSUME Sound, LoopsInv, UNCHANGED <<log, loop>>,
           \A r \in Rows : Had(r) \subseteq Had(r)' \/ ~ InHand(r)
    PROVE  LoopsInv'
<1> SUFFICES ASSUME NEW k \in Loops PROVE ListInv(k)' /\ (loop'[k].page # {} => PageInv(k)')
  BY DEF LoopsInv
<1>1. loop'[k] = loop[k] /\ ListInv(k) /\ (loop[k].page # {} => PageInv(k)) /\ loop[k] \in LoopType
  BY DEF LoopsInv, Sound, LoopsSound
<1>2. ASSUME NEW e \in loop'[k].list PROVE Upto(e.row, e.cursor)' /\ Reached(e.cursor)'
  <2>1. e.row \in Rows /\ InHand(e.row) /\ Upto(e.row, e.cursor) /\ Reached(e.cursor)
    BY <1>1, <1>2 DEF ListInv, LoopType, Entries, InHand
  <2>2. Upto(e.row, e.cursor)'
    BY <2>1, UptoGrows DEF Upto
  <2> QED BY <2>1, <2>2 DEF Reached, Above, log
<1>3. ASSUME loop'[k].page # {} PROVE PageInv(k)'
  <2>1. /\ PageInv(k) /\ Row(k)' = Row(k) /\ Message(k)' = Message(k) /\ Row(k) \in Rows
        /\ InHand(Row(k))
    BY <1>1, <1>3, InHandOf DEF Row, Message, InHand
  <2>2. Due' = Due /\ Had(Row(k)) \subseteq Had(Row(k))'
    BY <2>1 DEF Due, log, Had
  <2>3. Upto(Row(k), Message(k)) => Upto(Row(k), Message(k))'
    BY <2>1, <2>2 DEF Upto
  <2> QED BY <1>1, <2>1, <2>2, <2>3 DEF PageInv
<1> QED BY <1>2, <1>3 DEF ListInv

\* Only the cursor of r moves, and only what r had changes.
LEMMA OneCursor ==
    ASSUME Sound, CursorInv, UNCHANGED log, NEW r \in Rows,
           \A q \in Rows \ {r} : Had(q)' = Had(q) /\ cursor'[q] = cursor[q],
           Upto(r, cursor[r])', Reached(cursor[r])'
    PROVE  CursorInv'
<1> SUFFICES ASSUME NEW q \in Rows \ {r} PROVE Upto(q, cursor[q])' /\ Reached(cursor[q])'
  BY DEF CursorInv
<1>1. Upto(q, cursor[q]) /\ Reached(cursor[q])
  BY DEF CursorInv
<1> QED BY <1>1 DEF Upto, Reached, Due, Had, Above, log

LEMMA NewestReached == Sound => Reached(Newest)
<1> SUFFICES ASSUME Sound PROVE Reached(Newest)
  OBVIOUS
<1>1. /\ Newest \in 0..MaxSeq
      /\ stored = {} => Newest = 0
      /\ stored # {} => Newest \in stored
  BY NewestOf DEF Sound, LogType
<1>2. CASE stored = {}
  BY <1>1, <1>2, ReachedZero
<1>3. CASE stored # {}
  <2>1. Newest <= Newest
    BY <1>1
  <2> QED BY <1>1, <1>3, <2>1, ReachedStored
<1> QED BY <1>2, <1>3

LEMMA RowSent ==
    ASSUME Sound, SentInv, NEW r \in Rows,
           \/ Rested(r) \/ Leave(r) \/ Join(r) \/ JoinFromStart(r) \/ Skip(r) \/ Resend(r)
           \/ \E a \in Authors : Silence(r, a)
    PROVE  SentInv'
<1>t. /\ CursorInv /\ LoopsInv /\ told \in [Rows -> SUBSET Seqs] /\ passed \in [Rows -> SUBSET Seqs]
      /\ cursor \in [Rows -> 0..MaxSeq] /\ stored \subseteq Seqs
  BY DEF Sound, SentInv, HistType, RowType, LogType
<1>l. UNCHANGED <<log, loop>>
  BY DEF Rested, Leave, Join, JoinFromStart, NewRow, Skip, Resend, Silence
<1>p. ASSUME NEW S, PutBack(r, S)
      PROVE  /\ Had(r) \subseteq Had(r)' \/ ~ InHand(r)
             /\ Had(r) \ S \subseteq Had(r)'
             /\ \A q \in Rows \ {r} : Had(q)' = Had(q)
  BY <1>p, <1>t DEF PutBack, Had
<1>g. ASSUME passed' = [passed EXCEPT ![r] = @ \cup stored], told' = told
      PROVE  /\ Had(r) \subseteq Had(r)' /\ stored \subseteq Had(r)'
             /\ \A q \in Rows \ {r} : Had(q)' = Had(q)
  BY <1>g, <1>t DEF Had
<1>1. CASE Rested(r) \/ Leave(r) \/ \E a \in Authors : Silence(r, a)
  <2>1. UNCHANGED <<cursor, told, passed>>
    BY <1>1 DEF Rested, Leave, Silence, hist
  <2>2. \A q \in Rows : Had(q)' = Had(q)
    BY <2>1 DEF Had
  <2> QED BY <1>t, <1>l, <2>1, <2>2, LoopsKept, CursorKept DEF SentInv
<1>2. CASE Join(r)
  <2>1. /\ passed' = [passed EXCEPT ![r] = @ \cup stored] /\ told' = told
        /\ cursor' = [cursor EXCEPT ![r] = Newest]
    BY <1>2 DEF Join, NewRow
  <2>2. cursor'[r] = Newest /\ \A q \in Rows \ {r} : cursor'[q] = cursor[q]
    BY <2>1, <1>t
  <2>3. Upto(r, cursor[r])'
    BY <2>1, <1>g, <1>l DEF Upto, Due, log
  <2>4. Reached(cursor[r])'
    BY <2>2, <1>l, NewestReached DEF Reached, Above, log
  <2>5. CursorInv'
    BY <1>t, <1>l, <1>g, <2>1, <2>2, <2>3, <2>4, OneCursor
  <2>6. LoopsInv'
    BY <1>t, <1>l, <1>g, <2>1, LoopsKept
  <2> QED BY <2>5, <2>6 DEF SentInv
<1>3. CASE JoinFromStart(r)
  <2>1. PutBack(r, stored) /\ cursor' = [cursor EXCEPT ![r] = 0]
    BY <1>3 DEF JoinFromStart, NewRow
  <2>2. cursor'[r] = 0 /\ \A q \in Rows \ {r} : cursor'[q] = cursor[q]
    BY <2>1, <1>t
  <2>3. Upto(r, cursor[r])'
    <3>1. \A s \in Due' : s \in Seqs
      BY <1>t, <1>l DEF Due, log
    <3> QED BY <2>2, <3>1 DEF Upto, Seqs
  <2>4. Reached(cursor[r])'
    BY <2>2 DEF Reached, Seqs
  <2>5. CursorInv'
    BY <1>t, <1>l, <1>p, <2>1, <2>2, <2>3, <2>4, OneCursor
  <2>6. LoopsInv'
    BY <1>t, <1>l, <1>p, <2>1, LoopsKept
  <2> QED BY <2>5, <2>6 DEF SentInv
<1>4. CASE Skip(r)
  <2>1. passed' = [passed EXCEPT ![r] = @ \cup stored] /\ told' = told
        /\ cursor' = [cursor EXCEPT ![r] = Larger(@, Newest)]
    BY <1>4 DEF Skip
  <2>2. cursor'[r] \in {cursor[r], Newest} /\ \A q \in Rows \ {r} : cursor'[q] = cursor[q]
    BY <2>1, <1>t DEF Larger
  <2>3. Upto(r, cursor[r])'
    BY <2>1, <1>g, <1>l DEF Upto, Due, log
  <2>4. Reached(cursor[r])'
    BY <2>2, <1>t, <1>l, NewestReached DEF Reached, Above, log, CursorInv
  <2>5. CursorInv'
    BY <1>t, <1>l, <1>g, <2>1, <2>2, <2>3, <2>4, OneCursor
  <2>6. LoopsInv'
    BY <1>t, <1>l, <1>g, <2>1, LoopsKept
  <2> QED BY <2>5, <2>6 DEF SentInv
<1>5. CASE Resend(r)
  <2>1. PICK last \in stored :
          /\ cursor' = [cursor EXCEPT ![r] = last - 1] /\ last - 1 \in 0..MaxSeq
          /\ last \in Seqs /\ last <= cursor[r] /\ PutBack(r, {last})
    BY <1>5, BackOne
  <2>2. cursor'[r] = last - 1 /\ \A q \in Rows \ {r} : cursor'[q] = cursor[q]
    BY <2>1, <1>t
  <2>3. Upto(r, cursor[r])'
    <3> SUFFICES ASSUME NEW s \in Due, s <= last - 1 PROVE s \in Had(r)'
      BY <1>l, <2>2 DEF Upto, Due, log
    <3>1. s \in Seqs /\ cursor[r] \in 0..MaxSeq
      BY <1>t DEF Due
    <3>2. s # last /\ s <= cursor[r]
      BY <2>1, <3>1 DEF Seqs
    <3> QED BY <1>p, <1>t, <2>1, <3>2 DEF CursorInv, Upto
  <2>4. Reached(cursor[r])'
    <3>1. last - 1 <= last
      BY <2>1 DEF Seqs
    <3>2. Reached(last - 1)
      BY <2>1, <3>1, ReachedStored
    <3> QED BY <3>2, <2>2, <1>l DEF Reached, Above, log
  <2>5. CursorInv'
    BY <1>t, <1>l, <1>p, <2>1, <2>2, <2>3, <2>4, OneCursor
  <2>6. LoopsInv'
    BY <1>t, <1>l, <1>p, <2>1, LoopsKept
  <2> QED BY <2>5, <2>6 DEF SentInv
<1> QED BY <1>1, <1>2, <1>3, <1>4, <1>5

LEMMA CrashSent ==
    ASSUME Sound, SentInv, NEW v \in Servers, Crash(v)
    PROVE  SentInv'
<1>1. /\ loop' = [l \in Loops |-> IF l[1] = v /\ l \in running THEN Fresh("looking") ELSE loop[l]]
      /\ UNCHANGED <<log, cursor, told, passed>> /\ LoopsInv /\ CursorInv
  BY DEF Crash, rows, SentInv
<1>2. \A q \in Rows : Had(q)' = Had(q)
  BY <1>1 DEF Had
<1>3. ASSUME NEW k \in Loops PROVE ListInv(k)' /\ (loop'[k].page # {} => PageInv(k)')
  <2>1. CASE loop'[k] = Fresh("looking")
    BY <2>1, NothingListed
  <2>2. CASE loop'[k] = loop[k]
    <3>1. ListInv(k)'
      BY <1>1, <1>2, <2>2, ListKept
    <3>2. loop'[k].page # {} => PageInv(k)'
      BY <1>1, <2>2 DEF LoopsInv, PageInv, Row, Message, Upto, Due, Had, log
    <3> QED BY <3>1, <3>2
  <2> QED BY <1>1, <2>1, <2>2
<1> QED BY <1>1, <1>2, <1>3, CursorKept DEF SentInv, LoopsInv

\* What appears below a cursor, or below a message in hand, is late.
LEMMA PublishSent ==
    ASSUME Sound, SentInv, NEW s \in Seqs, Publish(s)
    PROVE  SentInv'
<1>1. /\ s \notin stored /\ stored' = stored \cup {s} /\ stored \subseteq Seqs
      /\ late' = IF Above(s) # {} THEN late \cup {s} ELSE late
      /\ UNCHANGED <<cursor, told, passed, loop>> /\ CursorInv /\ LoopsInv
  BY DEF Publish, rows, hist, Sound, LogType, SentInv
<1>2. Due' \subseteq Due \cup {s} /\ (Above(s) # {} => Due' \subseteq Due)
  BY <1>1 DEF Due
<1>3. ASSUME NEW r, NEW c, Upto(r, c), Reached(c) PROVE Upto(r, c)' /\ Reached(c)'
  <2>1. \A x : Above(x) \subseteq Above(x)'
    BY <1>1 DEF Above
  <2>2. Reached(c)'
    BY <1>1, <1>3, <2>1 DEF Reached
  <2>3. s <= c => Above(s) # {}
    BY <1>1, <1>3 DEF Reached
  <2>4. Upto(r, c)'
    BY <1>1, <1>2, <1>3, <2>3 DEF Upto, Had
  <2> QED BY <2>2, <2>4
<1>4. CursorInv'
  <2> SUFFICES ASSUME NEW r \in Rows PROVE Upto(r, cursor[r])' /\ Reached(cursor[r])'
    BY DEF CursorInv
  <2>1. Upto(r, cursor[r]) /\ Reached(cursor[r]) /\ cursor'[r] = cursor[r]
    BY <1>1 DEF CursorInv
  <2> QED BY <1>3, <2>1 DEF Upto, Reached
<1>5. ASSUME NEW k \in Loops PROVE ListInv(k)'
  BY <1>1, <1>3 DEF LoopsInv, ListInv
<1>6. ASSUME NEW k \in Loops, loop'[k].page # {} PROVE PageInv(k)'
  <2>1. /\ PageInv(k) /\ loop[k].page \subseteq stored /\ Message(k) \in stored /\ Message(k) \in Seqs
        /\ Row(k)' = Row(k) /\ Message(k)' = Message(k) /\ loop'[k] = loop[k] /\ Had(Row(k))' = Had(Row(k))
    BY <1>1, <1>6, InHandOf DEF LoopsInv, Sound, LoopsSound, Shape, Row, Message, Had
  <2>2. \A m \in loop[k].page : s < m => Above(s) # {}
    BY <2>1 DEF Above
  <2>3. ASSUME NEW m \in loop[k].page, NEW t \in Due' \ loop[k].page, t < m PROVE t \in Due
    BY <1>2, <2>2, <2>3
  <2>4. Message(k) <= Message(k) /\ Message(k) \in 0..MaxSeq
    BY <2>1 DEF Seqs
  <2>5. Reached(Message(k))
    BY <2>1, <2>4, ReachedStored
  <2>6. s <= Message(k) => Above(s) # {}
    BY <1>1, <2>5 DEF Reached
  <2>7. Upto(Row(k), Message(k)) => Upto(Row(k), Message(k))'
    BY <1>2, <2>1, <2>6 DEF Upto
  <2> QED BY <2>1, <2>3, <2>7 DEF PageInv
<1> QED BY <1>4, <1>5, <1>6 DEF SentInv, LoopsInv

LEMMA StutterSent == Sound /\ SentInv /\ UNCHANGED vars => SentInv'
<1> SUFFICES ASSUME Sound, SentInv, UNCHANGED vars PROVE SentInv'
  OBVIOUS
<1>1. UNCHANGED <<log, cursor, told, passed, loop>>
  BY DEF vars, rows, hist
<1>2. \A q \in Rows : Had(q)' = Had(q)
  BY <1>1 DEF Had
<1> QED BY <1>1, <1>2, LoopsKept, CursorKept DEF SentInv

\* "A message is sent before the cursor moves past it": whatever servers do at
\* once, die of, or fail at, and however rows are moved by hand meanwhile.
THEOREM NothingPassedOverAlways == Spec => []NothingPassedOver
<1>1. Init => SentInv
  <2> SUFFICES ASSUME Init PROVE SentInv
    OBVIOUS
  <2>1. \A l \in Loops : loop[l].list = {} /\ loop[l].page = {}
    BY FreshShape DEF Init, Fresh
  <2>2. \A r \in Rows : cursor[r] = 0
    BY DEF Init
  <2>3. Due = {}
    BY DEF Init, Due
  <2> QED BY <2>1, <2>2, <2>3, ReachedZero DEF SentInv, CursorInv, LoopsInv, ListInv, Upto
<1>2. Sound /\ SentInv /\ [Next]_vars => SentInv'
  BY SentStep, RowSent, CrashSent, PublishSent, StutterSent DEF Next
<1> QED BY <1>1, <1>2, SoundAlways, SentMeans, PTL DEF Spec

(***************************************************************************)
(* A loop sends a thing once.                                              *)
(***************************************************************************)

\* What loop k sent to r and may not send again.
Sent(k, r, s) == <<k, r, s>> \in mine

\* What was sent is below the cursor, or about to be.
MineInv ==
    \A k \in Loops, r \in member, s \in 0..MaxSeq :
        Sent(k, r, s) => \/ s <= cursor[r]
                         \/ loop[k].at = "acking" /\ r = Row(k) /\ s = Message(k)

\* A round's list has a row once, with something to send, and all that the loop
\* sent before is below the cursor it listed.
ListOnce(k) ==
    /\ \A e, f \in loop[k].list : e.row = f.row => e = f
    /\ \A e \in loop[k].list :
          /\ e.cursor < e.head
          /\ \A s \in 0..MaxSeq : Sent(k, e.row, s) => s <= e.cursor

\* The row in hand is off the list, and the message in hand is beyond all that
\* the loop sent to the row.
HandOnce(k) ==
    /\ \A e \in loop[k].list : e.row # Row(k)
    /\ \A s \in 0..MaxSeq : Sent(k, Row(k), s) =>
          /\ s <= Message(k)
          /\ loop[k].at # "acking" => s < Message(k)

LoopOnce(k) == ListOnce(k) /\ (loop[k].page # {} => HandOnce(k))

OnceInv == MineInv /\ \A k \in Loops : LoopOnce(k)

\* A loop that did nothing, and sent nothing more.
LEMMA OnceSame ==
    ASSUME NEW k \in Loops, LoopOnce(k), loop'[k] = loop[k],
           \A r, s : Sent(k, r, s)' => Sent(k, r, s)
    PROVE  LoopOnce(k)'
<1>1. Row(k)' = Row(k) /\ Message(k)' = Message(k)
  BY DEF Row, Message
<1>2. ListOnce(k)'
  BY DEF LoopOnce, ListOnce
<1>3. ASSUME loop'[k].page # {} PROVE HandOnce(k)'
  <2>1. HandOnce(k)
    BY <1>3 DEF LoopOnce
  <2> QED BY <1>1, <2>1 DEF HandOnce
<1> QED BY <1>2, <1>3 DEF LoopOnce

LEMMA FreshOnce ==
    ASSUME NEW k \in Loops, NEW at \in {"off", "waiting", "looking", "round"},
           loop'[k] = Fresh(at)
    PROVE  LoopOnce(k)'
BY FreshShape DEF LoopOnce, ListOnce

\* The loop l does not acknowledge, and nothing it sent is forgotten.
LEMMA MineKept ==
    ASSUME MineInv, mine' \subseteq mine, UNCHANGED <<member, cursor>>,
           NEW l \in Loops, \A k \in Loops \ {l} : loop'[k] = loop[k],
           loop[l].at # "acking" \/ \A r, s : Sent(l, r, s)' => ~ (r = Row(l) /\ s = Message(l))
    PROVE  MineInv'
<1> SUFFICES ASSUME NEW k \in Loops, NEW r \in member, NEW s \in 0..MaxSeq, Sent(k, r, s)'
             PROVE  \/ s <= cursor[r]
                    \/ loop'[k].at = "acking" /\ r = Row(k)' /\ s = Message(k)'
  BY DEF MineInv
<1>1. Sent(k, r, s)
  BY DEF Sent
<1>2. CASE k = l
  BY <1>1, <1>2 DEF MineInv
<1>3. CASE k # l
  BY <1>1, <1>3 DEF MineInv, Row, Message
<1> QED BY <1>2, <1>3

\* The message in hand was passed, or sent: it is about to be acknowledged.
LEMMA OnceShown ==
    ASSUME Sound, OnceInv, UNCHANGED <<member, cursor>>, NEW l \in Loops,
           loop[l].page # {}, loop[l].at = "round",
           loop' = [loop EXCEPT ![l] = [loop[l] EXCEPT !.at = "acking"]],
           mine' \in {mine, mine \cup {Current(l)}}
    PROVE  OnceInv'
<1>1. /\ loop'[l] = [loop[l] EXCEPT !.at = "acking"] /\ \A k \in Loops \ {l} : loop'[k] = loop[k]
      /\ loop[l] \in LoopType /\ MineInv /\ LoopOnce(l) /\ HandOnce(l)
  BY DEF Sound, LoopsSound, OnceInv, LoopOnce
<1>2. /\ loop'[l].list = loop[l].list /\ loop'[l].page = loop[l].page /\ loop'[l].at = "acking"
      /\ Row(l)' = Row(l) /\ Message(l)' = Message(l)
  BY <1>1 DEF LoopType, Row, Message
<1>3. \A k \in Loops : \A r, s : Sent(k, r, s)' => Sent(k, r, s) \/ (k = l /\ r = Row(l) /\ s = Message(l))
  BY DEF Sent, Current
<1>4. Message(l) \in Seqs
  BY InHandOf
<1>5. LoopOnce(l)'
  <2>1. ListOnce(l)'
    BY <1>1, <1>2, <1>3 DEF LoopOnce, ListOnce, HandOnce
  <2>2. HandOnce(l)'
    BY <1>1, <1>2, <1>3, <1>4 DEF HandOnce, Seqs
  <2> QED BY <2>1, <2>2 DEF LoopOnce
<1>6. \A k \in Loops \ {l} : LoopOnce(k)'
  BY <1>1, <1>3, OnceSame DEF OnceInv
<1>7. MineInv'
  <2> SUFFICES ASSUME NEW k \in Loops, NEW r \in member, NEW s \in 0..MaxSeq, Sent(k, r, s)'
               PROVE  \/ s <= cursor[r]
                      \/ loop'[k].at = "acking" /\ r = Row(k)' /\ s = Message(k)'
    BY DEF MineInv
  <2>1. CASE k = l /\ r = Row(l) /\ s = Message(l)
    BY <1>2, <2>1
  <2>2. CASE Sent(k, r, s) /\ k = l
    BY <1>1, <2>2 DEF MineInv
  <2>3. CASE Sent(k, r, s) /\ k # l
    BY <1>1, <2>3 DEF MineInv, Row, Message
  <2> QED BY <1>3, <2>1, <2>2, <2>3
<1> QED BY <1>5, <1>6, <1>7 DEF OnceInv

LEMMA OnceStep ==
    ASSUME Sound, OnceInv, NEW l \in Loops, Step(l) \/ Fail(l) \/ Refuse(l) \/ Abort(l)
    PROVE  OnceInv'
<1>t. /\ loop[l] \in LoopType /\ Shape(loop[l]) /\ loop \in [Loops -> LoopType]
      /\ MineInv /\ LoopOnce(l) /\ ListOnce(l) /\ (loop[l].page # {} => HandOnce(l))
      /\ cursor \in [Rows -> 0..MaxSeq] /\ member \subseteq Rows /\ stored \subseteq Seqs
  BY DEF Sound, LoopsSound, Shape, OnceInv, LoopOnce, RowType, LogType
<1>s. ASSUME UNCHANGED <<member, cursor>>, mine' \subseteq mine, NEW p,
             loop' = [loop EXCEPT ![l] = p], LoopOnce(l)',
             loop[l].at # "acking" \/ \A r, s : Sent(l, r, s)' => ~ (r = Row(l) /\ s = Message(l))
      PROVE  OnceInv'
  <2>1. \A k \in Loops \ {l} : loop'[k] = loop[k]
    BY <1>s, <1>t
  <2>2. \A k, r, s : Sent(k, r, s)' => Sent(k, r, s)
    BY <1>s DEF Sent
  <2>3. \A k \in Loops \ {l} : LoopOnce(k)'
    BY <2>1, <2>2, OnceSame DEF OnceInv
  <2>4. MineInv'
    BY <1>s, <1>t, <2>1, MineKept
  <2> QED BY <1>s, <2>3, <2>4 DEF OnceInv
<1>f. ASSUME UNCHANGED <<member, cursor>>, mine' \subseteq mine,
             NEW at \in {"off", "waiting", "looking", "round"},
             loop' = [loop EXCEPT ![l] = Fresh(at)],
             loop[l].at # "acking" \/ \A r, s : Sent(l, r, s)' => ~ (r = Row(l) /\ s = Message(l))
      PROVE  OnceInv'
  <2>1. loop'[l] = Fresh(at)
    BY <1>f, <1>t
  <2> QED BY <1>f, <1>s, <2>1, FreshOnce
<1>1. CASE Wake(l)
  <2>1. /\ loop' = [loop EXCEPT ![l] = [loop[l] EXCEPT !.at = "looking"]]
        /\ UNCHANGED <<member, cursor, mine>> /\ loop[l].at = "waiting"
    BY <1>1, <1>t DEF Wake, rows, hist
  <2>2. loop'[l] = [loop[l] EXCEPT !.at = "looking"]
    BY <2>1, <1>t
  <2>3. loop'[l].list = loop[l].list /\ loop'[l].page = loop[l].page /\ loop'[l].now = loop[l].now
        /\ loop'[l].at = "looking"
    BY <2>2, <1>t DEF LoopType
  <2>4. LoopOnce(l)'
    BY <2>1, <2>3, <1>t DEF LoopOnce, ListOnce, HandOnce, Row, Message, Sent
  <2> QED BY <1>s, <2>1, <2>4
<1>2. CASE Look(l)
  <2> DEFINE due == {r \in l[2] : HasWork(r)}
  <2>1. PICK chosen \in SUBSET due :
          loop' = [loop EXCEPT ![l] = [Fresh("round") EXCEPT !.list = {Entry(r) : r \in chosen}]]
    BY <1>2 DEF Look
  <2>2. UNCHANGED <<member, cursor, mine>> /\ loop[l].at = "looking"
    BY <1>2 DEF Look, rows, hist
  <2>3. loop'[l].list = {Entry(r) : r \in chosen} /\ loop'[l].page = {}
    BY <2>1, <1>t, FreshShape DEF LoopType
  <2>4. \A r \in chosen : r \in member /\ r \in Rows /\ Above(cursor[r]) # {}
    BY <1>t DEF HasWork
  <2>5. \A r \in chosen : Entry(r).row = r /\ Entry(r).cursor = cursor[r] /\ Entry(r).head = Newest
    BY <2>4, EntryType DEF Sound
  <2>6. ASSUME NEW r \in chosen PROVE cursor[r] < Newest
    <3>1. PICK t \in stored : t > cursor[r]
      BY <2>4 DEF Above
    <3>2. t <= Newest /\ Newest \in 0..MaxSeq /\ t \in Seqs /\ cursor[r] \in 0..MaxSeq
      BY <1>t, <2>4, NewestOf
    <3> QED BY <3>1, <3>2 DEF Seqs
  <2>7. \A r \in chosen, s \in 0..MaxSeq : Sent(l, r, s) => s <= cursor[r]
    BY <1>t, <2>2, <2>4 DEF MineInv
  <2>8. ListOnce(l)'
    <3>1. \A e, f \in loop'[l].list : e.row = f.row => e = f
      BY <2>3, <2>5
    <3>2. ASSUME NEW e \in loop'[l].list
          PROVE  e.cursor < e.head /\ \A s \in 0..MaxSeq : Sent(l, e.row, s)' => s <= e.cursor
      <4>1. PICK r \in chosen : e = Entry(r)
        BY <2>3
      <4> QED BY <4>1, <2>2, <2>5, <2>6, <2>7 DEF Sent
    <3> QED BY <3>1, <3>2 DEF ListOnce
  <2> QED BY <1>s, <2>1, <2>2, <2>3, <2>8 DEF LoopOnce
<1>3. CASE Turn(l)
  <2>1. PICK e \in loop[l].list :
          loop' = [loop EXCEPT ![l].list = @ \ {e}, ![l].now = e,
                     ![l].page = IF e.row \in Chats THEN Lowest(Above(e.cursor), Page)
                                 ELSE {e.head}]
    BY <1>3 DEF Turn
  <2> DEFINE page == IF e.row \in Chats THEN Lowest(Above(e.cursor), Page) ELSE {e.head}
             p == [loop[l] EXCEPT !.list = loop[l].list \ {e}, !.now = e, !.page = page]
  <2>2. /\ e \in Entries /\ e.cursor \in 0..MaxSeq /\ e.cursor < e.head /\ e.head \in stored
        /\ loop[l].at = "round" /\ UNCHANGED <<member, cursor, mine>>
        /\ \A s \in 0..MaxSeq : Sent(l, e.row, s) => s <= e.cursor
    BY <1>3, <2>1, <1>t DEF Shape, LoopType, Entries, ListOnce, Turn, rows, hist
  <2>3. loop' = [loop EXCEPT ![l] = p]
    BY <2>1, <1>t
  <2>4. loop'[l] = p
    BY <2>3, <1>t
  <2>5. loop'[l].list = loop[l].list \ {e} /\ loop'[l].page = page /\ loop'[l].now = e
        /\ loop'[l].at = "round"
    <3> HIDE DEF page
    <3> QED BY <2>4, <2>2, <1>t DEF LoopType
  <2>6. Row(l)' = e.row /\ Message(l)' = First(page)
    <3> HIDE DEF page
    <3> QED BY <2>5 DEF Row, Message
  <2>7. \A m \in page : e.cursor < m /\ m \in Seqs
    BY <2>2, <1>t, LowestPart DEF Above
  <2>8. ListOnce(l)'
    BY <2>2, <2>5, <1>t DEF ListOnce, Sent
  <2>9. ASSUME page # {} PROVE HandOnce(l)'
    <3>1. First(page) \in page
      <4>1. page \in SUBSET Seqs
        BY <2>7
      <4> HIDE DEF page
      <4> QED BY <2>9, <4>1, FirstOf
    <3>2. e.cursor < First(page) /\ First(page) \in Seqs
      BY <2>7, <3>1
    <3> HIDE DEF page
    <3>3. \A f \in loop'[l].list : f.row # e.row
      BY <2>5, <1>t DEF ListOnce
    <3> QED BY <2>2, <2>5, <2>6, <3>2, <3>3 DEF HandOnce, Sent, Seqs
  <2>10. LoopOnce(l)'
    <3> HIDE DEF page
    <3> QED BY <2>5, <2>8, <2>9 DEF LoopOnce
  <2> HIDE DEF p, page
  <2> QED BY <1>s, <2>2, <2>3, <2>10
<1>4. CASE End(l)
  <2>1. (IF loop[l].sent THEN "looking" ELSE "waiting") \in {"off", "waiting", "looking", "round"}
    OBVIOUS
  <2> QED BY <1>f, <1>4, <2>1 DEF End, rows, hist
<1>5. CASE PassOver(l) \/ Refuse(l) \/ Send(l)
  <2>1. /\ UNCHANGED <<member, cursor>> /\ loop[l].page # {} /\ loop[l].at = "round"
        /\ loop' = [loop EXCEPT ![l] = [loop[l] EXCEPT !.at = "acking"]]
        /\ mine' \in {mine, mine \cup {Current(l)}}
    BY <1>5, <1>t DEF PassOver, Refuse, Send, AtMessage, rows
  <2> QED BY <2>1, OnceShown
<1>7. CASE Ack(l)
  <2>1. loop[l].page # {} /\ loop[l].at = "acking"
    BY <1>7, <1>t DEF Ack, Shape
  <2>2. /\ Message(l) \in Seqs /\ Row(l) \in Rows /\ HandOnce(l) /\ loop[l].page \in SUBSET Seqs
        /\ \A q \in loop[l].page : Message(l) <= q
    BY <2>1, <1>t, InHandOf DEF Shape
  <2> DEFINE S == loop[l].page \ {Message(l)}
             p == [Left(l, S) EXCEPT !.at = "round", !.sent = TRUE]
  <2>3. loop' = [loop EXCEPT ![l] = p] /\ UNCHANGED <<member, mine>>
    BY <1>7 DEF Ack, hist
  <2>4. /\ loop'[l].list = loop[l].list /\ loop'[l].page = S /\ loop'[l].at = "round"
        /\ S # {} => loop'[l].now = loop[l].now
    <3>1. Left(l, S) = [loop[l] EXCEPT !.page = S, !.now = IF S = {} THEN NoEntry ELSE loop[l].now]
      BY <1>t DEF Left, LoopType
    <3>2. loop'[l] = p
      BY <2>3, <1>t
    <3> HIDE DEF S
    <3> QED BY <3>1, <3>2, <1>t DEF LoopType
  <2>5. ListOnce(l)'
    BY <2>3, <2>4, <1>t DEF ListOnce, Sent
  <2>6. ASSUME S # {} PROVE HandOnce(l)'
    <3>1. Row(l)' = Row(l) /\ Message(l)' = First(S)
      <4> HIDE DEF S
      <4> QED BY <2>4, <2>6 DEF Row, Message
    <3>2. First(S) \in S
      <4>1. S \in SUBSET Seqs
        BY <2>2
      <4> HIDE DEF S
      <4> QED BY <2>6, <4>1, FirstOf
    <3>3. Message(l) < First(S) /\ First(S) \in Seqs
      BY <2>2, <3>2 DEF Seqs
    <3> HIDE DEF S
    <3> QED BY <2>2, <2>3, <2>4, <3>1, <3>3 DEF HandOnce, Sent, Seqs
  <2>7. LoopOnce(l)'
    <3> HIDE DEF S
    <3> QED BY <2>4, <2>5, <2>6 DEF LoopOnce
  <2>8. \A k \in Loops \ {l} : loop'[k] = loop[k]
    BY <2>3, <1>t
  <2>9. \A k \in Loops \ {l} : LoopOnce(k)'
    BY <2>3, <2>8, OnceSame DEF OnceInv, Sent
  <2>10. MineInv'
    <3> SUFFICES ASSUME NEW k \in Loops, NEW r \in member, NEW s \in 0..MaxSeq, Sent(k, r, s)
                 PROVE  \/ s <= cursor'[r]
                        \/ loop'[k].at = "acking" /\ r = Row(k)' /\ s = Message(k)'
      BY <2>3 DEF MineInv, Sent
    <3>1. r \in Rows /\ cursor[r] \in 0..MaxSeq /\ Message(l) \in 0..MaxSeq
      BY <1>t, <2>2 DEF Seqs
    <3>2. /\ cursor[r] <= cursor'[r] /\ cursor'[r] \in 0..MaxSeq
          /\ r = Row(l) => Message(l) <= cursor'[r]
      BY <1>7, <1>t, <3>1 DEF Ack, Moved, Larger
    <3>3. CASE s <= cursor[r]
      BY <3>1, <3>2, <3>3
    <3>4. CASE k = l /\ ~ (s <= cursor[r])
      BY <1>t, <3>2, <3>4 DEF MineInv
    <3>5. CASE k # l /\ ~ (s <= cursor[r])
      BY <1>t, <2>8, <3>5 DEF MineInv, Row, Message
    <3> QED BY <3>3, <3>4, <3>5
  <2> QED BY <2>7, <2>9, <2>10 DEF OnceInv
<1>8. CASE Fail(l)
  <2>1. /\ loop' = [loop EXCEPT ![l] = Left(l, {})] /\ UNCHANGED <<member, cursor, mine>>
        /\ loop[l].at = "round" /\ {} \in SUBSET loop[l].page
    BY <1>8 DEF Fail, GiveUp, AtMessage, hist
  <2>2. loop'[l] = Left(l, {})
    BY <2>1, <1>t
  <2>3. loop'[l].list = loop[l].list /\ loop'[l].page = {}
    BY <2>1, <2>2, LeftShape
  <2>4. LoopOnce(l)'
    BY <2>1, <2>3, <1>t DEF LoopOnce, ListOnce, Sent
  <2> QED BY <1>s, <2>1, <2>4
<1>9. CASE Abort(l)
  <2>1. /\ loop' = [loop EXCEPT ![l] = Fresh("waiting")] /\ UNCHANGED <<member, cursor>>
        /\ mine' = IF loop[l].at = "acking" THEN mine \ {Current(l)} ELSE mine
    BY <1>9 DEF Abort, rows
  <2>2. loop[l].at # "acking" \/ \A r, s : Sent(l, r, s)' => ~ (r = Row(l) /\ s = Message(l))
    BY <2>1 DEF Sent, Current
  <2> QED BY <1>f, <2>1, <2>2
<1> QED BY <1>1, <1>2, <1>3, <1>4, <1>5, <1>7, <1>8, <1>9 DEF Step

LEMMA RowOnce ==
    ASSUME Sound, OnceInv, NEW r \in Rows,
           \/ Rested(r) \/ Leave(r) \/ Join(r) \/ JoinFromStart(r) \/ Skip(r) \/ Resend(r)
           \/ \E a \in Authors : Silence(r, a)
    PROVE  OnceInv'
<1>t. /\ MineInv /\ cursor \in [Rows -> 0..MaxSeq] /\ member \subseteq Rows
      /\ Newest \in 0..MaxSeq
  BY NewestOf DEF OnceInv, Sound, RowType, LogType
<1>1. UNCHANGED loop /\ mine' \subseteq mine
  BY DEF Rested, Leave, Join, JoinFromStart, NewRow, Skip, Resend, Silence, hist
<1>2. \A k \in Loops : LoopOnce(k)'
  <2>1. \A k, q, s : Sent(k, q, s)' => Sent(k, q, s)
    BY <1>1 DEF Sent
  <2> QED BY <1>1, <2>1, OnceSame DEF OnceInv
\* What is left of what was sent is below the new cursor.
<1>3. ASSUME \A q \in member', s \in 0..MaxSeq, k \in Loops : Sent(k, q, s)' =>
                \/ /\ q \in member /\ cursor[q] <= cursor'[q]
                   /\ cursor'[q] \in 0..MaxSeq /\ cursor[q] \in 0..MaxSeq
                \/ s <= cursor'[q]
      PROVE  MineInv'
  <2> SUFFICES ASSUME NEW k \in Loops, NEW q \in member', NEW s \in 0..MaxSeq, Sent(k, q, s)'
               PROVE  \/ s <= cursor'[q]
                      \/ loop'[k].at = "acking" /\ q = Row(k)' /\ s = Message(k)'
    BY DEF MineInv
  <2>1. Sent(k, q, s) /\ Row(k)' = Row(k) /\ Message(k)' = Message(k) /\ loop' = loop
    BY <1>1 DEF Sent, Row, Message
  <2>2. CASE s <= cursor'[q]
    BY <2>2
  <2>3. CASE q \in member /\ cursor[q] <= cursor'[q] /\ cursor'[q] \in 0..MaxSeq /\ cursor[q] \in 0..MaxSeq
    BY <1>t, <2>1, <2>3 DEF MineInv
  <2> QED BY <1>3, <2>2, <2>3
<1>4. CASE Rested(r) \/ Leave(r) \/ \E a \in Authors : Silence(r, a)
  <2>1. cursor' = cursor /\ member' \subseteq member
    BY <1>4 DEF Rested, Leave, Silence
  <2> QED BY <1>2, <1>3, <1>t, <2>1 DEF OnceInv
<1>5. CASE Join(r) \/ JoinFromStart(r)
  <2>1. PICK from \in 0..MaxSeq : NewRow(r, from)
    <3>1. 0 \in 0..MaxSeq
      OBVIOUS
    <3> QED BY <1>5, <1>t, <3>1 DEF Join, JoinFromStart
  <2>2. /\ member' = member \cup {r} /\ cursor' = [cursor EXCEPT ![r] = from]
        /\ mine' = mine \ Forgiven(r, 0)
    BY <2>1 DEF NewRow
  <2>3. ASSUME NEW q \in member', NEW s \in 0..MaxSeq, NEW k \in Loops, Sent(k, q, s)', q = r
        PROVE  s <= cursor'[q]
    <3>1. ~ (s > 0) /\ cursor'[q] = from
      BY <1>t, <2>2, <2>3 DEF Sent, Forgiven
    <3> QED BY <3>1
  <2>4. \A q \in member' : q # r => q \in member /\ cursor'[q] = cursor[q] /\ cursor[q] \in 0..MaxSeq
    BY <1>t, <2>2
  <2> QED BY <1>2, <1>3, <2>3, <2>4 DEF OnceInv
<1>6. CASE Skip(r)
  <2>1. member' = member /\ cursor' = [cursor EXCEPT ![r] = Larger(@, Newest)]
    BY <1>6 DEF Skip
  <2>2. \A q \in member : cursor[q] <= cursor'[q] /\ cursor'[q] \in 0..MaxSeq /\ cursor[q] \in 0..MaxSeq
    BY <1>t, <2>1 DEF Larger
  <2> QED BY <1>2, <1>3, <2>1, <2>2 DEF OnceInv
<1>7. CASE Resend(r)
  <2>1. PICK last \in stored :
          /\ cursor' = [cursor EXCEPT ![r] = last - 1] /\ last - 1 \in 0..MaxSeq
          /\ mine' = mine \ Forgiven(r, last - 1)
    BY <1>7, BackOne
  <2>2. member' = member
    BY <1>7 DEF Resend
  <2>3. ASSUME NEW q \in member', NEW s \in 0..MaxSeq, NEW k \in Loops, Sent(k, q, s)', q = r
        PROVE  s <= cursor'[q]
    <3>1. ~ (s > last - 1) /\ cursor'[q] = last - 1
      BY <1>t, <2>1, <2>3 DEF Sent, Forgiven
    <3> QED BY <3>1, <2>1
  <2>4. \A q \in member' : q # r => q \in member /\ cursor'[q] = cursor[q] /\ cursor[q] \in 0..MaxSeq
    BY <1>t, <2>1, <2>2
  <2> QED BY <1>2, <1>3, <2>3, <2>4 DEF OnceInv
<1> QED BY <1>4, <1>5, <1>6, <1>7

LEMMA CrashOnce ==
    ASSUME Sound, OnceInv, NEW v \in Servers, Crash(v)
    PROVE  OnceInv'
<1>1. /\ loop' = [l \in Loops |-> IF l[1] = v /\ l \in running THEN Fresh("looking") ELSE loop[l]]
      /\ mine' = {m \in mine : m[1][1] # v} /\ UNCHANGED <<member, cursor>> /\ MineInv
  BY DEF Crash, rows, OnceInv
<1>2. \A k, r, s : Sent(k, r, s)' => Sent(k, r, s) /\ k[1] # v
  BY <1>1 DEF Sent
<1>3. ASSUME NEW k \in Loops PROVE LoopOnce(k)'
  <2>1. loop'[k] = Fresh("looking") \/ loop'[k] = loop[k]
    BY <1>1
  <2> QED BY <1>2, <2>1, FreshOnce, OnceSame DEF OnceInv
<1>4. MineInv'
  <2> SUFFICES ASSUME NEW k \in Loops, NEW r \in member, NEW s \in 0..MaxSeq, Sent(k, r, s)'
               PROVE  \/ s <= cursor[r]
                      \/ loop'[k].at = "acking" /\ r = Row(k)' /\ s = Message(k)'
    BY <1>1 DEF MineInv
  <2>1. loop'[k] = loop[k] /\ Sent(k, r, s)
    BY <1>1, <1>2
  <2>2. Row(k)' = Row(k) /\ Message(k)' = Message(k)
    BY <2>1 DEF Row, Message
  <2> QED BY <1>1, <2>1, <2>2 DEF MineInv
<1> QED BY <1>3, <1>4 DEF OnceInv

LEMMA RestOnce ==
    ASSUME OnceInv, UNCHANGED <<loop, mine, member, cursor>>
    PROVE  OnceInv'
<1>1. \A k \in Loops : LoopOnce(k)'
  BY OnceSame DEF OnceInv, Sent
<1>2. MineInv'
  BY DEF OnceInv, MineInv, Sent, Row, Message
<1> QED BY <1>1, <1>2 DEF OnceInv

\* What is sent is beyond all that was sent.
LEMMA SendsOnce ==
    ASSUME Sound, OnceInv, NEW l \in Loops, Send(l)
    PROVE  Current(l) \notin mine
<1>1. loop[l].page # {} /\ loop[l].at = "round"
  BY DEF Send, AtMessage
<1>2. HandOnce(l) /\ Message(l) \in Seqs
  BY <1>1, InHandOf DEF OnceInv, LoopOnce
<1> QED BY <1>1, <1>2 DEF HandOnce, Sent, Current, Seqs

\* As long as it is not interrupted, a loop sends a chat each message once and
\* calls a trigger again only for something new, whatever other servers do.
THEOREM OnceEachAlways == Spec => OnceEach
<1>1. Init => OnceInv
  <2> SUFFICES ASSUME Init PROVE OnceInv
    OBVIOUS
  <2>1. \A l \in Loops : loop[l].list = {} /\ loop[l].page = {}
    BY FreshShape DEF Init, Fresh
  <2>2. mine = {}
    BY DEF Init
  <2> QED BY <2>1, <2>2 DEF OnceInv, MineInv, LoopOnce, ListOnce, Sent
<1>2. Sound /\ OnceInv /\ [Next]_vars => OnceInv'
  <2> SUFFICES ASSUME Sound, OnceInv, [Next]_vars PROVE OnceInv'
    OBVIOUS
  <2>1. ASSUME NEW s \in Seqs, Publish(s) PROVE OnceInv'
    BY <2>1, RestOnce DEF Publish, rows, hist
  <2>2. CASE UNCHANGED vars
    BY <2>2, RestOnce DEF vars, rows, hist
  <2> QED BY <2>1, <2>2, OnceStep, RowOnce, CrashOnce DEF Next
<1>3. Sound /\ OnceInv => \A l \in Loops : Send(l) => Current(l) \notin mine
  BY SendsOnce
<1>4. Sound /\ OnceInv /\ [Next]_vars => [\A l \in Loops : Send(l) => Current(l) \notin mine]_vars
  BY <1>3
<1> QED BY <1>1, <1>2, <1>4, SoundAlways, PTL DEF Spec, OnceEach
=============================================================================
