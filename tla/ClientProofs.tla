---------------------------- MODULE ClientProofs ----------------------------
(* Theorems about Client: its types, a request is stored once, what publish
   returns is true, and what was acknowledged was handled, once and in order. *)
EXTENDS Client, SequenceTheorems, FiniteSetTheorems, TLAPS

USE ClientAssumption

(***************************************************************************)
(* Sequences, whatever they hold.                                          *)
(***************************************************************************)

IsSeq(x) == x \in Seq(Range(x))

LEMMA SeqIs ==
    ASSUME NEW S, NEW x \in Seq(S)
    PROVE  IsSeq(x) /\ Len(x) \in Nat /\ DOMAIN x = 1..Len(x)
<1>1. Len(x) \in Nat /\ x \in [1..Len(x) -> S] /\ DOMAIN x = 1..Len(x)
  BY LenProperties
<1>2. x \in [1..Len(x) -> Range(x)]
  BY <1>1 DEF Range
<1>3. x \in Seq(Range(x))
  BY <1>1, <1>2, SeqDef
<1> QED BY <1>1, <1>3 DEF IsSeq

LEMMA LenOf ==
    ASSUME NEW x, IsSeq(x)
    PROVE  Len(x) \in Nat /\ DOMAIN x = 1..Len(x) /\ (x # <<>> <=> Len(x) > 0)
<1>1. Len(x) \in Nat /\ DOMAIN x = 1..Len(x)
  BY SeqIs DEF IsSeq
<1>2. x # <<>> => Len(x) \in Nat \ {0}
  BY EmptySeq DEF IsSeq
<1>3. Len(<<>>) = 0
  BY EmptySeq
<1> QED BY <1>1, <1>2, <1>3

LEMMA AppendOf ==
    ASSUME NEW x, IsSeq(x), NEW e
    PROVE  /\ IsSeq(Append(x, e)) /\ Len(Append(x, e)) = Len(x) + 1
           /\ \A i \in 1..Len(x) : Append(x, e)[i] = x[i]
           /\ Append(x, e)[Len(x) + 1] = e
<1> DEFINE T == Range(x) \cup {e}
<1>1. x \in Seq(T)
  BY SeqMonotonic DEF IsSeq
<1>2. e \in T
  OBVIOUS
<1> HIDE DEF T
<1>3. /\ Append(x, e) \in Seq(T) /\ Len(Append(x, e)) = Len(x) + 1
      /\ \A i \in 1..Len(x) : Append(x, e)[i] = x[i]
      /\ Append(x, e)[Len(x) + 1] = e
  BY <1>1, <1>2
<1>4. IsSeq(Append(x, e))
  BY <1>3, SeqIs, Zenon
<1> QED BY <1>3, <1>4

LEMMA TailOf ==
    ASSUME NEW x, IsSeq(x), x # <<>>
    PROVE  /\ IsSeq(Tail(x)) /\ Len(Tail(x)) = Len(x) - 1 /\ Len(x) \in Nat \ {0}
           /\ \A i \in 1..Len(Tail(x)) : Tail(x)[i] = x[i + 1]
           /\ Head(x) = x[1]
<1>1. x \in Seq(Range(x))
  BY DEF IsSeq
<1> DEFINE T == Range(x)
<1> HIDE DEF T
<1>2. x \in Seq(T)
  BY <1>1 DEF T
<1>3. /\ Tail(x) \in Seq(T) /\ Len(Tail(x)) = Len(x) - 1
      /\ \A i \in 1..Len(Tail(x)) : Tail(x)[i] = x[i + 1]
  BY <1>2, HeadTailProperties, Zenon
<1>4. IsSeq(Tail(x))
  BY <1>3, SeqIs, Zenon
<1>5. Len(x) \in Nat \ {0}
  BY <1>2, EmptySeq
<1>6. Head(x) = x[1]
  BY <1>2
<1> QED BY <1>3, <1>4, <1>5, <1>6

LEMMA EmptyOf == IsSeq(<<>>) /\ Len(<<>>) = 0
BY EmptySeq, SeqIs

LEMMA OneOf == \A e : IsSeq(<<e>>) /\ Len(<<e>>) = 1 /\ <<e>>[1] = e
<1> SUFFICES ASSUME NEW e PROVE IsSeq(<<e>>) /\ Len(<<e>>) = 1 /\ <<e>>[1] = e
  OBVIOUS
<1>1. <<e>> \in Seq({e})
  OBVIOUS
<1> QED BY <1>1, SeqIs

LEMMA AppendRange ==
    ASSUME NEW x, IsSeq(x), NEW e
    PROVE  IsSeq(Append(x, e)) /\ Range(Append(x, e)) = Range(x) \cup {e}
<1>1. /\ Len(x) \in Nat /\ DOMAIN x = 1..Len(x) /\ IsSeq(Append(x, e))
      /\ DOMAIN Append(x, e) = 1..Len(x) + 1
      /\ \A i \in 1..Len(x) : Append(x, e)[i] = x[i]
      /\ Append(x, e)[Len(x) + 1] = e
  BY AppendOf, LenOf
<1>2. Range(Append(x, e)) \subseteq Range(x) \cup {e}
  <2> SUFFICES ASSUME NEW i \in 1..Len(x) + 1 PROVE Append(x, e)[i] \in Range(x) \cup {e}
    BY <1>1 DEF Range
  <2>1. i \in 1..Len(x) \/ i = Len(x) + 1
    BY <1>1
  <2> QED BY <1>1, <2>1 DEF Range
<1>3. Range(x) \subseteq Range(Append(x, e))
  <2> SUFFICES ASSUME NEW i \in 1..Len(x) PROVE x[i] \in Range(Append(x, e))
    BY <1>1 DEF Range
  <2>1. i \in 1..Len(x) + 1
    BY <1>1
  <2> QED BY <1>1, <2>1 DEF Range
<1>4. e \in Range(Append(x, e))
  <2>1. Len(x) + 1 \in 1..Len(x) + 1
    BY <1>1
  <2> QED BY <1>1, <2>1 DEF Range
<1> QED BY <1>1, <1>2, <1>3, <1>4

LEMMA TailRange ==
    ASSUME NEW x, IsSeq(x), x # <<>>
    PROVE  IsSeq(Tail(x)) /\ Head(x) \in Range(x) /\ Range(Tail(x)) \subseteq Range(x)
<1>1. /\ IsSeq(Tail(x)) /\ Len(Tail(x)) = Len(x) - 1 /\ Len(x) \in Nat \ {0}
      /\ \A i \in 1..Len(Tail(x)) : Tail(x)[i] = x[i + 1]
      /\ Head(x) = x[1] /\ DOMAIN x = 1..Len(x) /\ DOMAIN Tail(x) = 1..Len(Tail(x))
  BY TailOf, LenOf
<1>2. 1 \in 1..Len(x) /\ \A i \in 1..Len(Tail(x)) : i + 1 \in 1..Len(x)
  BY <1>1
<1> QED BY <1>1, <1>2 DEF Range

LEMMA EmptyRange == IsSeq(<<>>) /\ Range(<<>>) = {}
<1>1. DOMAIN <<>> = 1..0
  BY EmptyOf, LenOf
<1> QED BY <1>1, EmptyOf DEF Range

LEMMA OneRange == \A e : IsSeq(<<e>>) /\ Range(<<e>>) = {e}
<1> SUFFICES ASSUME NEW e PROVE IsSeq(<<e>>) /\ Range(<<e>>) = {e}
  OBVIOUS
<1>1. IsSeq(<<e>>) /\ DOMAIN <<e>> = 1..1 /\ <<e>>[1] = e
  BY OneOf, LenOf
<1> QED BY <1>1 DEF Range

(***************************************************************************)
(* The parts of the state that the arguments need.                         *)
(***************************************************************************)

Outcomes == {"idle", "waiting", "done", "refused", "full", "timed out", "dead"}

LogShape ==
    /\ IsSeq(author) /\ cursor \in 0..Len(author) /\ sent \in 0..Len(author)
    /\ owed \subseteq Stored(None)

\* An acknowledgement on its way is of what was handled, or passed over.
WireShape ==
    /\ IsSeq(up) /\ IsSeq(down)
    /\ \A f \in Range(up) : f.type = "ack" => f.of \in 1..handled
    /\ \A f \in Range(down) : f.type = "message" => f.seq \in 1..Len(author)

CallShape ==
    /\ call \in [Requests -> Outcomes]
    /\ result = [r \in Requests |-> result[r]]

WorkShape ==
    /\ IsSeq(inbox) /\ IsSeq(runs)
    /\ Range(inbox) \subseteq 1..Len(author) /\ Range(runs) \subseteq 1..Len(author)
    /\ handled \in 0..Len(author) /\ acks \in 0..handled
    /\ handler.at = "handling" => handler.seq \in handled + 1..Len(author)

Shape == LogShape /\ WireShape /\ CallShape /\ WorkShape

LEMMA StoredIn == \A r : Stored(r) \subseteq 1..Len(author)
BY DEF Stored

\* The log grows at its end.
LEMMA Grown ==
    ASSUME IsSeq(author), NEW r, author' = Append(author, r)
    PROVE  /\ IsSeq(author') /\ Len(author) \in Nat /\ Len(author') = Len(author) + 1
           /\ \A q : Stored(q) \subseteq Stored(q)'
           /\ \A q : q # r => Stored(q)' = Stored(q)
           /\ Stored(r)' = Stored(r) \cup {Len(author')}
           /\ 1..Len(author) \subseteq 1..Len(author')
<1>1. /\ IsSeq(author') /\ Len(author) \in Nat /\ Len(author') = Len(author) + 1
      /\ \A i \in 1..Len(author) : author'[i] = author[i]
      /\ author'[Len(author')] = r
  BY AppendOf, LenOf
<1>2. 1..Len(author') = 1..Len(author) \cup {Len(author')}
  BY <1>1
<1>3. ASSUME NEW q PROVE Stored(q)' = Stored(q) \cup (IF q = r THEN {Len(author')} ELSE {})
  BY <1>1, <1>2 DEF Stored
<1> QED BY <1>1, <1>2, <1>3

LEMMA SendsOf ==
    ASSUME IsSeq(up), NEW f, Sends(f)
    PROVE  IsSeq(up') /\ Range(up') \subseteq Range(up) \cup {f}
BY AppendRange DEF Sends

LEMMA FrameOf ==
    \A t, o, q : Frame(t, o, q).type = t /\ Frame(t, o, q).of = o /\ Frame(t, o, q).seq = q
BY DEF Frame

\* What the relay does keeps the shape ...
LEMMA RelayShape ==
    ASSUME Shape, Post \/ Relay \/ Leave \/ JoinNow \/ JoinFromStart
    PROVE  Shape'
<1>t. /\ LogShape /\ WireShape /\ CallShape /\ WorkShape
      /\ Len(author) \in Nat /\ IsSeq(author) /\ IsSeq(up) /\ IsSeq(down)
      /\ up # <<>> => /\ Head(up) \in Range(up) /\ IsSeq(Tail(up))
                      /\ Range(Tail(up)) \subseteq Range(up)
  BY LenOf, TailRange DEF Shape, LogShape, WireShape
<1>1. CASE Post
  <2>1. /\ author' = Append(author, None)
        /\ owed' = IF member THEN owed \cup {Len(author')} ELSE owed
        /\ UNCHANGED <<member, cursor, sent, wire, link, calls, work, acks>>
    BY <1>1 DEF Post
  <2>2. LogShape'
    BY <1>t, <2>1, Grown DEF LogShape
  <2>3. WireShape' /\ WorkShape' /\ CallShape'
    BY <1>t, <2>1, Grown DEF WireShape, WorkShape, CallShape, wire, calls, work
  <2> QED BY <2>2, <2>3 DEF Shape
<1>2. CASE Deliver
  <2>1. PICK q \in Stored(None) :
          /\ sent' = q /\ down' = Append(down, Frame("message", None, q)) /\ member
          /\ UNCHANGED <<author, member, cursor, up, owed, link, calls, work, acks>>
    BY <1>2 DEF Deliver
  <2>2. LogShape'
    BY <1>t, <2>1, StoredIn DEF LogShape, Stored
  <2>3. WireShape'
    <3>1. IsSeq(down') /\ Range(down') = Range(down) \cup {Frame("message", None, q)}
      BY <1>t, <2>1, AppendRange
    <3> QED BY <1>t, <2>1, <3>1, StoredIn, FrameOf DEF WireShape, work
  <2> QED BY <1>t, <2>1, <2>2, <2>3 DEF WorkShape, CallShape, calls, work, Shape
<1>3. CASE OnPublish
  <2> DEFINE r == Head(up).of
  <2>1. /\ up # <<>> /\ up' = Tail(up)
        /\ author' \in {author, Append(author, r)}
        /\ UNCHANGED <<member, cursor, sent, link, calls, work, acks, owed>>
    BY <1>3 DEF OnPublish
  <2>2. \E f : down' = Append(down, f) /\ f.type # "message"
    <3>1. \A t, o, q : t # "message" => Frame(t, o, q).type # "message"
      BY FrameOf
    <3> QED BY <1>3, <3>1 DEF OnPublish
  <2>3. IsSeq(down') /\ \A f \in Range(down') : f.type = "message" => f \in Range(down)
    BY <1>t, <2>2, AppendRange
  <2>4. IsSeq(author') /\ 1..Len(author) \subseteq 1..Len(author') /\ Len(author') >= Len(author)
        /\ Len(author') \in Nat /\ \A q : Stored(q) \subseteq Stored(q)'
    BY <1>t, <2>1, Grown DEF Stored
  <2>5. LogShape'
    BY <1>t, <2>1, <2>4 DEF LogShape
  <2>6. WireShape'
    BY <1>t, <2>1, <2>3, <2>4 DEF WireShape, work
  <2>7. WorkShape' /\ CallShape'
    BY <1>t, <2>1, <2>4 DEF WorkShape, CallShape, work, calls
  <2> QED BY <2>5, <2>6, <2>7 DEF Shape
<1>4. CASE OnAck
  <2>1. /\ up # <<>> /\ Head(up).type = "ack" /\ up' = Tail(up)
        /\ cursor' = IF member THEN Larger(cursor, Head(up).of) ELSE cursor
        /\ UNCHANGED <<author, member, sent, down, link, calls, work, acks, owed>>
    BY <1>4 DEF OnAck
  <2>2. Head(up).of \in 1..handled /\ handled \in 0..Len(author)
    BY <1>t, <2>1 DEF WireShape, WorkShape
  <2>3. LogShape'
    BY <1>t, <2>1, <2>2 DEF LogShape, Larger, Stored
  <2> QED BY <1>t, <2>1, <2>3 DEF WireShape, WorkShape, CallShape, calls, work, Shape
<1>5. CASE Leave
  BY <1>5, <1>t DEF Leave, Shape, LogShape, WireShape, WorkShape, CallShape, calls, work, wire
<1>f. CASE Forget
  BY <1>f, <1>t DEF Forget, Shape, LogShape, WireShape, WorkShape, CallShape, Stored, calls, work, wire
<1>6. CASE JoinNow \/ JoinFromStart
  <2>1. PICK from \in {0, Len(author)} : Join(from)
    BY <1>6 DEF JoinNow, JoinFromStart
  <2>2. LogShape'
    BY <1>t, <2>1 DEF Join, LogShape, Stored
  <2> QED BY <1>t, <2>1, <2>2 DEF Join, WireShape, WorkShape, CallShape, calls, work, wire, Shape
<1> QED BY <1>1, <1>2, <1>3, <1>4, <1>5, <1>6, <1>f DEF Relay

\* ... and so does what happens to the connection, and the calls of publish ...
LEMMA LinkShape ==
    ASSUME Shape, \/ Connect \/ Break \/ Notice \/ Crash \/ Calls
                  \/ \E r \in Requests : TimeOut(r)
    PROVE  Shape'
<1>t. /\ LogShape /\ WireShape /\ CallShape /\ WorkShape
      /\ Len(author) \in Nat /\ IsSeq(author) /\ IsSeq(up) /\ IsSeq(down)
  BY LenOf DEF Shape, LogShape, WireShape
<1>1. CASE Connect
  <2>1. /\ up' = <<>> /\ down' = <<Frame("welcome", None, 0)>> /\ sent' = 0
        /\ UNCHANGED <<author, member, cursor, calls, work, acks, owed>>
    BY <1>1 DEF Connect
  <2>2. WireShape'
    BY <2>1, EmptyRange, OneRange, FrameOf DEF WireShape
  <2>3. LogShape'
    BY <1>t, <2>1 DEF LogShape, Stored
  <2> QED BY <1>t, <2>1, <2>2, <2>3 DEF WorkShape, CallShape, calls, work, Shape
<1>2. CASE Break
  BY <1>2, <1>t, EmptyRange DEF Break, Shape, LogShape, WireShape, WorkShape, CallShape, Stored,
     relay, calls, work
<1>3. CASE Notice
  BY <1>3, <1>t DEF Notice, Shape, LogShape, WireShape, WorkShape, CallShape, Stored,
     relay, calls, work, wire
<1>4. CASE Crash
  <2>1. /\ up' = <<>> /\ down' = <<>> /\ inbox' = <<>> /\ runs' = <<>> /\ handled' = 0 /\ acks' = 0
        /\ call' = [r \in Requests |-> IF call[r] = "waiting" THEN "dead" ELSE call[r]]
        /\ handler' = Idle
        /\ UNCHANGED <<relay, result, owed>>
    BY <1>4 DEF Crash
  <2>2. WireShape' /\ WorkShape'
    BY <1>t, <2>1, EmptyRange DEF WireShape, WorkShape, Idle, relay
  <2>3. CallShape'
    BY <1>t, <2>1 DEF CallShape, Outcomes
  <2> QED BY <1>t, <2>1, <2>2, <2>3 DEF LogShape, relay, Stored, Shape
<1>5. CASE Calls
  <2>1. PICK r \in Requests : Call(r)
    BY <1>5 DEF Calls
  <2>2. /\ call' \in {[call EXCEPT ![r] = "full"], [call EXCEPT ![r] = "waiting"]}
        /\ up' = up \/ Sends(Publish_(r))
        /\ UNCHANGED <<relay, down, result, work, acks, owed>>
    BY <2>1 DEF Call
  <2>3. CallShape'
    BY <1>t, <2>2 DEF CallShape, Outcomes
  <2>4. IsSeq(up') /\ Range(up') \subseteq Range(up) \cup {Publish_(r)}
    BY <1>t, <2>2, SendsOf
  <2>5. Publish_(r).type # "ack"
    BY DEF Publish_
  <2>6. WireShape'
    BY <1>t, <2>2, <2>4, <2>5 DEF WireShape, relay, work
  <2> QED BY <1>t, <2>2, <2>3, <2>6 DEF LogShape, WorkShape, relay, work, Stored, Shape
<1>6. ASSUME NEW r \in Requests, TimeOut(r) PROVE Shape'
  <2>1. /\ call' = [call EXCEPT ![r] = "timed out"] /\ UNCHANGED <<relay, wire, result, work, acks, owed>>
    BY <1>6 DEF TimeOut
  <2>2. CallShape'
    BY <1>t, <2>1 DEF CallShape, Outcomes
  <2> QED BY <1>t, <2>1, <2>2 DEF LogShape, WireShape, WorkShape, relay, wire, work, Stored, Shape
<1> QED BY <1>1, <1>2, <1>3, <1>4, <1>5, <1>6

\* What is acknowledged is kept in acks and sent.
LEMMA AcknowledgeOf ==
    ASSUME WorkShape, WireShape, NEW q \in 1..Len(author), NEW top \in q..Len(author), acks <= top,
           Len(author) \in Nat, Acknowledge(q)
    PROVE  /\ acks' \in 1..top /\ acks' \in {q, acks} /\ q <= acks' /\ acks <= acks'
           /\ handler'.at # "handling" /\ IsSeq(up')
           /\ Range(up') \subseteq Range(up) \cup {Ack_(acks')}
<1>1. acks' = Larger(q, acks) /\ acks \in 0..handled /\ handled \in 0..Len(author)
  BY DEF Acknowledge, WorkShape
<1>2. acks' \in 1..top /\ acks' \in {q, acks} /\ q <= acks' /\ acks <= acks'
  BY <1>1 DEF Larger
<1>3. up' = up \/ Sends(Ack_(acks'))
  BY <1>1 DEF Acknowledge
<1>4. IsSeq(up') /\ Range(up') \subseteq Range(up) \cup {Ack_(acks')}
  BY <1>3, SendsOf DEF WireShape
<1>5. handler'.at # "handling"
  BY DEF Acknowledge, Idle
<1> QED BY <1>2, <1>4, <1>5

\* ... and the client's tasks.
LEMMA TaskShape ==
    ASSUME Shape, Reader \/ Handler
    PROVE  Shape'
<1>t. /\ LogShape /\ WireShape /\ CallShape /\ WorkShape
      /\ Len(author) \in Nat /\ IsSeq(author) /\ IsSeq(up) /\ IsSeq(down) /\ IsSeq(inbox) /\ IsSeq(runs)
      /\ handled \in 0..Len(author) /\ acks \in 0..handled
      /\ Range(inbox) \subseteq 1..Len(author)
  BY LenOf DEF Shape, LogShape, WireShape, WorkShape
<1>i. inbox # <<>> => /\ Head(inbox) \in 1..Len(author) /\ IsSeq(Tail(inbox))
                      /\ Range(Tail(inbox)) \subseteq 1..Len(author)
  BY <1>t, TailRange
<1>1. CASE Dispatch
  <2> DEFINE f == Head(down)
  <2>1. /\ down # <<>> /\ down' = Tail(down)
        /\ UNCHANGED <<relay, up, handler, handled, runs, acks, owed>>
    BY <1>1 DEF Dispatch
  <2>2. f \in Range(down) /\ IsSeq(down') /\ Range(down') \subseteq Range(down)
    BY <1>t, <2>1, TailRange
  <2>3. CallShape'
    <3>1. CASE UNCHANGED calls
      BY <3>1, <1>t DEF CallShape, calls
    <3>2. ASSUME NEW r, NEW how \in Outcomes, NEW q, Settle(r, how, q) PROVE CallShape'
      <4>1. call' \in {call, [call EXCEPT ![r] = how]} /\ result' \in {result, [result EXCEPT ![r] = q]}
        BY <3>2 DEF Settle
      <4> QED BY <1>t, <4>1 DEF CallShape
    <3> QED BY <1>1, <3>1, <3>2 DEF Dispatch, Outcomes
  <2>4. IsSeq(inbox') /\ Range(inbox') \subseteq 1..Len(author)
    <3>1. CASE inbox' = Append(inbox, f.seq) /\ f.type = "message"
      BY <1>t, <2>2, <3>1, AppendRange DEF WireShape
    <3>2. CASE inbox' = inbox
      BY <1>t, <3>2
    <3> QED BY <1>1, <3>1, <3>2 DEF Dispatch
  <2>5. WireShape' /\ WorkShape'
    BY <1>t, <2>1, <2>2, <2>4 DEF WireShape, WorkShape, relay
  <2> QED BY <1>t, <2>1, <2>3, <2>5 DEF LogShape, relay, Stored, Shape
<1>2. CASE Flush
  <2>1. UNCHANGED <<relay, down, calls, work, acks, owed>>
    BY <1>2 DEF Flush
  <2>2. up' = up \/ (\E r : Sends(Publish_(r))) \/ (Sends(Ack_(acks)) /\ acks # 0)
    BY <1>2 DEF Flush
  <2>3. (\A r : Publish_(r).type # "ack") /\ Ack_(acks).of = acks
    BY DEF Publish_, Ack_
  <2>4. IsSeq(up') /\ \A f \in Range(up') : f.type = "ack" => f.of \in 1..handled
    <3>1. CASE up' = up
      BY <1>t, <3>1 DEF WireShape
    <3>2. ASSUME NEW r, Sends(Publish_(r))
          PROVE  IsSeq(up') /\ \A f \in Range(up') : f.type = "ack" => f.of \in 1..handled
      BY <1>t, <2>3, <3>2, SendsOf DEF WireShape
    <3>3. CASE Sends(Ack_(acks)) /\ acks # 0
      BY <1>t, <2>3, <3>3, SendsOf DEF WireShape
    <3> QED BY <2>2, <3>1, <3>2, <3>3
  <2> QED BY <1>t, <2>1, <2>4 DEF LogShape, WireShape, WorkShape, CallShape, relay, work, calls,
                                  Stored, Shape
<1>3. CASE Flushed
  <2>1. acks' \in {0, acks} /\ UNCHANGED <<relay, wire, calls, work, owed>>
    BY <1>3 DEF Flushed
  <2> QED BY <1>t, <2>1 DEF LogShape, WireShape, WorkShape, CallShape, relay, wire, work, calls,
                            Stored, Shape
<1>4. CASE Handle
  <2> DEFINE q == Head(inbox)
  <2>1. /\ inbox # <<>> /\ inbox' = Tail(inbox) /\ q > handled
        /\ handler' = [at |-> "handling", seq |-> q, ack |-> 0] /\ runs' = Append(runs, q)
        /\ UNCHANGED <<relay, wire, calls, handled, acks, owed>>
    BY <1>4 DEF Handle
  <2>2. IsSeq(runs') /\ Range(runs') = Range(runs) \cup {q}
    BY <1>t, <2>1, AppendRange
  <2>3. handler'.seq \in handled + 1..Len(author)
    BY <1>t, <1>i, <2>1
  <2>4. WorkShape'
    BY <1>t, <1>i, <2>1, <2>2, <2>3 DEF WorkShape, relay
  <2> QED BY <1>t, <2>1, <2>4 DEF LogShape, WireShape, CallShape, relay, wire, calls, Stored, Shape
<1>5. CASE PassOver
  <2> DEFINE q == Head(inbox)
  <2>1. /\ inbox # <<>> /\ inbox' = Tail(inbox) /\ q <= handled /\ Acknowledge(q)
        /\ UNCHANGED <<relay, down, calls, handled, runs, owed>>
    BY <1>5 DEF PassOver
  <2>2. /\ acks' \in 1..handled /\ handler'.at # "handling" /\ IsSeq(up')
        /\ Range(up') \subseteq Range(up) \cup {Ack_(acks')}
    <3>1. q \in 1..Len(author) /\ handled \in q..Len(author) /\ acks <= handled
      BY <1>t, <1>i, <2>1
    <3> HIDE DEF q
    <3> QED BY <1>t, <2>1, <3>1, AcknowledgeOf
  <2>3. WireShape'
    BY <1>t, <2>1, <2>2 DEF WireShape, Ack_, relay
  <2>4. WorkShape'
    BY <1>t, <1>i, <2>1, <2>2 DEF WorkShape, relay
  <2> QED BY <1>t, <2>1, <2>3, <2>4 DEF LogShape, CallShape, relay, calls, Stored, Shape
<1>6. CASE Return
  <2> DEFINE q == handler.seq
  <2>1. /\ handler.at = "handling" /\ handled' = q /\ Acknowledge(q)
        /\ UNCHANGED <<relay, down, calls, inbox, runs, owed>>
    BY <1>6 DEF Return
  <2>2. q \in 1..Len(author) /\ q \in q..Len(author) /\ acks <= q /\ handled < q
    BY <1>t, <2>1 DEF WorkShape
  <2>3. /\ acks' \in 1..q /\ handler'.at # "handling" /\ IsSeq(up')
        /\ Range(up') \subseteq Range(up) \cup {Ack_(acks')}
    <3> HIDE DEF q
    <3> QED BY <1>t, <2>1, <2>2, AcknowledgeOf
  <2>4. \A n \in 1..handled : n \in 1..q
    BY <1>t, <2>2
  <2>5. WireShape'
    BY <1>t, <2>1, <2>3, <2>4 DEF WireShape, Ack_, relay
  <2>6. WorkShape'
    BY <1>t, <2>1, <2>2, <2>3 DEF WorkShape, relay
  <2> QED BY <1>t, <2>1, <2>5, <2>6 DEF LogShape, CallShape, relay, calls, Stored, Shape
<1>7. CASE Acknowledged
  <2>1. acks' \in {0, acks} /\ handler' = Idle
        /\ UNCHANGED <<relay, wire, calls, inbox, handled, runs, owed>>
    BY <1>7 DEF Acknowledged
  <2> QED BY <1>t, <2>1 DEF LogShape, WireShape, WorkShape, CallShape, relay, wire, calls, Idle,
                            Stored, Shape
<1> QED BY <1>1, <1>2, <1>3, <1>4, <1>5, <1>6, <1>7 DEF Reader, Handler

LEMMA ShapeStep == Shape /\ [Next]_vars => Shape'
<1>1. Shape /\ UNCHANGED vars => Shape'
  BY DEF vars, relay, wire, calls, work, Shape, LogShape, WireShape, CallShape, WorkShape, Stored
<1> QED BY <1>1, RelayShape, LinkShape, TaskShape DEF Next

LEMMA ShapeInit == Init => Shape
<1> SUFFICES ASSUME Init PROVE Shape
  OBVIOUS
<1>1. LogShape /\ WireShape /\ WorkShape
  BY EmptyRange, EmptyOf DEF Init, LogShape, WireShape, WorkShape, Idle
<1>2. CallShape
  BY DEF Init, CallShape, Outcomes
<1> QED BY <1>1, <1>2 DEF Shape

LEMMA ShapeAlways == Spec => []Shape
BY ShapeInit, ShapeStep, PTL DEF Spec

(***************************************************************************)
(* A request is stored once.                                               *)
(***************************************************************************)

Once == \A r : r # None => \A i, j \in Stored(r) : i = j

\* What a step does to the log.
LEMMA LogStep ==
    ASSUME [Next]_vars
    PROVE  \/ UNCHANGED author
           \/ \E r : author' = Append(author, r) /\ (r = None \/ Stored(r) = {})
<1>1. Relay => \/ UNCHANGED author
               \/ \E r : author' = Append(author, r) /\ Stored(r) = {}
  BY DEF Relay, Deliver, Forget, OnPublish, OnAck
<1>2. Post => author' = Append(author, None)
  BY DEF Post
<1>3. Leave \/ JoinNow \/ JoinFromStart => UNCHANGED author
  BY DEF Leave, JoinNow, JoinFromStart, Join
<1>4. Connect \/ Break \/ Notice \/ Crash => UNCHANGED author
  BY DEF Connect, Break, Notice, Crash, relay
<1>5. Calls \/ (\E r \in Requests : TimeOut(r)) => UNCHANGED author
  BY DEF Calls, Call, TimeOut, relay
<1>6. Reader \/ Handler => UNCHANGED author
  BY DEF Reader, Dispatch, Flush, Flushed, Handler, Handle, PassOver, Return, Acknowledged, relay
<1>7. UNCHANGED vars => UNCHANGED author
  BY DEF vars, relay
<1> QED BY <1>1, <1>2, <1>3, <1>4, <1>5, <1>6, <1>7 DEF Next

LEMMA OnceStep == Shape /\ Once /\ [Next]_vars => Once'
<1> SUFFICES ASSUME Shape, Once, [Next]_vars PROVE Once'
  OBVIOUS
<1>1. CASE UNCHANGED author
  BY <1>1 DEF Once, Stored
<1>2. ASSUME NEW r, author' = Append(author, r), r = None \/ Stored(r) = {} PROVE Once'
  <2>1. /\ \A q : q # r => Stored(q)' = Stored(q)
        /\ Stored(r)' = Stored(r) \cup {Len(author')}
    BY <1>2, Grown DEF Shape, LogShape
  <2> SUFFICES ASSUME NEW q, q # None, NEW i \in Stored(q)', NEW j \in Stored(q)' PROVE i = j
    BY DEF Once
  <2> QED BY <1>2, <2>1 DEF Once
<1> QED BY <1>1, <1>2, LogStep

LEMMA OnceInit == Init => Once
BY EmptyOf DEF Init, Once, Stored

LEMMA OnceIs == Once => StoredOnce
<1> SUFFICES ASSUME Once, NEW r \in Requests PROVE Cardinality(Stored(r)) <= 1
  BY DEF StoredOnce
<1>1. CASE Stored(r) = {}
  BY <1>1, FS_EmptySet
<1>2. ASSUME NEW q \in Stored(r) PROVE Cardinality(Stored(r)) <= 1
  <2>1. Stored(r) = {q}
    BY <1>2 DEF Once
  <2>2. Cardinality({q}) = 1
    BY FS_Singleton
  <2> QED BY <2>1, <2>2
<1> QED BY <1>1, <1>2

\* However often a request is sent, and over however many connections, after
\* time-outs, a crash or leaving the channel, the channel has it once: append
\* finds its client_msg_id.
THEOREM StoredOnceAlways == Spec => []StoredOnce
BY ShapeAlways, OnceInit, OnceStep, OnceIs, PTL DEF Spec

(***************************************************************************)
(* What publish returns is true.                                           *)
(***************************************************************************)

Told == \A f \in Range(down) : f.type = "published" => f.seq \in Stored(f.of)

LEMMA StoredStays ==
    ASSUME Shape, [Next]_vars
    PROVE  \A r : Stored(r) \subseteq Stored(r)'
<1>1. CASE UNCHANGED author
  BY <1>1 DEF Stored
<1>2. ASSUME NEW r, author' = Append(author, r) PROVE \A q : Stored(q) \subseteq Stored(q)'
  BY <1>2, Grown DEF Shape, LogShape
<1> QED BY <1>1, <1>2, LogStep

\* What a step adds to what is on its way to the client.
Answers(r) ==
    {Frame("error", r, 0)} \cup {Frame("published", r, q) : q \in Stored(r)}

LEMMA DownStep ==
    ASSUME Shape, [Next]_vars
    PROVE  /\ IsSeq(down')
           /\ \A f \in Range(down') :
                 \/ f \in Range(down)
                 \/ f = Frame("welcome", None, 0)
                 \/ \E q \in Stored(None) : f = Frame("message", None, q)
                 \/ \E g \in Range(up) : g.type = "publish" /\ f \in Answers(g.of)'
<1>d. IsSeq(down) /\ IsSeq(author) /\ IsSeq(up)
  BY DEF Shape, WireShape, LogShape
<1>1. CASE Deliver
  <2>1. PICK q \in Stored(None) : down' = Append(down, Frame("message", None, q))
    BY <1>1 DEF Deliver
  <2> QED BY <1>d, <2>1, AppendRange
<1>2. CASE OnPublish
  <2>1. PICK g \in Range(up) : g = Head(up) /\ g.type = "publish"
    BY <1>d, <1>2, TailRange DEF OnPublish
  <2>2. PICK f : f \in Answers(g.of)' /\ down' = Append(down, f)
    <3>1. CASE down' = Append(down, Frame("error", g.of, 0))
      BY <3>1 DEF Answers
    <3>2. CASE author' = Append(author, g.of) /\ down' = Append(down, Frame("published", g.of, Len(author')))
      <4>1. Len(author') \in Stored(g.of)'
        BY <1>d, <3>2, Grown
      <4>2. Frame("published", g.of, Len(author')) \in Answers(g.of)'
        BY <4>1 DEF Answers, Frame
      <4> QED BY <3>2, <4>2
    <3>3. ASSUME NEW q \in Stored(g.of), down' = Append(down, Frame("published", g.of, q))
          PROVE  \E f : f \in Answers(g.of)' /\ down' = Append(down, f)
      <4>1. q \in Stored(g.of)'
        BY StoredStays
      <4>2. Frame("published", g.of, q) \in Answers(g.of)'
        BY <4>1 DEF Answers, Frame
      <4> QED BY <3>3, <4>2
    <3> QED BY <1>2, <2>1, <3>1, <3>2, <3>3 DEF OnPublish
  <2>3. IsSeq(down') /\ Range(down') = Range(down) \cup {f}
    BY <1>d, <2>2, AppendRange
  <2> QED BY <2>1, <2>2, <2>3
<1>3. CASE Connect
  <2>1. down' = <<Frame("welcome", None, 0)>>
    BY <1>3 DEF Connect
  <2> QED BY <2>1, OneRange
<1>4. CASE Break \/ Crash
  <2>1. down' = <<>>
    BY <1>4 DEF Break, Crash
  <2> QED BY <2>1, EmptyRange
<1>5. CASE Dispatch
  <2>1. down # <<>> /\ down' = Tail(down)
    BY <1>5 DEF Dispatch
  <2> QED BY <1>d, <2>1, TailRange
<1>6. CASE UNCHANGED down
  BY <1>d, <1>6
<1>7. Post \/ Forget \/ OnAck \/ Leave \/ JoinNow \/ JoinFromStart \/ Notice => UNCHANGED down
  BY DEF Post, Forget, OnAck, Leave, JoinNow, JoinFromStart, Join, Notice, wire
<1>8. Calls \/ (\E r \in Requests : TimeOut(r)) \/ Flush \/ Flushed => UNCHANGED down
  BY DEF Calls, Call, TimeOut, Flush, Flushed, wire
<1>9. Handler \/ UNCHANGED vars => UNCHANGED down
  BY DEF Handler, Handle, PassOver, Return, Acknowledged, vars, wire
<1> QED BY <1>1, <1>2, <1>3, <1>4, <1>5, <1>6, <1>7, <1>8, <1>9 DEF Next, Relay, Reader

LEMMA ToldStep == Shape /\ Told /\ [Next]_vars => Told'
<1> SUFFICES ASSUME Shape, Told, [Next]_vars,
                    NEW f \in Range(down'), f.type = "published"
             PROVE  f.seq \in Stored(f.of)'
  BY DEF Told
<1>1. CASE f \in Range(down)
  BY <1>1, StoredStays DEF Told
<1>2. ASSUME NEW r, f \in Answers(r)' PROVE f.seq \in Stored(f.of)'
  <2>1. \/ f = Frame("error", r, 0)
        \/ \E q \in Stored(r)' : f = Frame("published", r, q)
    BY <1>2 DEF Answers, Frame
  <2>2. ASSUME NEW q \in Stored(r)', f = Frame("published", r, q) PROVE f.seq \in Stored(f.of)'
    <3>1. f.seq = q /\ f.of = r
      BY <2>2, FrameOf
    <3> QED BY <2>2, <3>1
  <2> QED BY <2>1, <2>2, FrameOf
<1> QED BY <1>1, <1>2, DownStep, FrameOf

\* What a step does to a call.
LEMMA CallStep ==
    ASSUME Shape, [Next]_vars, NEW r \in Requests, call'[r] = "done"
    PROVE  \/ call[r] = "done" /\ result'[r] = result[r]
           \/ \E f \in Range(down) : f.type = "published" /\ f.of = r /\ result'[r] = f.seq
<1>t. call \in [Requests -> Outcomes] /\ result = [x \in Requests |-> result[x]] /\ IsSeq(down)
  BY DEF Shape, CallShape, WireShape
<1>1. CASE UNCHANGED <<call, result>>
  BY <1>1
<1>2. CASE Calls
  <2>1. PICK x \in Requests : call' \in {[call EXCEPT ![x] = "full"], [call EXCEPT ![x] = "waiting"]}
    BY <1>2 DEF Calls, Call
  <2>2. result' = result
    BY <1>2 DEF Calls, Call
  <2> QED BY <1>t, <2>1, <2>2
<1>3. ASSUME NEW x \in Requests, TimeOut(x) PROVE call[r] = "done" /\ result'[r] = result[r]
  <2>1. call' = [call EXCEPT ![x] = "timed out"] /\ result' = result
    BY <1>3 DEF TimeOut
  <2> QED BY <1>t, <2>1
<1>4. CASE Crash
  <2>1. call' = [x \in Requests |-> IF call[x] = "waiting" THEN "dead" ELSE call[x]] /\ result' = result
    BY <1>4 DEF Crash
  <2> QED BY <1>t, <2>1
<1>5. CASE Dispatch
  <2> DEFINE f == Head(down)
  <2>1. f \in Range(down)
    BY <1>5, <1>t, TailRange DEF Dispatch
  <2>2. \/ UNCHANGED <<call, result>>
        \/ f.type = "published" /\ Settle(f.of, "done", f.seq)
        \/ Settle(f.of, "refused", 0)
    BY <1>5 DEF Dispatch, calls
  <2>3. ASSUME NEW x, NEW how, NEW q, Settle(x, how, q), call[r] # "done" \/ result'[r] # result[r]
        PROVE  x = r /\ how = "done" /\ result'[r] = q
    <3>1. CASE UNCHANGED <<call, result>>
      BY <2>3, <3>1
    <3>2. CASE call' = [call EXCEPT ![x] = how] /\ result' = [result EXCEPT ![x] = q] /\ call[x] = "waiting"
      BY <1>t, <2>3, <3>2
    <3> QED BY <2>3, <3>1, <3>2 DEF Settle
  <2> QED BY <1>1, <2>1, <2>2, <2>3
<1>6. Post \/ Relay \/ Leave \/ JoinNow \/ JoinFromStart => UNCHANGED <<call, result>>
  BY DEF Post, Relay, Deliver, Forget, OnPublish, OnAck, Leave, JoinNow, JoinFromStart, Join, calls
<1>7. Connect \/ Break \/ Notice \/ Flush \/ Flushed => UNCHANGED <<call, result>>
  BY DEF Connect, Break, Notice, Flush, Flushed, calls
<1>8. Handler \/ UNCHANGED vars => UNCHANGED <<call, result>>
  BY DEF Handler, Handle, PassOver, Return, Acknowledged, vars, calls
<1> QED BY <1>1, <1>2, <1>3, <1>4, <1>5, <1>6, <1>7, <1>8 DEF Next, Reader

LEMMA ConfirmedStep == Shape /\ Told /\ Confirmed /\ [Next]_vars => Confirmed'
<1> SUFFICES ASSUME Shape, Told, Confirmed, [Next]_vars, NEW r \in Requests, call'[r] = "done"
             PROVE  result'[r] \in Stored(r)'
  BY DEF Confirmed
<1> QED BY CallStep, StoredStays DEF Told, Confirmed

LEMMA ConfirmedInit == Init => Told /\ Confirmed
BY EmptyRange DEF Init, Told, Confirmed

\* publish returns the seq of a message that the channel has, of the request it
\* was called with: also when the confirmation is of a resend, and when what it
\* confirms was sent over an earlier connection.
THEOREM ConfirmedAlways == Spec => []Confirmed
BY ShapeAlways, ConfirmedInit, ConfirmedStep, ToldStep, PTL DEF Spec

(***************************************************************************)
(* A process handles a message once, and in order.                         *)
(***************************************************************************)

Top == IF handler.at = "handling" THEN handler.seq ELSE handled

InOrder ==
    /\ \A i, j \in 1..Len(runs) : i < j => runs[i] < runs[j]
    /\ \A i \in 1..Len(runs) : runs[i] <= Top

LEMMA InOrderStep == Shape /\ InOrder /\ [Next]_vars => InOrder'
<1> SUFFICES ASSUME Shape, InOrder, [Next]_vars PROVE InOrder'
  OBVIOUS
<1>t. /\ IsSeq(runs) /\ Len(runs) \in Nat /\ Len(author) \in Nat
      /\ \A i \in 1..Len(runs) : runs[i] \in 1..Len(author)
      /\ handled \in 0..Len(author)
      /\ handler.at = "handling" => handler.seq \in handled + 1..Len(author)
  BY LenOf DEF Shape, WorkShape, LogShape, Range
<1>1. CASE Handle
  <2> DEFINE q == Head(inbox)
  <2>1. /\ handler.at = "idle" /\ q > handled /\ inbox # <<>>
        /\ handler' = [at |-> "handling", seq |-> q, ack |-> 0] /\ runs' = Append(runs, q)
    BY <1>1 DEF Handle
  <2>2. q \in 1..Len(author)
    BY <2>1, TailRange DEF Shape, WorkShape
  <2>3. /\ Len(runs') = Len(runs) + 1 /\ \A i \in 1..Len(runs) : runs'[i] = runs[i]
        /\ runs'[Len(runs) + 1] = q
    BY <1>t, <2>1, AppendOf
  <2>4. Top' = q /\ \A i \in 1..Len(runs) : runs[i] < q
    <3>1. Top = handled
      BY <2>1 DEF Top
    <3>2. Top' = q
      BY <2>1 DEF Top
    <3> QED BY <1>t, <2>1, <2>2, <3>1, <3>2 DEF InOrder
  <2> HIDE DEF q
  <2>5. \A i \in 1..Len(runs') : i \in 1..Len(runs) \/ i = Len(runs) + 1
    BY <1>t, <2>3
  <2>6. \A i \in 1..Len(runs') : runs'[i] <= Top'
    BY <1>t, <2>2, <2>3, <2>4, <2>5
  <2>7. ASSUME NEW i \in 1..Len(runs'), NEW j \in 1..Len(runs'), i < j PROVE runs'[i] < runs'[j]
    <3>1. i \in 1..Len(runs)
      BY <1>t, <2>3, <2>7
    <3>2. CASE j \in 1..Len(runs)
      BY <2>3, <2>7, <3>1, <3>2 DEF InOrder
    <3>3. CASE j = Len(runs) + 1
      BY <2>3, <2>4, <3>1, <3>3
    <3> QED BY <2>5, <2>7, <3>2, <3>3
  <2> QED BY <2>6, <2>7 DEF InOrder
<1>2. CASE UNCHANGED <<handler, handled, runs>>
  BY <1>2 DEF InOrder, Top
<1>3. CASE Crash
  <2>1. runs' = <<>>
    BY <1>3 DEF Crash
  <2>2. 1..Len(runs') = {}
    BY <2>1, EmptyOf
  <2> QED BY <2>2 DEF InOrder
<1>4. CASE Return
  <2>1. handler.at = "handling" /\ handled' = handler.seq /\ handler'.at # "handling" /\ runs' = runs
    BY <1>4 DEF Return, Acknowledge, Idle
  <2>2. Top' = Top
    BY <2>1 DEF Top
  <2> QED BY <2>1, <2>2 DEF InOrder
<1>5. CASE PassOver \/ Acknowledged
  <2>1. handler.at # "handling" /\ handled' = handled /\ handler'.at # "handling" /\ runs' = runs
    BY <1>5 DEF PassOver, Acknowledged, Acknowledge, Idle
  <2>2. Top' = Top
    BY <2>1 DEF Top
  <2> QED BY <2>1, <2>2 DEF InOrder
<1>6. Post \/ Relay \/ Leave \/ JoinNow \/ JoinFromStart => UNCHANGED <<handler, handled, runs>>
  BY DEF Post, Relay, Deliver, Forget, OnPublish, OnAck, Leave, JoinNow, JoinFromStart, Join, work
<1>7. Connect \/ Break \/ Notice \/ Calls \/ (\E r \in Requests : TimeOut(r))
      => UNCHANGED <<handler, handled, runs>>
  BY DEF Connect, Break, Notice, Calls, Call, TimeOut, work
<1>8. Reader \/ UNCHANGED vars => UNCHANGED <<handler, handled, runs>>
  BY DEF Reader, Dispatch, Flush, Flushed, vars, work
<1> QED BY <1>1, <1>2, <1>3, <1>4, <1>5, <1>6, <1>7, <1>8 DEF Next, Handler

LEMMA InOrderInit == Init => InOrder
BY EmptyOf DEF Init, InOrder

LEMMA InOrderIs == Shape /\ InOrder => HandledInOrder
BY LenOf DEF Shape, WorkShape, InOrder, HandledInOrder

\* _handle_loop passes over what is not past _handled: a process handles a
\* message once, and later ones later, however often it is sent to it again.
THEOREM HandledInOrderAlways == Spec => []HandledInOrder
BY ShapeAlways, InOrderInit, InOrderStep, InOrderIs, PTL DEF Spec

(***************************************************************************)
(* What is acknowledged was handled.                                       *)
(***************************************************************************)

\* What is owed and not past a.
Safe(a) == \A p \in owed : p <= a => p \in seen

Dealt(p) == p \in seen \/ (handler.at = "handling" /\ handler.seq = p)
Waits(p) == \E i \in 1..Len(inbox) : inbox[i] = p
Mail(i, p) == down[i].type = "message" /\ down[i].seq = p

\* Nothing owed is missing before what the handler has,
HandlerOk == handler.at = "handling" => \A p \in owed : p < handler.seq => p \in seen

\* before a message of the inbox,
InboxOk ==
    \A i \in 1..Len(inbox) : \A p \in owed :
        p < inbox[i] => Dealt(p) \/ \E j \in 1..i - 1 : inbox[j] = p

\* before one that is on its way,
DownOk ==
    \A i \in 1..Len(down) : \A p \in owed :
        down[i].type = "message" /\ p < down[i].seq
        => Dealt(p) \/ Waits(p) \/ \E j \in 1..i - 1 : Mail(j, p)

\* or before the relay's place.
SentOk ==
    link = "open" => \A p \in owed :
        p <= sent => Dealt(p) \/ Waits(p) \/ \E j \in 1..Len(down) : Mail(j, p)

Covered == Safe(cursor) /\ Safe(handled) /\ HandlerOk /\ InboxOk /\ DownOk /\ SentOk

\* Nothing of it changes, or the handler waits in another place.
LEMMA QuietCovered ==
    ASSUME Covered, UNCHANGED <<owed, seen, inbox, handled, cursor, sent, down, link>>,
           handler' = handler \/ (handler.at # "handling" /\ handler'.at # "handling")
    PROVE  Covered'
<1>1. /\ \A p : Dealt(p)' <=> Dealt(p)
      /\ \A p : Waits(p)' <=> Waits(p)
      /\ \A i, p : Mail(i, p)' <=> Mail(i, p)
  BY DEF Dealt, Waits, Mail
<1>2. Safe(cursor)' /\ Safe(handled)' /\ HandlerOk'
  BY DEF Covered, Safe, HandlerOk
<1>3. InboxOk'
  BY <1>1 DEF Covered, InboxOk
<1>4. DownOk' /\ SentOk'
  BY <1>1 DEF Covered, DownOk, SentOk
<1> QED BY <1>2, <1>3, <1>4 DEF Covered

\* Numbers, for where they are compared.
LEMMA Numbers ==
    ASSUME Shape
    PROVE  /\ Len(author) \in Nat /\ owed \subseteq 1..Len(author)
           /\ cursor \in 0..Len(author) /\ sent \in 0..Len(author) /\ handled \in 0..Len(author)
           /\ handler.at = "handling" => handler.seq \in 1..Len(author)
           /\ IsSeq(inbox) /\ Len(inbox) \in Nat /\ IsSeq(down) /\ Len(down) \in Nat
           /\ \A i \in 1..Len(inbox) : inbox[i] \in 1..Len(author)
           /\ \A i \in 1..Len(down) : down[i].type = "message" => down[i].seq \in 1..Len(author)
<1>1. /\ IsSeq(author) /\ IsSeq(inbox) /\ IsSeq(down)
      /\ owed \subseteq Stored(None)
      /\ cursor \in 0..Len(author) /\ sent \in 0..Len(author) /\ handled \in 0..Len(author)
      /\ handler.at = "handling" => handler.seq \in handled + 1..Len(author)
      /\ Range(inbox) \subseteq 1..Len(author)
      /\ \A f \in Range(down) : f.type = "message" => f.seq \in 1..Len(author)
  BY DEF Shape, LogShape, WorkShape, WireShape
<1>2. owed \subseteq 1..Len(author)
  BY <1>1, StoredIn
<1>3. /\ Len(author) \in Nat /\ Len(inbox) \in Nat /\ Len(down) \in Nat
      /\ DOMAIN inbox = 1..Len(inbox) /\ DOMAIN down = 1..Len(down)
  BY <1>1, LenOf
<1>4. \A i \in 1..Len(inbox) : inbox[i] \in 1..Len(author)
  BY <1>1, <1>3 DEF Range
<1>5. \A i \in 1..Len(down) : down[i].type = "message" => down[i].seq \in 1..Len(author)
  BY <1>1, <1>3 DEF Range
<1>6. handler.at = "handling" => handler.seq \in 1..Len(author)
  BY <1>1, <1>3
<1> QED BY <1>1, <1>2, <1>3, <1>4, <1>5, <1>6

\* A new message is past all that is compared with it.
LEMMA PostCovered ==
    ASSUME Shape, Covered, Post
    PROVE  Covered'
<1>1. /\ author' = Append(author, None)
      /\ owed' \subseteq owed \cup {Len(author')}
      /\ UNCHANGED <<seen, inbox, handler, handled, cursor, sent, down, link>>
  BY DEF Post, wire, work
<1>2. Len(author') = Len(author) + 1
  BY <1>1, Grown DEF Shape, LogShape
<1>3. \A p \in owed' : p \in owed \/ p > Len(author)
  BY <1>1, <1>2, Numbers
<1>4. /\ \A p : Dealt(p)' <=> Dealt(p)
      /\ \A p : Waits(p)' <=> Waits(p)
      /\ \A i, p : Mail(i, p)' <=> Mail(i, p)
  BY <1>1 DEF Dealt, Waits, Mail
<1>5. Safe(cursor)' /\ Safe(handled)' /\ HandlerOk'
  BY <1>1, <1>3, Numbers DEF Covered, Safe, HandlerOk
<1>6. InboxOk'
  BY <1>1, <1>3, <1>4, Numbers DEF Covered, InboxOk
<1>7. DownOk'
  BY <1>1, <1>3, <1>4, Numbers DEF Covered, DownOk
<1>8. SentOk'
  BY <1>1, <1>3, <1>4, Numbers DEF Covered, SentOk
<1> QED BY <1>5, <1>6, <1>7, <1>8 DEF Covered

\* The relay sends the first row that is past the cursor and past what it sent.
LEMMA DeliverCovered ==
    ASSUME Shape, Covered, Deliver
    PROVE  Covered'
<1>1. PICK q \in Stored(None) :
        /\ q > Larger(cursor, sent) /\ \A p \in Stored(None) : p > Larger(cursor, sent) => q <= p
        /\ sent' = q /\ down' = Append(down, Frame("message", None, q))
        /\ link = "open" /\ UNCHANGED <<owed, seen, inbox, handler, handled, cursor, link>>
  BY DEF Deliver, work
<1>2. q \in 1..Len(author) /\ owed \subseteq Stored(None)
  BY StoredIn DEF Shape, LogShape
<1>3. \A p \in owed : p < q => p <= cursor \/ p <= sent
  BY <1>1, <1>2, Numbers DEF Larger
<1>4. /\ Len(down') = Len(down) + 1
      /\ \A i \in 1..Len(down) : down'[i] = down[i]
      /\ down'[Len(down) + 1].type = "message" /\ down'[Len(down) + 1].seq = q
  BY <1>1, Numbers, AppendOf, FrameOf
<1>5. /\ \A p : Dealt(p)' <=> Dealt(p)
      /\ \A p : Waits(p)' <=> Waits(p)
      /\ \A i \in 1..Len(down) : \A p : Mail(i, p)' <=> Mail(i, p)
      /\ \A i : i = Len(down) + 1 => Mail(i, q)'
  <2>1. \A p : (Dealt(p)' <=> Dealt(p)) /\ (Waits(p)' <=> Waits(p))
    BY <1>1 DEF Dealt, Waits
  <2>2. \A i \in 1..Len(down) : \A p : Mail(i, p)' <=> Mail(i, p)
    BY <1>4 DEF Mail
  <2>3. \A i : i = Len(down) + 1 => Mail(i, q)'
    BY <1>4 DEF Mail
  <2> QED BY <2>1, <2>2, <2>3
<1>6. Safe(cursor)' /\ Safe(handled)' /\ HandlerOk'
  BY <1>1 DEF Covered, Safe, HandlerOk
<1>7. InboxOk'
  BY <1>1, <1>5 DEF Covered, InboxOk
<1>8. \A p \in owed : p < q => Dealt(p) \/ Waits(p) \/ \E j \in 1..Len(down) : Mail(j, p)
  BY <1>1, <1>3 DEF Covered, SentOk, Safe, Dealt
<1>9. DownOk'
  <2> SUFFICES ASSUME NEW i \in 1..Len(down) + 1, NEW p \in owed,
                      down'[i].type = "message", p < down'[i].seq
               PROVE  Dealt(p) \/ Waits(p) \/ \E j \in 1..i - 1 : Mail(j, p)'
    BY <1>1, <1>4, <1>5 DEF DownOk
  <2>1. CASE i \in 1..Len(down)
    <3>1. \A j \in 1..i - 1 : j \in 1..Len(down)
      BY <2>1, Numbers
    <3> QED BY <1>4, <1>5, <2>1, <3>1 DEF Covered, DownOk
  <2>2. CASE i = Len(down) + 1
    <3>1. i - 1 = Len(down)
      BY <2>2, Numbers
    <3> QED BY <1>4, <1>5, <1>8, <2>2, <3>1
  <2> QED BY <2>1, <2>2, Numbers
<1>10. SentOk'
  <2> SUFFICES ASSUME NEW p \in owed, p <= q
               PROVE  Dealt(p) \/ Waits(p) \/ \E j \in 1..Len(down) + 1 : Mail(j, p)'
    BY <1>1, <1>4, <1>5 DEF SentOk
  <2>1. Len(down) + 1 \in 1..Len(down) + 1 /\ \A j \in 1..Len(down) : j \in 1..Len(down) + 1
    BY Numbers
  <2>2. p = q \/ p < q
    BY <1>2, Numbers
  <2>3. CASE p = q
    BY <1>5, <2>1, <2>3
  <2>4. CASE p < q
    <3>1. CASE Dealt(p) \/ Waits(p)
      BY <3>1
    <3>2. ASSUME NEW j \in 1..Len(down), Mail(j, p) PROVE \E i \in 1..Len(down) + 1 : Mail(i, p)'
      BY <1>5, <2>1, <3>2
    <3> QED BY <1>8, <2>4, <3>1, <3>2
  <2> QED BY <2>2, <2>3, <2>4
<1> QED BY <1>6, <1>7, <1>9, <1>10 DEF Covered

\* A confirmation, or a refusal, is no message.
LEMMA PublishCovered ==
    ASSUME Shape, Covered, OnPublish
    PROVE  Covered'
<1>1. UNCHANGED <<owed, seen, inbox, handler, handled, cursor, sent, link>>
  BY DEF OnPublish, work
<1>2. PICK f : down' = Append(down, f) /\ f.type # "message"
  <2>1. \A t, o, q : t # "message" => Frame(t, o, q).type # "message"
    BY FrameOf
  <2> QED BY <2>1 DEF OnPublish
<1>3. /\ Len(down') = Len(down) + 1 /\ \A i \in 1..Len(down) : down'[i] = down[i]
      /\ down'[Len(down) + 1].type # "message"
  BY <1>2, Numbers, AppendOf
<1>4. /\ \A p : Dealt(p)' <=> Dealt(p)
      /\ \A p : Waits(p)' <=> Waits(p)
      /\ \A i \in 1..Len(down) : \A p : Mail(i, p)' <=> Mail(i, p)
  BY <1>1, <1>3 DEF Dealt, Waits, Mail
<1>5. \A i \in 1..Len(down') : i \in 1..Len(down) \/ i = Len(down) + 1
  BY <1>3, Numbers
<1>6. \A j \in 1..Len(down) : j \in 1..Len(down')
  BY <1>3, Numbers
<1>7. Safe(cursor)' /\ Safe(handled)' /\ HandlerOk'
  BY <1>1 DEF Covered, Safe, HandlerOk
<1>8. InboxOk'
  BY <1>1, <1>4 DEF Covered, InboxOk
<1>9. DownOk'
  <2>1. \A i \in 1..Len(down) : \A j \in 1..i - 1 : j \in 1..Len(down)
    BY Numbers
  <2> QED BY <1>1, <1>3, <1>4, <1>5, <2>1 DEF Covered, DownOk
<1>10. SentOk'
  BY <1>1, <1>4, <1>6 DEF Covered, SentOk
<1> QED BY <1>7, <1>8, <1>9, <1>10 DEF Covered

\* An acknowledgement is of what was handled, or is before it.
LEMMA AckCovered ==
    ASSUME Shape, Covered, OnAck
    PROVE  Covered'
<1>1. /\ cursor' = cursor \/ (cursor' = Larger(cursor, Head(up).of) /\ Head(up).type = "ack" /\ up # <<>>)
      /\ UNCHANGED <<owed, seen, inbox, handler, handled, sent, down, link>>
  BY DEF OnAck, work
<1>2. Safe(cursor')
  <2>1. CASE cursor' = cursor
    BY <2>1 DEF Covered
  <2>2. CASE cursor' = Larger(cursor, Head(up).of) /\ Head(up).type = "ack" /\ up # <<>>
    <3>1. Head(up).of \in 1..handled
      BY <2>2, TailRange DEF Shape, WireShape
    <3>2. cursor' = cursor \/ cursor' \in 1..handled
      BY <2>2, <3>1 DEF Larger
    <3>3. CASE cursor' \in 1..handled
      BY <3>3, Numbers DEF Covered, Safe
    <3> QED BY <3>2, <3>3, <2>1
  <2> QED BY <1>1, <2>1, <2>2
<1>3. /\ \A p : Dealt(p)' <=> Dealt(p)
      /\ \A p : Waits(p)' <=> Waits(p)
      /\ \A i, p : Mail(i, p)' <=> Mail(i, p)
  BY <1>1 DEF Dealt, Waits, Mail
<1>4. Safe(cursor)' /\ Safe(handled)' /\ HandlerOk'
  BY <1>1, <1>2 DEF Covered, Safe, HandlerOk
<1>5. InboxOk'
  BY <1>1, <1>3 DEF Covered, InboxOk
<1>6. DownOk' /\ SentOk'
  BY <1>1, <1>3 DEF Covered, DownOk, SentOk
<1> QED BY <1>4, <1>5, <1>6 DEF Covered

\* A process knows a channel that it has a message of, or handled one of: what
\* the relay sent it over this connection is with it.
Aware ==
    \/ handled > 0 \/ handler.at = "handling" \/ inbox # <<>>
    \/ \E i \in 1..Len(down) : down[i].type = "message"

Known == link = "open" /\ sent # 0 => Aware

LEMMA AwareStays ==
    ASSUME Shape, Aware, OnPublish \/ Dispatch \/ Handler
    PROVE  Aware'
<1>1. CASE OnPublish
  <2>1. UNCHANGED <<inbox, handler, handled>>
    BY <1>1 DEF OnPublish, work
  <2>2. PICK f : down' = Append(down, f)
    BY <1>1 DEF OnPublish
  <2>3. /\ Len(down') = Len(down) + 1 /\ \A i \in 1..Len(down) : down'[i] = down[i]
        /\ 1..Len(down) \subseteq 1..Len(down')
    BY <2>2, Numbers, AppendOf
  <2> QED BY <2>1, <2>3 DEF Aware
<1>2. CASE Dispatch
  <2>1. down # <<>> /\ down' = Tail(down) /\ UNCHANGED <<handler, handled>>
    BY <1>2 DEF Dispatch
  <2>2. /\ Len(down') = Len(down) - 1 /\ Head(down) = down[1] /\ Len(down) \in Nat
        /\ \A i \in 1..Len(down') : down'[i] = down[i + 1]
    BY <2>1, Numbers, TailOf
  <2>3. inbox' = inbox \/ inbox' = Append(inbox, Head(down).seq)
    BY <1>2 DEF Dispatch
  <2>4. \A e : Append(inbox, e) # <<>>
    <3> SUFFICES ASSUME NEW e PROVE Append(inbox, e) # <<>>
      OBVIOUS
    <3>1. IsSeq(Append(inbox, e)) /\ Len(Append(inbox, e)) = Len(inbox) + 1 /\ Len(inbox) \in Nat
      BY Numbers, AppendOf
    <3> QED BY <3>1, EmptyOf
  <2>5. CASE handled > 0 \/ handler.at = "handling" \/ inbox # <<>>
    BY <2>1, <2>3, <2>4, <2>5 DEF Aware
  <2>6. ASSUME NEW i \in 1..Len(down), down[i].type = "message" PROVE Aware'
    <3>1. CASE i = 1
      <4>1. Head(down).type = "message"
        BY <2>2, <2>6, <3>1
      <4>2. inbox' = Append(inbox, Head(down).seq)
        BY <1>2, <4>1 DEF Dispatch
      <4> QED BY <2>4, <4>2 DEF Aware
    <3>2. CASE i # 1
      <4>1. i - 1 \in 1..Len(down') /\ down'[i - 1] = down[(i - 1) + 1] /\ (i - 1) + 1 = i
        BY <2>2, <3>2
      <4> QED BY <2>6, <4>1 DEF Aware
    <3> QED BY <3>1, <3>2
  <2> QED BY <2>5, <2>6 DEF Aware
<1>3. CASE Handle
  <2>1. handler'.at = "handling"
    BY <1>3 DEF Handle
  <2> QED BY <2>1 DEF Aware
<1>4. CASE PassOver
  <2>1. inbox # <<>> /\ Head(inbox) <= handled /\ handled' = handled
    BY <1>4 DEF PassOver
  <2>2. Head(inbox) \in 1..Len(author)
    BY <2>1, TailRange DEF Shape, WorkShape
  <2>3. handled' > 0
    BY <2>1, <2>2, Numbers
  <2> QED BY <2>3 DEF Aware
<1>5. CASE Return
  <2>1. handled' > 0
    BY <1>5, Numbers DEF Return
  <2> QED BY <2>1 DEF Aware
<1>6. CASE Acknowledged
  <2>1. handler.at # "handling" /\ UNCHANGED <<inbox, handled, down>>
    BY <1>6 DEF Acknowledged, wire
  <2> QED BY <2>1 DEF Aware
<1> QED BY <1>1, <1>2, <1>3, <1>4, <1>5, <1>6 DEF Handler

LEMMA KnownStep == Shape /\ Known /\ [Next]_vars => Known'
<1> SUFFICES ASSUME Shape, Known, [Next]_vars PROVE Known'
  OBVIOUS
<1>1. CASE OnPublish \/ Dispatch \/ Handler
  <2>1. UNCHANGED <<sent, link>>
    BY <1>1 DEF OnPublish, Dispatch, Handler, Handle, PassOver, Return, Acknowledged, relay
  <2> QED BY <1>1, <2>1, AwareStays DEF Known
<1>2. CASE Deliver
  <2>1. PICK q : down' = Append(down, Frame("message", None, q))
    BY <1>2 DEF Deliver
  <2>2. /\ Len(down') = Len(down) + 1 /\ down'[Len(down) + 1].type = "message"
        /\ Len(down) + 1 \in 1..Len(down')
    BY <2>1, Numbers, AppendOf, FrameOf
  <2> QED BY <2>2 DEF Known, Aware
<1>3. Connect \/ Forget => sent' = 0
  BY DEF Connect, Forget
<1>4. Break \/ Notice \/ Crash => link' # "open"
  BY DEF Break, Notice, Crash
<1>5. Post \/ OnAck \/ Leave \/ JoinNow \/ JoinFromStart
      => UNCHANGED <<sent, link, inbox, handler, handled, down>>
  BY DEF Post, OnAck, Leave, JoinNow, JoinFromStart, Join, wire, work
<1>6. Calls \/ (\E r \in Requests : TimeOut(r)) \/ Flush \/ Flushed \/ UNCHANGED vars
      => UNCHANGED <<sent, link, inbox, handler, handled, down>>
  BY DEF Calls, Call, TimeOut, Flush, Flushed, vars, relay, wire, work
<1>7. CASE UNCHANGED <<sent, link, inbox, handler, handled, down>>
  BY <1>7 DEF Known, Aware
<1> QED BY <1>1, <1>2, <1>3, <1>4, <1>5, <1>6, <1>7 DEF Next, Relay, Reader, Known

LEMMA KnownInit == Init => Known
BY DEF Init, Known

\* Leaving, nothing is owed any more; joining now, nothing is owed yet.  Joining
\* from the start is safe for a process that does not know the channel.
LEMMA LeaveCovered ==
    ASSUME Leave \/ JoinNow, Shape
    PROVE  Covered'
<1>1. owed' = {}
  <2>1. Leave => owed' = {}
    BY DEF Leave
  <2>2. JoinNow => owed' = {q \in Stored(None) : q > Len(author)}
    BY DEF JoinNow, Join
  <2>3. {q \in Stored(None) : q > Len(author)} = {}
    BY StoredIn, Numbers
  <2> QED BY <2>1, <2>2, <2>3
<1> QED BY <1>1 DEF Covered, Safe, HandlerOk, InboxOk, DownOk, SentOk

LEMMA JoinCovered ==
    ASSUME Shape, Known, JoinFromStart
    PROVE  again' \/ Covered'
<1> SUFFICES ASSUME ~ again' PROVE Covered'
  OBVIOUS
<1>1. /\ handled = 0 /\ handler.at # "handling" /\ inbox = <<>>
      /\ \A f \in Range(down) : f.type # "message"
      /\ ~ member /\ cursor' = 0 /\ owed' \subseteq Stored(None)
      /\ UNCHANGED <<author, sent, seen, inbox, handler, handled, down, link>>
  <2>1. ~ (handled > 0 \/ handler.at = "handling" \/ inbox # <<>>
           \/ \E f \in Range(down) : f.type = "message")
    BY Zenon DEF JoinFromStart
  <2>2. handled = 0 /\ handler.at # "handling" /\ inbox = <<>>
        /\ \A f \in Range(down) : f.type # "message"
    BY <2>1, Numbers
  <2>3. Join(0)
    BY DEF JoinFromStart
  <2>4. owed' \subseteq Stored(None)
    BY <2>3 DEF Join
  <2> QED BY <2>2, <2>3, <2>4 DEF Join, wire, work
<1>2. \A p \in owed' : p \in Nat /\ p > 0
  BY <1>1, StoredIn, Numbers DEF Shape, LogShape
<1>3. DOMAIN inbox = {} /\ 1..Len(inbox) = {} /\ \A i \in 1..Len(down) : down[i].type # "message"
  <2>1. DOMAIN down = 1..Len(down)
    BY LenOf DEF Shape, WireShape
  <2> QED BY <1>1, <2>1, EmptyOf, LenOf DEF Range
<1>4. Safe(cursor)' /\ Safe(handled)' /\ HandlerOk'
  BY <1>1, <1>2 DEF Safe, HandlerOk
<1>5. InboxOk' /\ DownOk'
  BY <1>1, <1>3 DEF InboxOk, DownOk
<1>6. SentOk'
  <2>1. ~ Aware
    BY <1>1, <1>3, Numbers DEF Aware
  <2>2. link = "open" => sent = 0
    BY <2>1 DEF Known
  <2> QED BY <1>1, <1>2, <2>2 DEF SentOk
<1> QED BY <1>4, <1>5, <1>6 DEF Covered

\* The relay forgets what it sent: nothing is before its place.
LEMMA ForgetCovered ==
    ASSUME Shape, Covered, Forget
    PROVE  Covered'
<1>1. sent' = 0 /\ UNCHANGED <<owed, seen, inbox, handler, handled, cursor, down, link>>
  BY DEF Forget, wire, work
<1>2. /\ \A p : Dealt(p)' <=> Dealt(p)
      /\ \A p : Waits(p)' <=> Waits(p)
      /\ \A i, p : Mail(i, p)' <=> Mail(i, p)
  BY <1>1 DEF Dealt, Waits, Mail
<1>3. SentOk'
  BY <1>1, Numbers DEF SentOk
<1>4. DownOk' /\ InboxOk'
  BY <1>1, <1>2 DEF Covered, DownOk, InboxOk
<1> QED BY <1>1, <1>3, <1>4 DEF Covered, Safe, HandlerOk

\* Without a connection nothing is on its way, and a new one starts behind the
\* cursor; a new process has handled nothing.
LEMMA LinkCovered ==
    ASSUME Shape, Covered, Connect \/ Break \/ Notice \/ Crash
    PROVE  Covered'
<1>n. \A p \in owed : p \in Nat /\ p > 0
  BY Numbers
<1>s. Safe(0)
  BY <1>n DEF Safe
<1>1. CASE Connect
  <2>1. /\ down' = <<Frame("welcome", None, 0)>> /\ sent' = 0
        /\ UNCHANGED <<owed, seen, inbox, handler, handled, cursor>>
    BY <1>1 DEF Connect, work
  <2>2. Len(down') = 1 /\ down'[1].type # "message"
    BY <2>1, OneOf, FrameOf
  <2>3. DownOk'
    BY <2>2 DEF DownOk
  <2>4. SentOk'
    BY <1>n, <2>1 DEF SentOk
  <2>5. \A p : Dealt(p)' <=> Dealt(p)
    BY <2>1 DEF Dealt
  <2>6. InboxOk'
    BY <2>1, <2>5 DEF Covered, InboxOk
  <2> QED BY <1>s, <2>1, <2>3, <2>4, <2>6 DEF Covered, Safe, HandlerOk
<1>2. CASE Break
  <2>1. /\ down' = <<>> /\ link' # "open" /\ UNCHANGED <<owed, seen, inbox, handler, handled, cursor>>
    BY <1>2 DEF Break, work, relay
  <2>2. DownOk' /\ SentOk'
    BY <2>1, EmptyOf DEF DownOk, SentOk
  <2> QED BY <2>1, <2>2 DEF Covered, Safe, HandlerOk, InboxOk, Dealt
<1>3. CASE Notice
  <2>1. link' # "open" /\ UNCHANGED <<owed, seen, inbox, handler, handled, cursor, down>>
    BY <1>3 DEF Notice, work, relay, wire
  <2>2. /\ \A p : Dealt(p)' <=> Dealt(p)
        /\ \A p : Waits(p)' <=> Waits(p)
        /\ \A i, p : Mail(i, p)' <=> Mail(i, p)
    BY <2>1 DEF Dealt, Waits, Mail
  <2>3. DownOk' /\ SentOk' /\ InboxOk'
    BY <2>1, <2>2 DEF Covered, DownOk, SentOk, InboxOk
  <2> QED BY <2>1, <2>3 DEF Covered, Safe, HandlerOk
<1>4. CASE Crash
  <2>1. /\ down' = <<>> /\ inbox' = <<>> /\ link' # "open" /\ handled' = 0 /\ handler'.at # "handling"
        /\ UNCHANGED <<owed, seen, cursor>>
    BY <1>4 DEF Crash, relay, Idle
  <2>2. DownOk' /\ SentOk' /\ InboxOk'
    BY <2>1, EmptyOf DEF DownOk, SentOk, InboxOk
  <2> QED BY <2>1, <2>2, <1>s DEF Covered, Safe, HandlerOk
<1> QED BY <1>1, <1>2, <1>3, <1>4

\* The first of what is on its way goes to the end of the inbox, if it is a message.
LEMMA DispatchCovered ==
    ASSUME Shape, Covered, Dispatch
    PROVE  Covered'
<1> DEFINE f == Head(down)
<1>1. /\ down # <<>> /\ down' = Tail(down)
      /\ UNCHANGED <<owed, seen, handler, handled, cursor, sent, link>>
      /\ \/ f.type = "message" /\ inbox' = Append(inbox, f.seq)
         \/ f.type # "message" /\ inbox' = inbox
  BY DEF Dispatch, relay
<1>2. /\ Len(down') = Len(down) - 1 /\ Len(down) \in Nat \ {0} /\ f = down[1]
      /\ \A i \in 1..Len(down') : down'[i] = down[i + 1]
  BY <1>1, TailOf, Numbers
<1> HIDE DEF f
<1>3. \A p : Dealt(p)' <=> Dealt(p)
  BY <1>1 DEF Dealt
<1>4. \A i \in 1..Len(down') : \A p : Mail(i, p)' <=> Mail(i + 1, p)
  BY <1>2 DEF Mail
<1>5. /\ Len(inbox) \in Nat
      /\ \A i \in 1..Len(inbox) : i \in 1..Len(inbox') /\ inbox'[i] = inbox[i]
      /\ \A i \in 1..Len(inbox') : i \in 1..Len(inbox)
            \/ (i = Len(inbox) + 1 /\ inbox'[i] = down[1].seq /\ down[1].type = "message")
      /\ down[1].type = "message" => \E i \in 1..Len(inbox') : inbox'[i] = down[1].seq
  <2>1. CASE f.type = "message" /\ inbox' = Append(inbox, f.seq)
    <3>1. /\ Len(inbox') = Len(inbox) + 1 /\ \A i \in 1..Len(inbox) : inbox'[i] = inbox[i]
          /\ inbox'[Len(inbox) + 1] = f.seq /\ Len(inbox) \in Nat
      BY <2>1, AppendOf, Numbers
    <3>2. Len(inbox) + 1 \in 1..Len(inbox')
      BY <3>1
    <3> QED BY <1>2, <2>1, <3>1, <3>2
  <2>2. CASE f.type # "message" /\ inbox' = inbox
    BY <1>2, <2>2, Numbers
  <2> QED BY <1>1, <2>1, <2>2
<1>6. \A p : Waits(p) => Waits(p)'
  BY <1>5 DEF Waits
<1>7. \A p : Mail(1, p) => Waits(p)'
  BY <1>5 DEF Mail, Waits
<1>8. Safe(cursor)' /\ Safe(handled)' /\ HandlerOk'
  BY <1>1 DEF Covered, Safe, HandlerOk
<1>9. InboxOk'
  <2> SUFFICES ASSUME NEW i \in 1..Len(inbox'), NEW p \in owed, p < inbox'[i]
               PROVE  Dealt(p) \/ \E j \in 1..i - 1 : inbox'[j] = p
    BY <1>1, <1>3 DEF InboxOk
  <2>1. CASE i \in 1..Len(inbox)
    <3>1. Dealt(p) \/ \E j \in 1..i - 1 : inbox[j] = p
      BY <1>5, <2>1 DEF Covered, InboxOk
    <3>2. \A j \in 1..i - 1 : inbox'[j] = inbox[j]
      BY <1>5, <2>1
    <3> QED BY <3>1, <3>2
  <2>2. CASE i = Len(inbox) + 1 /\ inbox'[i] = down[1].seq /\ down[1].type = "message"
    <3>1. 1 \in 1..Len(down) /\ 1..1 - 1 = {} /\ i - 1 = Len(inbox)
      BY <1>2, <1>5, <2>2
    <3>2. Dealt(p) \/ Waits(p)
      BY <2>2, <3>1 DEF Covered, DownOk
    <3> QED BY <1>5, <3>1, <3>2 DEF Waits
  <2> QED BY <1>5, <2>1, <2>2
<1>10. ASSUME NEW n \in 1..Len(down), NEW p, NEW j \in 1..n, Mail(j, p)
       PROVE  Waits(p)' \/ \E k \in 1..n - 1 : Mail(k, p)'
  <2>1. CASE j = 1
    BY <1>7, <1>10, <2>1
  <2>2. CASE j # 1
    <3>1. j - 1 \in 1..n - 1 /\ j - 1 \in 1..Len(down') /\ (j - 1) + 1 = j
      BY <1>2, <1>10, <2>2
    <3>2. \A k \in 1..Len(down') : k + 1 = j => Mail(k, p)'
      BY <1>4, <1>10
    <3> QED BY <3>1, <3>2
  <2> QED BY <2>1, <2>2
<1>11. DownOk'
  <2> SUFFICES ASSUME NEW i \in 1..Len(down'), NEW p \in owed,
                      down'[i].type = "message", p < down'[i].seq
               PROVE  Dealt(p) \/ Waits(p)' \/ \E j \in 1..i - 1 : Mail(j, p)'
    BY <1>1, <1>3 DEF DownOk
  <2>1. i + 1 \in 1..Len(down) /\ down'[i] = down[i + 1] /\ (i + 1) - 1 = i /\ i \in 1..Len(down)
    BY <1>2
  <2>2. Dealt(p) \/ Waits(p) \/ \E j \in 1..i : Mail(j, p)
    BY <2>1 DEF Covered, DownOk
  <2> QED BY <1>6, <1>10, <2>1, <2>2
<1>12. SentOk'
  <2> SUFFICES ASSUME link = "open", NEW p \in owed, p <= sent
               PROVE  Dealt(p) \/ Waits(p)' \/ \E j \in 1..Len(down') : Mail(j, p)'
    BY <1>1, <1>3 DEF SentOk
  <2>1. Dealt(p) \/ Waits(p) \/ \E j \in 1..Len(down) : Mail(j, p)
    BY DEF Covered, SentOk
  <2>2. Len(down) \in 1..Len(down) /\ Len(down) - 1 = Len(down')
    BY <1>2
  <2> QED BY <1>6, <1>10, <2>1, <2>2
<1> QED BY <1>8, <1>9, <1>11, <1>12 DEF Covered

\* The handler takes the first message of the inbox, unless it is of what was
\* handled.
LEMMA TakeCovered ==
    ASSUME Shape, Covered, Handle \/ PassOver
    PROVE  Covered'
<1> DEFINE q == Head(inbox)
<1>1. /\ inbox # <<>> /\ inbox' = Tail(inbox) /\ handler.at = "idle"
      /\ UNCHANGED <<owed, seen, handled, cursor, sent, down, link>>
      /\ \/ handler' = [at |-> "handling", seq |-> q, ack |-> 0]
         \/ q <= handled /\ handler'.at # "handling"
  BY DEF Handle, PassOver, Acknowledge, Idle, relay, wire
<1>2. /\ Len(inbox') = Len(inbox) - 1 /\ Len(inbox) \in Nat \ {0} /\ q = inbox[1]
      /\ \A i \in 1..Len(inbox') : inbox'[i] = inbox[i + 1]
  BY <1>1, TailOf, Numbers
<1> HIDE DEF q
<1>3. 1 \in 1..Len(inbox) /\ 1..1 - 1 = {} /\ q \in 1..Len(author)
  BY <1>2, Numbers
<1>4. \A p \in owed : p < q => p \in seen
  BY <1>1, <1>2, <1>3 DEF Covered, InboxOk, Dealt
<1>5. \A p \in owed : Dealt(p) \/ p = q => Dealt(p)'
  <2>1. CASE handler' = [at |-> "handling", seq |-> q, ack |-> 0]
    BY <1>1, <2>1 DEF Dealt
  <2>2. CASE q <= handled
    <3>1. q \in owed => q \in seen
      BY <1>3, <2>2, Numbers DEF Covered, Safe
    <3> QED BY <1>1, <3>1 DEF Dealt
  <2> QED BY <1>1, <2>1, <2>2
<1>6. ASSUME NEW n \in 1..Len(inbox), NEW j \in 1..n, inbox[j] # q
      PROVE  \E k \in 1..n - 1 : inbox'[k] = inbox[j]
  <2>1. j - 1 \in 1..n - 1 /\ j - 1 \in 1..Len(inbox') /\ (j - 1) + 1 = j
    BY <1>2, <1>6
  <2> QED BY <1>2, <2>1
<1>7. \A p \in owed : Waits(p) => Dealt(p)' \/ Waits(p)'
  <2> SUFFICES ASSUME NEW p \in owed, NEW j \in 1..Len(inbox), inbox[j] = p, p # q
               PROVE  Waits(p)'
    BY <1>5 DEF Waits
  <2>1. Len(inbox) \in 1..Len(inbox) /\ Len(inbox) - 1 = Len(inbox')
    BY <1>2
  <2>2. \E k \in 1..Len(inbox') : inbox'[k] = inbox[j]
    BY <1>6, <2>1
  <2> QED BY <2>2 DEF Waits
<1>8. Safe(cursor)' /\ Safe(handled)'
  BY <1>1 DEF Covered, Safe
<1>9. HandlerOk'
  BY <1>1, <1>4 DEF HandlerOk
<1>10. InboxOk'
  <2> SUFFICES ASSUME NEW i \in 1..Len(inbox'), NEW p \in owed, p < inbox'[i]
               PROVE  Dealt(p)' \/ \E j \in 1..i - 1 : inbox'[j] = p
    BY <1>1 DEF InboxOk
  <2>1. i + 1 \in 1..Len(inbox) /\ inbox'[i] = inbox[i + 1] /\ (i + 1) - 1 = i /\ i \in 1..Len(inbox)
    BY <1>2
  <2>2. Dealt(p) \/ \E j \in 1..i : inbox[j] = p
    BY <2>1 DEF Covered, InboxOk
  <2> QED BY <1>5, <1>6, <2>1, <2>2
<1>11. \A i, p : Mail(i, p)' <=> Mail(i, p)
  BY <1>1 DEF Mail
<1>12. DownOk'
  BY <1>1, <1>5, <1>7, <1>11 DEF Covered, DownOk
<1>13. SentOk'
  BY <1>1, <1>5, <1>7, <1>11 DEF Covered, SentOk
<1> QED BY <1>8, <1>9, <1>10, <1>12, <1>13 DEF Covered

\* The handler is done with a message, and nothing owed is missing before it.
LEMMA ReturnCovered ==
    ASSUME Shape, Covered, Return
    PROVE  Covered'
<1> DEFINE q == handler.seq
<1>1. /\ handler.at = "handling" /\ handled' = q /\ seen' = seen \cup {q} /\ handler'.at # "handling"
      /\ UNCHANGED <<owed, inbox, cursor, sent, down, link>>
  BY DEF Return, Acknowledge, Idle, relay
<1> HIDE DEF q
<1>2. \A p : Dealt(p) => Dealt(p)'
  BY <1>1 DEF Dealt, q
<1>3. /\ \A p : Waits(p)' <=> Waits(p)
      /\ \A i, p : Mail(i, p)' <=> Mail(i, p)
  BY <1>1 DEF Waits, Mail
<1>4. \A p \in owed : p <= q => p \in seen'
  <2>1. q \in 1..Len(author) /\ \A p \in owed : p \in 1..Len(author)
    BY <1>1, Numbers DEF q
  <2>2. \A p \in owed : p < q => p \in seen
    BY <1>1 DEF Covered, HandlerOk, q
  <2> QED BY <1>1, <2>1, <2>2, Numbers
<1>5. Safe(cursor)' /\ Safe(handled)' /\ HandlerOk'
  BY <1>1, <1>4 DEF Covered, Safe, HandlerOk
<1>6. InboxOk'
  BY <1>1, <1>2 DEF Covered, InboxOk
<1>7. DownOk' /\ SentOk'
  BY <1>1, <1>2, <1>3 DEF Covered, DownOk, SentOk
<1> QED BY <1>5, <1>6, <1>7 DEF Covered

LEMMA CoveredStep == Shape /\ Known /\ (again \/ Covered) /\ [Next]_vars => again' \/ Covered'
<1> SUFFICES ASSUME Shape, again \/ Covered, [Next]_vars, ~ JoinFromStart, ~ JoinNow
             PROVE  again' \/ Covered'
  BY JoinCovered, LeaveCovered
<1>1. UNCHANGED again
  <2>1. Post \/ Relay \/ Leave => UNCHANGED again
    BY DEF Post, Relay, Deliver, Forget, OnPublish, OnAck, Leave, rejoin
  <2>2. Connect \/ Break \/ Notice \/ Crash \/ Calls => UNCHANGED again
    BY DEF Connect, Break, Notice, Crash, Calls, Call, rejoin
  <2>3. (\E r \in Requests : TimeOut(r)) \/ UNCHANGED vars => UNCHANGED again
    BY DEF TimeOut, vars, rejoin
  <2>4. Reader => UNCHANGED again
    BY DEF Reader, Dispatch, Flush, Flushed, rejoin
  <2>5. Handler => UNCHANGED again
    BY DEF Handler, Handle, PassOver, Return, Acknowledged, rejoin
  <2> QED BY <2>1, <2>2, <2>3, <2>4, <2>5 DEF Next
<1> SUFFICES ASSUME Covered PROVE Covered'
  BY <1>1
<1>2. Calls \/ (\E r \in Requests : TimeOut(r)) \/ Flush \/ Flushed \/ UNCHANGED vars
      => UNCHANGED <<owed, seen, inbox, handled, cursor, sent, down, link, handler>>
  BY DEF Calls, Call, TimeOut, Flush, Flushed, vars, relay, wire, work
<1>3. Acknowledged => /\ UNCHANGED <<owed, seen, inbox, handled, cursor, sent, down, link>>
                      /\ handler.at # "handling" /\ handler'.at # "handling"
  BY DEF Acknowledged, Idle, relay, wire
<1>4. Calls \/ (\E r \in Requests : TimeOut(r)) \/ Flush \/ Flushed \/ UNCHANGED vars \/ Acknowledged
      => Covered'
  BY <1>2, <1>3, QuietCovered
<1> QED BY <1>4, PostCovered, DeliverCovered, ForgetCovered, PublishCovered, AckCovered, LeaveCovered,
           LinkCovered, DispatchCovered, TakeCovered, ReturnCovered DEF Next, Relay, Reader, Handler

LEMMA CoveredInit == Init => again \/ Covered
BY EmptyOf DEF Init, Covered, Safe, HandlerOk, InboxOk, DownOk, SentOk

LEMMA CoveredIs == again \/ Covered => AckedHandled
BY DEF Covered, Safe, AckedHandled

\* The cursor is past no message that is owed to the worker and that no process
\* of it was done with, over broken connections, redeliveries, acknowledgements
\* that are lost or sent again, and crashes: until a worker that knows the
\* channel joins it from the start again, and after it joins as of now.
THEOREM AckedHandledAlways == Spec => []AckedHandled
BY ShapeAlways, KnownInit, KnownStep, CoveredInit, CoveredStep, CoveredIs, PTL DEF Spec

(***************************************************************************)
(* Type correctness.                                                       *)
(***************************************************************************)

Distinct(x) == \A i, j \in 1..Len(x) : x[i] = x[j] => i = j

\* Positions behind the one that is taken out.
LEMMA Shift ==
    ASSUME NEW n \in Nat, NEW i \in 1..n
    PROVE  /\ (IF i + 1 <= n THEN n - (i + 1) + 1 ELSE 0) = n - i
           /\ n - (i + 1) + 1 = n - i
           /\ \A j \in 1..n - i : (i + 1) + j - 1 = i + j
OBVIOUS

\* What leaves the outbox leaves the others, in their order.
LEMMA RemoveOf ==
    ASSUME NEW x, IsSeq(x), Distinct(x), NEW r
    PROVE  /\ IsSeq(RemoveFirst(x, r)) /\ Distinct(RemoveFirst(x, r))
           /\ Range(RemoveFirst(x, r)) = Range(x) \ {r}
           /\ Len(RemoveFirst(x, r)) <= Len(x)
<1>0. Len(x) \in Nat /\ DOMAIN x = 1..Len(x)
  BY LenOf
<1>1. CASE ~ \E i \in 1..Len(x) : x[i] = r
  <2>1. RemoveFirst(x, r) = x
    BY <1>1 DEF RemoveFirst
  <2>2. r \notin Range(x)
    BY <1>0, <1>1 DEF Range
  <2> QED BY <1>0, <2>1, <2>2
<1>2. ASSUME NEW i \in 1..Len(x), x[i] = r
      PROVE  /\ IsSeq(RemoveFirst(x, r)) /\ Distinct(RemoveFirst(x, r))
             /\ Range(RemoveFirst(x, r)) = Range(x) \ {r}
             /\ Len(RemoveFirst(x, r)) <= Len(x)
  <2> DEFINE a == SubSeq(x, 1, i - 1)
             b == SubSeq(x, i + 1, Len(x))
             y == RemoveFirst(x, r)
  <2>1. y = a \o b
    <3>1. {j \in 1..Len(x) : x[j] = r} = {i}
      BY <1>2 DEF Distinct
    <3>2. Min({i}) = i
      BY <1>0 DEF Min
    <3>3. SelectInSeq(x, LAMBDA v : v = r) = i
      BY <3>1, <3>2 DEF SelectInSeq
    <3> QED BY <1>2, <3>3 DEF RemoveFirst, RemoveAt
  <2> DEFINE T == Range(x)
  <2>2. \A j \in 1..Len(x) : x[j] \in T
    BY <1>0 DEF Range
  <2> HIDE DEF T
  <2>3. /\ a \in Seq(T) /\ Len(a) = i - 1 /\ \A j \in 1..i - 1 : a[j] = x[j]
    <3>1. \A j \in 1..i - 1 : x[j] \in T
      BY <1>0, <2>2
    <3>2. 1 \in Int /\ i - 1 \in Int /\ (i - 1) - 1 + 1 = i - 1 /\ \A j \in Int : 1 + j - 1 = j
      BY <1>0
    <3>3. /\ a \in Seq(T) /\ Len(a) = IF 1 <= i - 1 THEN (i - 1) - 1 + 1 ELSE 0
          /\ \A j \in 1..(i - 1) - 1 + 1 : a[j] = x[1 + j - 1]
      BY <3>1, <3>2, SubSeqProperties
    <3> QED BY <1>0, <3>2, <3>3
  <2>4. /\ b \in Seq(T) /\ Len(b) = Len(x) - i /\ \A j \in 1..Len(x) - i : b[j] = x[i + j]
    <3>1. \A j \in i + 1..Len(x) : x[j] \in T
      BY <1>0, <2>2
    <3>2. i + 1 \in Int /\ Len(x) \in Int
      BY <1>0
    <3>3. /\ b \in Seq(T) /\ Len(b) = IF i + 1 <= Len(x) THEN Len(x) - (i + 1) + 1 ELSE 0
          /\ \A j \in 1..Len(x) - (i + 1) + 1 : b[j] = x[(i + 1) + j - 1]
      BY <3>1, <3>2, SubSeqProperties
    <3>4. /\ (IF i + 1 <= Len(x) THEN Len(x) - (i + 1) + 1 ELSE 0) = Len(x) - i
          /\ Len(x) - (i + 1) + 1 = Len(x) - i
          /\ \A j \in 1..Len(x) - i : (i + 1) + j - 1 = i + j
      BY <1>0, Shift
    <3> HIDE DEF b
    <3>5. Len(b) = Len(x) - i
      BY <3>3, <3>4, Zenon
    <3>6. \A j \in 1..Len(x) - i : b[j] = x[i + j]
      <4>1. \A j \in 1..Len(x) - i : b[j] = x[(i + 1) + j - 1]
        BY <3>3, <3>4, Zenon
      <4> QED BY <3>4, <4>1, Zenon
    <3> QED BY <3>3, <3>5, <3>6, Zenon
  <2> HIDE DEF a, b, y
  <2>5. /\ y \in Seq(T) /\ Len(y) = Len(x) - 1
        /\ \A j \in 1..Len(y) : y[j] = IF j < i THEN x[j] ELSE x[j + 1]
    <3>1. /\ y \in Seq(T) /\ Len(y) = Len(a) + Len(b)
          /\ \A j \in 1..Len(a) + Len(b) : y[j] = IF j <= Len(a) THEN a[j] ELSE b[j - Len(a)]
      <4>1. a \in Seq(T) /\ b \in Seq(T)
        BY <2>3, <2>4
      <4> QED BY <2>1, <4>1, ConcatProperties, Zenon
    <3>2. Len(y) = Len(x) - 1
      BY <1>0, <2>3, <2>4, <3>1
    <3>3. ASSUME NEW j \in 1..Len(y) PROVE y[j] = IF j < i THEN x[j] ELSE x[j + 1]
      <4>1. CASE j < i
        <5>1. j \in 1..i - 1 /\ j <= Len(a)
          BY <1>0, <2>3, <3>2, <4>1
        <5> QED BY <2>3, <3>1, <3>2, <4>1, <5>1
      <4>2. CASE ~ j < i
        <5>1. ~ j <= Len(a) /\ j - Len(a) \in 1..Len(x) - i /\ i + (j - Len(a)) = j + 1
          BY <1>0, <2>3, <3>2, <4>2
        <5>2. y[j] = b[j - Len(a)] /\ b[j - Len(a)] = x[i + (j - Len(a))]
          BY <2>4, <3>1, <5>1
        <5> QED BY <4>2, <5>1, <5>2
      <4> QED BY <4>1, <4>2
    <3> QED BY <3>1, <3>2, <3>3
  <2>6. IsSeq(y) /\ DOMAIN y = 1..Len(y)
    BY <2>5, SeqIs
  <2> DEFINE from(j) == IF j < i THEN j ELSE j + 1
  <2>7. \A j \in 1..Len(y) : from(j) \in 1..Len(x) /\ from(j) # i /\ y[j] = x[from(j)]
    BY <1>0, <2>5
  <2>8. \A j, k \in 1..Len(y) : from(j) = from(k) => j = k
    BY <1>0, <2>5
  <2>9. \A n \in 1..Len(x) : n # i => \E j \in 1..Len(y) : from(j) = n
    <3> SUFFICES ASSUME NEW n \in 1..Len(x), n # i PROVE \E j \in 1..Len(y) : from(j) = n
      OBVIOUS
    <3>1. CASE n < i
      <4>1. n \in 1..Len(y)
        BY <1>0, <2>5, <3>1
      <4> QED BY <3>1, <4>1
    <3>2. CASE n > i
      <4>1. n - 1 \in 1..Len(y) /\ ~ n - 1 < i /\ (n - 1) + 1 = n
        BY <1>0, <2>5, <3>2
      <4> QED BY <4>1
    <3> QED BY <1>0, <3>1, <3>2
  <2> HIDE DEF from
  <2>10. Distinct(y)
    BY <2>7, <2>8 DEF Distinct
  <2>11. Range(y) = Range(x) \ {r}
    <3>1. ASSUME NEW j \in 1..Len(y) PROVE y[j] \in Range(x) \ {r}
      BY <1>0, <1>2, <2>7 DEF Range, Distinct
    <3>2. ASSUME NEW n \in 1..Len(x), x[n] # r PROVE x[n] \in Range(y)
      <4>1. PICK j \in 1..Len(y) : from(j) = n
        BY <1>2, <2>9, <3>2
      <4> QED BY <2>6, <2>7, <4>1 DEF Range
    <3> QED BY <1>0, <2>6, <3>1, <3>2 DEF Range
  <2>12. Len(y) <= Len(x)
    BY <1>0, <2>5
  <2> QED BY <2>6, <2>10, <2>11, <2>12 DEF y
<1> QED BY <1>1, <1>2

LogTypes ==
    /\ member \in BOOLEAN /\ Range(author) \subseteq Requests \cup {None}
    /\ Cardinality(Stored(None)) <= Posts

UpTypes == \A f \in Range(up) : f = Ack_(f.of) \/ \E r \in Requests : f = Publish_(r)

DownTypes ==
    \A f \in Range(down) :
        /\ f \in [type : Types, of : Requests \cup {None}, seq : 0..Len(author)]
        /\ f.type = "message" => f.seq \in Stored(None)
        /\ f.type \in {"published", "error"} => f.of \in Requests

OutboxTypes ==
    /\ IsSeq(outbox) /\ Distinct(outbox) /\ Len(outbox) <= OutboxMax
    /\ Range(outbox) = {r \in Requests : call[r] = "waiting"}

ResultTypes == result \in [Requests -> 0..Len(author)]

ReaderTypes ==
    /\ reader = [at |-> reader.at, todo |-> reader.todo, ack |-> reader.ack]
    /\ reader.at \in {"reading", "publishing", "acking"}
    /\ IsSeq(reader.todo) /\ Range(reader.todo) \subseteq Requests
    /\ reader.ack \in 0..Len(author)

WorkTypes ==
    /\ Range(inbox) \subseteq Stored(None) /\ Range(runs) \subseteq Stored(None)
    /\ handler \in [at : {"idle", "handling", "acking"}, seq : 0..Len(author), ack : 0..Len(author)]
    /\ handler.at = "handling" => handler.seq \in Stored(None)
    /\ handled \in {0} \cup Stored(None) /\ acks \in {0} \cup Stored(None)
    /\ seen \subseteq Stored(None)

RestTypes ==
    /\ link \in {"none", "open", "broken"} /\ acts \in Histories
    /\ again \in BOOLEAN /\ passed \in 0..Len(author)

Typed ==
    /\ LogTypes /\ UpTypes /\ DownTypes /\ OutboxTypes /\ ResultTypes
    /\ ReaderTypes /\ WorkTypes /\ RestTypes

\* What the relay is told to publish is a request.
LEMMA HeadRequest ==
    ASSUME Shape, UpTypes
    PROVE  \A f \in Range(up) : f.type = "publish" => f.of \in Requests
BY DEF UpTypes, Ack_, Publish_

LEMMA LogTyped ==
    ASSUME Shape, Typed, [Next]_vars
    PROVE  LogTypes' /\ Len(author) \in Nat /\ Len(author') \in Nat /\ Len(author) <= Len(author')
<1>t. /\ IsSeq(author) /\ IsSeq(up) /\ member \in BOOLEAN /\ LogTypes /\ Len(author) \in Nat
  BY LenOf DEF Shape, LogShape, WireShape, Typed, LogTypes
<1>f. IsFiniteSet(Stored(None)) /\ Cardinality(Stored(None)) \in Nat /\ Posts \in Nat
  <2>1. IsFiniteSet(1..Len(author))
    BY <1>t, FS_Interval
  <2>2. IsFiniteSet(Stored(None))
    BY <2>1, StoredIn, FS_Subset
  <2> QED BY <2>2, FS_CardinalityType
<1>1. Len(author') \in Nat /\ Len(author) <= Len(author')
  <2>1. ASSUME NEW r, author' = Append(author, r) PROVE Len(author') \in Nat /\ Len(author) <= Len(author')
    BY <1>t, <2>1, Grown
  <2> QED BY <1>t, <2>1, LogStep
<1>2. member' \in BOOLEAN
  <2>1. Post \/ Relay => member' = member
    BY DEF Post, Relay, Deliver, Forget, OnPublish, OnAck
  <2>2. Leave \/ JoinNow \/ JoinFromStart => member' \in BOOLEAN
    BY DEF Leave, JoinNow, JoinFromStart, Join
  <2>3. Connect \/ Break \/ Notice \/ Crash \/ Calls \/ (\E r \in Requests : TimeOut(r))
        => member' = member
    BY DEF Connect, Break, Notice, Crash, Calls, Call, TimeOut, relay
  <2>4. Reader \/ Handler \/ UNCHANGED vars => member' = member
    BY DEF Reader, Dispatch, Flush, Flushed, Handler, Handle, PassOver, Return, Acknowledged, vars, relay
  <2> QED BY <1>t, <2>1, <2>2, <2>3, <2>4 DEF Next
<1>3. CASE UNCHANGED author
  BY <1>t, <1>2, <1>3 DEF LogTypes, Stored
<1>4. CASE Post
  <2>1. author' = Append(author, None) /\ Cardinality(Stored(None)) < Posts
    BY <1>4 DEF Post
  <2>2. Range(author') \subseteq Requests \cup {None}
    BY <1>t, <2>1, AppendRange DEF LogTypes
  <2>3. Stored(None)' = Stored(None) \cup {Len(author')}
    BY <1>t, <2>1, Grown
  <2> DEFINE S == Stored(None)
             n == Len(author')
             c == Cardinality(S)
             d == Cardinality(S \cup {n})
  <2>4. d \in {c, c + 1}
    <3>1. IsFiniteSet(S)
      BY <1>f
    <3> HIDE DEF S, n
    <3>2. Cardinality(S \cup {n}) = IF n \in S THEN Cardinality(S) ELSE Cardinality(S) + 1
      BY <3>1, FS_AddElement, Zenon
    <3> QED BY <3>2
  <2>5. c \in Nat /\ c < Posts
    BY <1>f, <2>1
  <2> HIDE DEF c, d
  <2>6. d <= Posts
    BY <1>f, <2>4, <2>5
  <2> QED BY <1>1, <1>2, <2>2, <2>3, <2>6 DEF LogTypes, d
<1>5. CASE OnPublish
  <2> DEFINE r == Head(up).of
  <2>1. r \in Requests
    BY <1>t, <1>5, TailRange, HeadRequest DEF OnPublish, Typed
  <2>2. author' = author \/ author' = Append(author, r)
    BY <1>5 DEF OnPublish
  <2> HIDE DEF r
  <2>3. CASE author' = Append(author, r)
    <3>1. Range(author') \subseteq Requests \cup {None}
      BY <1>t, <2>1, <2>3, AppendRange DEF LogTypes
    <3>2. Stored(None)' = Stored(None)
      BY <1>t, <2>1, <2>3, Grown
    <3> QED BY <1>1, <1>t, <1>2, <3>1, <3>2 DEF LogTypes
  <2> QED BY <1>3, <2>2, <2>3
<1>6. Deliver \/ Forget \/ OnAck \/ Leave \/ JoinNow \/ JoinFromStart => UNCHANGED author
  BY DEF Deliver, Forget, OnAck, Leave, JoinNow, JoinFromStart, Join
<1>7. Connect \/ Break \/ Notice \/ Crash \/ Calls \/ (\E r \in Requests : TimeOut(r)) => UNCHANGED author
  BY DEF Connect, Break, Notice, Crash, Calls, Call, TimeOut, relay
<1>8. Reader \/ Handler \/ UNCHANGED vars => UNCHANGED author
  BY DEF Reader, Dispatch, Flush, Flushed, Handler, Handle, PassOver, Return, Acknowledged, vars, relay
<1> QED BY <1>1, <1>3, <1>4, <1>5, <1>6, <1>7, <1>8 DEF Next, Relay

LEMMA UpTyped == Shape /\ Typed /\ [Next]_vars => UpTypes'
<1> SUFFICES ASSUME Shape, Typed, [Next]_vars PROVE UpTypes'
  OBVIOUS
<1>t. IsSeq(up) /\ UpTypes /\ ReaderTypes
  BY DEF Shape, WireShape, Typed
<1>a. \A q : Ack_(q) = Ack_(Ack_(q).of)
  BY DEF Ack_
<1>1. CASE up' = up
  BY <1>1, <1>t DEF UpTypes
<1>2. CASE up' = <<>>
  BY <1>2, EmptyRange DEF UpTypes
<1>3. CASE up # <<>> /\ up' = Tail(up)
  BY <1>3, <1>t, TailRange DEF UpTypes
<1>4. ASSUME NEW r \in Requests, Sends(Publish_(r)) PROVE UpTypes'
  BY <1>4, <1>t, SendsOf DEF UpTypes
<1>5. ASSUME NEW q, Sends(Ack_(q)) PROVE UpTypes'
  BY <1>5, <1>a, <1>t, SendsOf DEF UpTypes
<1>6. OnPublish \/ OnAck => up # <<>> /\ up' = Tail(up)
  BY DEF OnPublish, OnAck
<1>7. Connect \/ Break \/ Crash => up' = <<>>
  BY DEF Connect, Break, Crash
<1>8. Calls => up' = up \/ \E r \in Requests : Sends(Publish_(r))
  BY DEF Calls, Call
<1>9. CASE Flush
  <2>1. CASE reader.todo # <<>> /\ Sends(Publish_(Head(reader.todo)))
    BY <1>t, <1>4, <2>1, TailRange DEF ReaderTypes
  <2> QED BY <1>1, <1>5, <1>9, <2>1 DEF Flush
<1>10. PassOver \/ Return => up' = up \/ \E q : Sends(Ack_(q))
  BY DEF PassOver, Return, Acknowledge
<1>11. Post \/ Deliver \/ Forget \/ Leave \/ JoinNow \/ JoinFromStart \/ Notice => up' = up
  BY DEF Post, Deliver, Forget, Leave, JoinNow, JoinFromStart, Join, Notice, wire
<1>12. (\E r \in Requests : TimeOut(r)) \/ Dispatch \/ Flushed => up' = up
  BY DEF TimeOut, Dispatch, Flushed, wire
<1>13. Handle \/ Acknowledged \/ UNCHANGED vars => up' = up
  BY DEF Handle, Acknowledged, vars, wire
<1> QED BY <1>1, <1>2, <1>3, <1>4, <1>5, <1>6, <1>7, <1>8, <1>9, <1>10, <1>11, <1>12, <1>13
        DEF Next, Relay, Reader, Handler

LEMMA DownTyped == Shape /\ Typed /\ [Next]_vars => DownTypes'
<1> SUFFICES ASSUME Shape, Typed, [Next]_vars, NEW f \in Range(down')
             PROVE  /\ f \in [type : Types, of : Requests \cup {None}, seq : 0..Len(author')]
                    /\ f.type = "message" => f.seq \in Stored(None)'
                    /\ f.type \in {"published", "error"} => f.of \in Requests
  BY DEF DownTypes
<1>t. /\ Len(author) \in Nat /\ Len(author') \in Nat /\ 0..Len(author) \subseteq 0..Len(author')
      /\ \A r : Stored(r) \subseteq Stored(r)' /\ Stored(r)' \subseteq 0..Len(author')
      /\ 0 \in 0..Len(author')
  <2>1. \A r : Stored(r) \subseteq Stored(r)'
    BY StoredStays
  <2>2. \A r : Stored(r)' \subseteq 1..Len(author')
    BY DEF Stored
  <2> QED BY <2>1, <2>2, LogTyped
<1>1. CASE f \in Range(down)
  BY <1>t, <1>1 DEF Typed, DownTypes
<1>2. CASE f = Frame("welcome", None, 0)
  BY <1>t, <1>2 DEF Frame, Types
<1>3. ASSUME NEW q \in Stored(None), f = Frame("message", None, q)
      PROVE  /\ f \in [type : Types, of : Requests \cup {None}, seq : 0..Len(author')]
             /\ f.type = "message" => f.seq \in Stored(None)'
             /\ f.type \in {"published", "error"} => f.of \in Requests
  BY <1>t, <1>3 DEF Frame, Types
<1>4. ASSUME NEW r \in Requests, f \in Answers(r)'
      PROVE  /\ f \in [type : Types, of : Requests \cup {None}, seq : 0..Len(author')]
             /\ f.type = "message" => f.seq \in Stored(None)'
             /\ f.type \in {"published", "error"} => f.of \in Requests
  <2>1. f = Frame("error", r, 0) \/ \E q \in Stored(r)' : f = Frame("published", r, q)
    BY <1>4 DEF Answers, Frame
  <2> QED BY <1>t, <2>1 DEF Frame, Types
<1>5. \A g \in Range(up) : g.type = "publish" => g.of \in Requests
  BY HeadRequest DEF Typed
<1> QED BY <1>1, <1>2, <1>3, <1>4, <1>5, DownStep

\* The outbox has what is waited for.
LEMMA OutboxTyped == Shape /\ Typed /\ [Next]_vars => OutboxTypes'
<1> SUFFICES ASSUME Shape, Typed, [Next]_vars PROVE OutboxTypes'
  OBVIOUS
<1>t. /\ call \in [Requests -> Outcomes] /\ IsSeq(down) /\ DownTypes
      /\ IsSeq(outbox) /\ Distinct(outbox) /\ Len(outbox) <= OutboxMax
      /\ Range(outbox) = {r \in Requests : call[r] = "waiting"}
      /\ Len(outbox) \in Nat /\ OutboxMax \in Nat
  BY LenOf DEF Shape, CallShape, WireShape, Typed, OutboxTypes
<1>1. CASE UNCHANGED <<outbox, call>>
  BY <1>1, <1>t DEF OutboxTypes, Distinct
<1>2. ASSUME NEW r \in Requests, outbox' = RemoveFirst(outbox, r),
             \/ \E how : how # "waiting" /\ call' = [call EXCEPT ![r] = how]
             \/ call[r] # "waiting" /\ call' = call
      PROVE  OutboxTypes'
  <2>1. /\ IsSeq(outbox') /\ Distinct(outbox') /\ Range(outbox') = Range(outbox) \ {r}
        /\ Len(outbox') <= Len(outbox)
    BY <1>t, <1>2, RemoveOf
  <2>2. Len(outbox') <= OutboxMax
    BY <1>t, <2>1, LenOf
  <2>3. {x \in Requests : call'[x] = "waiting"} = {x \in Requests : call[x] = "waiting"} \ {r}
    BY <1>t, <1>2
  <2> QED BY <1>t, <2>1, <2>2, <2>3 DEF OutboxTypes, Distinct
<1>3. ASSUME NEW r \in Requests, Call(r) PROVE OutboxTypes'
  <2>1. call[r] = "idle"
    BY <1>3 DEF Call
  <2>2. CASE outbox' = outbox /\ call' = [call EXCEPT ![r] = "full"]
    <3>1. {x \in Requests : call'[x] = "waiting"} = {x \in Requests : call[x] = "waiting"}
      BY <1>t, <2>1, <2>2
    <3> QED BY <1>t, <2>2, <3>1 DEF OutboxTypes, Distinct
  <2>3. CASE /\ ~ Len(outbox) >= OutboxMax /\ outbox' = Append(outbox, r)
             /\ call' = [call EXCEPT ![r] = "waiting"]
    <3>1. /\ IsSeq(outbox') /\ Len(outbox') = Len(outbox) + 1
          /\ \A i \in 1..Len(outbox) : outbox'[i] = outbox[i]
          /\ outbox'[Len(outbox) + 1] = r
      BY <1>t, <2>3, AppendOf
    <3>2. Range(outbox') = Range(outbox) \cup {r}
      BY <1>t, <2>3, AppendRange
    <3>3. {x \in Requests : call'[x] = "waiting"} = {x \in Requests : call[x] = "waiting"} \cup {r}
      BY <1>t, <2>3
    <3>4. \A i \in 1..Len(outbox) : outbox[i] # r
      BY <1>t, <2>1, LenOf DEF Range
    <3>5. \A i \in 1..Len(outbox') : i \in 1..Len(outbox) \/ i = Len(outbox) + 1
      BY <1>t, <3>1
    <3>6. Distinct(outbox)'
      BY <1>t, <3>1, <3>4, <3>5 DEF Distinct
    <3>7. Len(outbox') <= OutboxMax
      BY <1>t, <2>3, <3>1
    <3> QED BY <1>t, <3>1, <3>2, <3>3, <3>6, <3>7 DEF OutboxTypes
  <2> QED BY <1>3, <2>2, <2>3 DEF Call
<1>4. ASSUME NEW r \in Requests, TimeOut(r) PROVE OutboxTypes'
  <2>1. outbox' = RemoveFirst(outbox, r) /\ call' = [call EXCEPT ![r] = "timed out"]
    BY <1>4 DEF TimeOut
  <2> QED BY <1>2, <2>1
<1>5. CASE Crash
  <2>1. outbox' = <<>> /\ call' = [r \in Requests |-> IF call[r] = "waiting" THEN "dead" ELSE call[r]]
    BY <1>5 DEF Crash
  <2>2. {x \in Requests : call'[x] = "waiting"} = {}
    BY <2>1
  <2> QED BY <1>t, <2>1, <2>2, EmptyOf, EmptyRange DEF OutboxTypes, Distinct
<1>6. CASE Dispatch
  <2> DEFINE f == Head(down)
  <2>1. f \in Range(down)
    BY <1>6, <1>t, TailRange DEF Dispatch
  <2>2. f.type \in {"published", "error"} => f.of \in Requests
    BY <1>t, <2>1 DEF DownTypes
  <2>3. ASSUME NEW how, how # "waiting", NEW q, f.of \in Requests, Settle(f.of, how, q)
        PROVE  OutboxTypes'
    BY <1>2, <2>3 DEF Settle
  <2>4. \/ UNCHANGED <<outbox, call>>
        \/ f.type = "published" /\ Settle(f.of, "done", f.seq)
        \/ f.type = "error" /\ Settle(f.of, "refused", 0)
    BY <1>6 DEF Dispatch, calls
  <2> QED BY <1>1, <2>2, <2>3, <2>4
<1>7. Post \/ Relay \/ Leave \/ JoinNow \/ JoinFromStart => UNCHANGED <<outbox, call>>
  BY DEF Post, Relay, Deliver, Forget, OnPublish, OnAck, Leave, JoinNow, JoinFromStart, Join, calls
<1>8. Connect \/ Break \/ Notice \/ Flush \/ Flushed => UNCHANGED <<outbox, call>>
  BY DEF Connect, Break, Notice, Flush, Flushed, calls
<1>9. Handler \/ UNCHANGED vars => UNCHANGED <<outbox, call>>
  BY DEF Handler, Handle, PassOver, Return, Acknowledged, vars, calls
<1> QED BY <1>1, <1>3, <1>4, <1>5, <1>6, <1>7, <1>8, <1>9 DEF Next, Reader, Calls

LEMMA ResultTyped == Shape /\ Typed /\ [Next]_vars => ResultTypes'
<1> SUFFICES ASSUME Shape, Typed, [Next]_vars PROVE ResultTypes'
  OBVIOUS
<1>t. /\ result \in [Requests -> 0..Len(author)] /\ 0..Len(author) \subseteq 0..Len(author')
      /\ 0 \in 0..Len(author) /\ IsSeq(down) /\ DownTypes
  BY LogTyped DEF Typed, ResultTypes, Shape, WireShape
<1>1. CASE result' = result
  BY <1>1, <1>t DEF ResultTypes
<1>2. CASE Dispatch
  <2> DEFINE f == Head(down)
  <2>1. f \in Range(down)
    BY <1>2, <1>t, TailRange DEF Dispatch
  <2>2. f.seq \in 0..Len(author)
    BY <1>t, <2>1 DEF DownTypes
  <2>3. ASSUME NEW r, NEW how, NEW q \in 0..Len(author), Settle(r, how, q) PROVE ResultTypes'
    <3>1. result' = result \/ result' = [result EXCEPT ![r] = q]
      BY <2>3 DEF Settle
    <3> QED BY <1>t, <3>1 DEF ResultTypes
  <2>4. UNCHANGED result \/ Settle(f.of, "done", f.seq) \/ Settle(f.of, "refused", 0)
    BY <1>2 DEF Dispatch, calls
  <2> QED BY <1>1, <1>t, <2>2, <2>3, <2>4
<1>3. Post \/ Relay \/ Leave \/ JoinNow \/ JoinFromStart => UNCHANGED result
  BY DEF Post, Relay, Deliver, Forget, OnPublish, OnAck, Leave, JoinNow, JoinFromStart, Join, calls
<1>4. Connect \/ Break \/ Notice \/ Crash \/ Flush \/ Flushed => UNCHANGED result
  BY DEF Connect, Break, Notice, Crash, Flush, Flushed, calls
<1>5. Calls \/ (\E r \in Requests : TimeOut(r)) => UNCHANGED result
  BY DEF Calls, Call, TimeOut
<1>6. Handler \/ UNCHANGED vars => UNCHANGED result
  BY DEF Handler, Handle, PassOver, Return, Acknowledged, vars, calls
<1> QED BY <1>1, <1>2, <1>3, <1>4, <1>5, <1>6 DEF Next, Reader

\* acks is of what was handled, and that of the log.
LEMMA AcksIn == Shape => acks \in 0..Len(author) /\ Len(author) \in Nat
BY LenOf DEF Shape, LogShape, WorkShape

LEMMA ReaderTyped == Shape /\ Typed /\ [Next]_vars => ReaderTypes'
<1> SUFFICES ASSUME Shape, Typed, [Next]_vars PROVE ReaderTypes'
  OBVIOUS
<1>t. /\ ReaderTypes /\ OutboxTypes /\ 0..Len(author) \subseteq 0..Len(author')
      /\ 0 \in 0..Len(author') /\ acks \in 0..Len(author)
  BY LogTyped, AcksIn DEF Typed
<1>1. CASE reader' = reader
  BY <1>1, <1>t DEF ReaderTypes
<1>2. CASE reader' = Reading
  BY <1>2, <1>t, EmptyRange DEF ReaderTypes, Reading
<1>3. CASE reader' = [at |-> "publishing", todo |-> outbox, ack |-> 0]
  BY <1>3, <1>t DEF ReaderTypes, OutboxTypes
<1>4. CASE reader.todo # <<>> /\ reader' = [reader EXCEPT !.todo = Tail(@)]
  <2>1. IsSeq(Tail(reader.todo)) /\ Range(Tail(reader.todo)) \subseteq Requests
    BY <1>4, <1>t, TailRange DEF ReaderTypes
  <2> QED BY <1>4, <1>t, <2>1 DEF ReaderTypes
<1>5. CASE reader' = [reader EXCEPT !.at = "acking", !.ack = acks]
  BY <1>5, <1>t DEF ReaderTypes
<1>6. Post \/ Relay \/ Leave \/ JoinNow \/ JoinFromStart => reader' = reader
  BY DEF Post, Relay, Deliver, Forget, OnPublish, OnAck, Leave, JoinNow, JoinFromStart, Join
<1>7. Connect \/ Break \/ Calls \/ (\E r \in Requests : TimeOut(r)) => reader' = reader
  BY DEF Connect, Break, Calls, Call, TimeOut
<1>8. Notice \/ Crash \/ Flushed => reader' = Reading
  BY DEF Notice, Crash, Flushed
<1>9. Dispatch => reader' \in {reader, [at |-> "publishing", todo |-> outbox, ack |-> 0]}
  BY DEF Dispatch
<1>10. Flush => \/ reader.todo # <<>> /\ reader' = [reader EXCEPT !.todo = Tail(@)]
                \/ reader' = Reading
                \/ reader' = [reader EXCEPT !.at = "acking", !.ack = acks]
  BY DEF Flush
<1>11. Handler \/ UNCHANGED vars => reader' = reader
  BY DEF Handler, Handle, PassOver, Return, Acknowledged, vars
<1> QED BY <1>1, <1>2, <1>3, <1>4, <1>5, <1>6, <1>7, <1>8, <1>9, <1>10, <1>11 DEF Next, Reader

\* What the handler is given and done with is of what others posted.
LEMMA WorkTyped == Shape /\ Typed /\ [Next]_vars => WorkTypes'
<1> SUFFICES ASSUME Shape, Typed, [Next]_vars PROVE WorkTypes'
  OBVIOUS
<1> DEFINE S == Stored(None)
           Handlers(n) == [at : {"idle", "handling", "acking"}, seq : 0..n, ack : 0..n]
<1>t. /\ IsSeq(down) /\ IsSeq(inbox) /\ IsSeq(runs) /\ DownTypes /\ S \subseteq S'
      /\ S \subseteq 0..Len(author) /\ 0..Len(author) \subseteq 0..Len(author')
      /\ Handlers(Len(author)) \subseteq Handlers(Len(author'))
      /\ Idle \in Handlers(Len(author')) /\ Idle.at # "handling"
  <2>1. Len(author) \in Nat /\ Len(author') \in Nat /\ Len(author) <= Len(author')
    BY LogTyped
  <2>2. 0..Len(author) \subseteq 0..Len(author') /\ 0 \in 0..Len(author')
    BY <2>1
  <2>3. S \subseteq 0..Len(author)
    BY <2>1, StoredIn
  <2> QED BY <2>2, <2>3, StoredStays DEF Shape, WireShape, WorkShape, Typed, Idle
<1>w. /\ Range(inbox) \subseteq S /\ Range(runs) \subseteq S /\ handler \in Handlers(Len(author))
      /\ handler.at = "handling" => handler.seq \in S
      /\ handled \in {0} \cup S /\ acks \in {0} \cup S /\ seen \subseteq S
  BY DEF Typed, WorkTypes
<1> SUFFICES /\ Range(inbox') \subseteq S' /\ Range(runs') \subseteq S' /\ handler' \in Handlers(Len(author'))
             /\ handler'.at = "handling" => handler'.seq \in S'
             /\ handled' \in {0} \cup S' /\ acks' \in {0} \cup S' /\ seen' \subseteq S'
  BY DEF WorkTypes
<1> HIDE DEF S, Handlers
<1>1. CASE UNCHANGED <<work, acks>>
  BY <1>1, <1>t, <1>w DEF work
<1>2. CASE Crash
  <2>1. /\ inbox' = <<>> /\ handler' = Idle /\ handled' = 0 /\ acks' = 0 /\ runs' = <<>> /\ seen' = seen
    BY <1>2 DEF Crash
  <2> QED BY <1>t, <1>w, <2>1, EmptyRange
<1>3. CASE Dispatch
  <2> DEFINE f == Head(down)
  <2>1. f \in Range(down)
    BY <1>3, <1>t, TailRange DEF Dispatch
  <2>2. f.type = "message" => f.seq \in S
    BY <1>t, <2>1 DEF DownTypes, S
  <2>3. inbox' = inbox \/ (f.type = "message" /\ inbox' = Append(inbox, f.seq))
    BY <1>3 DEF Dispatch
  <2>4. UNCHANGED <<handler, handled, runs, seen, acks>>
    BY <1>3 DEF Dispatch
  <2> HIDE DEF f
  <2>5. Range(inbox') \subseteq S
    <3>1. CASE f.type = "message" /\ inbox' = Append(inbox, f.seq)
      <4>1. Range(inbox') = Range(inbox) \cup {f.seq}
        BY <1>t, <3>1, AppendRange
      <4> QED BY <1>w, <2>2, <3>1, <4>1
    <3> QED BY <1>w, <2>3, <3>1
  <2> QED BY <1>t, <1>w, <2>4, <2>5
<1>4. CASE Flushed \/ Acknowledged
  <2>1. acks' \in {0, acks} /\ handler' \in {handler, Idle} /\ UNCHANGED <<inbox, handled, runs, seen>>
    BY <1>4 DEF Flushed, Acknowledged, work
  <2> QED BY <1>t, <1>w, <2>1
<1>q. inbox # <<>> => Head(inbox) \in S /\ Range(Tail(inbox)) \subseteq S
  BY <1>t, <1>w, TailRange
<1>5. CASE Handle
  <2> DEFINE q == Head(inbox)
  <2>1. /\ inbox # <<>> /\ inbox' = Tail(inbox) /\ runs' = Append(runs, q)
        /\ handler' = [at |-> "handling", seq |-> q, ack |-> 0]
        /\ UNCHANGED <<handled, seen, acks>>
    BY <1>5 DEF Handle
  <2> HIDE DEF q
  <2>2. q \in S /\ q \in 0..Len(author) /\ Range(runs') \subseteq S
    <3>1. q \in S
      BY <1>q, <2>1 DEF q
    <3>2. Range(runs') = Range(runs) \cup {q}
      BY <1>t, <2>1, AppendRange
    <3> QED BY <1>t, <1>w, <3>1, <3>2
  <2>3. 0 \in 0..Len(author')
    BY LogTyped
  <2>4. handler' \in Handlers(Len(author'))
    BY <1>t, <2>1, <2>2, <2>3 DEF Handlers
  <2>5. Range(inbox') \subseteq S /\ handler'.at = "handling" /\ handler'.seq = q
    BY <1>q, <2>1
  <2> QED BY <1>t, <1>w, <2>1, <2>2, <2>4, <2>5
<1>6. ASSUME NEW q \in S, Acknowledge(q)
      PROVE  acks' \in {0} \cup S /\ handler' \in Handlers(Len(author')) /\ handler'.at # "handling"
  <2>1. acks' \in {q, acks}
    BY <1>6 DEF Acknowledge, Larger
  <2>2. handler' \in {Idle, [at |-> "acking", seq |-> q, ack |-> acks']}
    BY <1>6 DEF Acknowledge
  <2>3. q \in 0..Len(author') /\ acks' \in 0..Len(author')
    BY <1>t, <1>w, <1>6, <2>1, LogTyped
  <2> QED BY <1>t, <1>w, <1>6, <2>1, <2>2, <2>3 DEF Handlers
<1>7. CASE PassOver
  <2>1. /\ inbox # <<>> /\ inbox' = Tail(inbox) /\ Acknowledge(Head(inbox))
        /\ UNCHANGED <<handled, runs, seen>>
    BY <1>7 DEF PassOver
  <2> QED BY <1>t, <1>w, <1>q, <1>6, <2>1
<1>8. CASE Return
  <2>1. /\ handler.at = "handling" /\ handled' = handler.seq /\ seen' = seen \cup {handler.seq}
        /\ Acknowledge(handler.seq) /\ UNCHANGED <<inbox, runs>>
    BY <1>8 DEF Return
  <2> QED BY <1>t, <1>w, <1>6, <2>1
<1>9. Post \/ Relay \/ Leave \/ JoinNow \/ JoinFromStart => UNCHANGED <<work, acks>>
  BY DEF Post, Relay, Deliver, Forget, OnPublish, OnAck, Leave, JoinNow, JoinFromStart, Join
<1>10. Connect \/ Break \/ Notice \/ Calls \/ (\E r \in Requests : TimeOut(r)) => UNCHANGED <<work, acks>>
  BY DEF Connect, Break, Notice, Calls, Call, TimeOut
<1>11. Flush \/ UNCHANGED vars => UNCHANGED <<work, acks>>
  BY DEF Flush, vars
<1> QED BY <1>1, <1>2, <1>3, <1>4, <1>5, <1>7, <1>8, <1>9, <1>10, <1>11 DEF Next, Reader, Handler

LEMMA RestTyped == Shape /\ Typed /\ [Next]_vars => RestTypes'
<1> SUFFICES ASSUME Shape, Typed, [Next]_vars PROVE RestTypes'
  OBVIOUS
<1>t. RestTypes
  BY DEF Typed
<1>1. link' \in {link, "none", "open", "broken"}
  <2>1. Post \/ Relay \/ Leave \/ JoinNow \/ JoinFromStart => link' = link
    BY DEF Post, Relay, Deliver, Forget, OnPublish, OnAck, Leave, JoinNow, JoinFromStart, Join
  <2>2. Connect \/ Break \/ Notice \/ Crash => link' \in {"none", "open", "broken"}
    BY DEF Connect, Break, Notice, Crash
  <2>3. Calls \/ (\E r \in Requests : TimeOut(r)) => link' = link
    BY DEF Calls, Call, TimeOut
  <2>4. Reader \/ Handler \/ UNCHANGED vars => link' = link
    BY DEF Reader, Dispatch, Flush, Flushed, Handler, Handle, PassOver, Return, Acknowledged, vars
  <2> QED BY <2>1, <2>2, <2>3, <2>4 DEF Next
<1>2. again' \in BOOLEAN
  <2>1. JoinFromStart => again' \in BOOLEAN
    BY Zenon DEF JoinFromStart
  <2>2. Post \/ Relay \/ Leave => again' = again
    BY DEF Post, Relay, Deliver, Forget, OnPublish, OnAck, Leave, rejoin
  <2>3. JoinNow => again' \in BOOLEAN
    BY DEF JoinNow
  <2>4. Connect \/ Break \/ Notice \/ Crash \/ Calls \/ (\E r \in Requests : TimeOut(r)) => again' = again
    BY DEF Connect, Break, Notice, Crash, Calls, Call, TimeOut, rejoin
  <2>5. Reader \/ Handler \/ UNCHANGED vars => again' = again
    BY DEF Reader, Dispatch, Flush, Flushed, Handler, Handle, PassOver, Return, Acknowledged, vars, rejoin
  <2> QED BY <1>t, <2>1, <2>2, <2>3, <2>4, <2>5 DEF Next, RestTypes
<1>p. passed' \in 0..Len(author')
  <2>1. passed' \in {passed, 0, sent}
    <3>1. JoinFromStart => passed' \in {0, sent}
      BY DEF JoinFromStart
    <3>2. Post \/ Relay \/ Leave \/ JoinNow => passed' \in {passed, 0}
      BY DEF Post, Relay, Deliver, Forget, OnPublish, OnAck, Leave, JoinNow, rejoin
    <3>3. Connect \/ Break \/ Notice \/ Crash => passed' \in {passed, 0}
      BY DEF Connect, Break, Notice, Crash, rejoin
    <3>4. Calls \/ (\E r \in Requests : TimeOut(r)) => passed' = passed
      BY DEF Calls, Call, TimeOut, rejoin
    <3>5. Reader \/ Handler \/ UNCHANGED vars => passed' = passed
      BY DEF Reader, Dispatch, Flush, Flushed, Handler, Handle, PassOver, Return, Acknowledged, vars, rejoin
    <3> QED BY <3>1, <3>2, <3>3, <3>4, <3>5 DEF Next
  <2>2. Len(author) \in Nat /\ Len(author') \in Nat /\ Len(author) <= Len(author')
    BY LogTyped
  <2>3. passed \in 0..Len(author) /\ sent \in 0..Len(author)
    BY <1>t DEF RestTypes, Shape, LogShape
  <2> QED BY <2>1, <2>2, <2>3
<1>3. acts' \in Histories
  <2>1. Leave \/ JoinNow \/ JoinFromStart \/ Break \/ Crash => acts' \in Histories
    BY DEF Leave, JoinNow, JoinFromStart, Break, Crash, Act
  <2>2. (\E r \in Requests : TimeOut(r)) => acts' \in Histories
    BY DEF TimeOut, Act
  <2>3. Post \/ Relay \/ Connect \/ Notice \/ Calls => acts' = acts
    BY DEF Post, Relay, Deliver, Forget, OnPublish, OnAck, Connect, Notice, Calls, Call
  <2>4. Reader \/ Handler \/ UNCHANGED vars => acts' = acts
    BY DEF Reader, Dispatch, Flush, Flushed, Handler, Handle, PassOver, Return, Acknowledged, vars
  <2> QED BY <1>t, <2>1, <2>2, <2>3, <2>4 DEF Next, RestTypes
<1> QED BY <1>t, <1>1, <1>2, <1>3, <1>p DEF RestTypes

LEMMA TypedStep == Shape /\ Typed /\ [Next]_vars => Typed'
BY LogTyped, UpTyped, DownTyped, OutboxTyped, ResultTyped, ReaderTyped, WorkTyped, RestTyped DEF Typed

LEMMA TypedInit == Init => Typed
<1> SUFFICES ASSUME Init PROVE Typed
  OBVIOUS
<1>1. author = <<>> /\ Len(author) = 0 /\ Stored(None) = {}
  BY EmptyOf DEF Init, Stored
<1>2. Cardinality({}) = 0
  BY FS_EmptySet
<1>3. LogTypes /\ UpTypes /\ DownTypes /\ ResultTypes
  BY <1>1, <1>2, EmptyRange DEF Init, LogTypes, UpTypes, DownTypes, ResultTypes
<1>4. OutboxTypes
  BY EmptyOf, EmptyRange DEF Init, OutboxTypes, Distinct
<1>5. ReaderTypes
  BY <1>1, EmptyRange DEF Init, ReaderTypes, Reading
<1>6. WorkTypes
  BY <1>1, EmptyRange DEF Init, WorkTypes, Idle
<1>7. RestTypes
  <2>1. passed \in 0..Len(author)
    BY <1>1 DEF Init
  <2> QED BY <2>1 DEF Init, RestTypes
<1> QED BY <1>3, <1>4, <1>5, <1>6, <1>7 DEF Typed

\* The log has a message for each post of others and at most one for each request.
LEMMA LogBound == Shape /\ Once /\ Typed => Len(author) <= MaxSeq
<1> SUFFICES ASSUME Shape, Once, Typed PROVE Len(author) <= MaxSeq
  OBVIOUS
<1> DEFINE A == 1..Len(author)
           S == Stored(None)
           f == [q \in A \ S |-> author[q]]
<1>1. Len(author) \in Nat /\ DOMAIN author = A /\ S \subseteq A
  BY LenOf, StoredIn DEF Shape, LogShape
<1>2. \A q \in A \ S : author[q] \in Requests /\ q \in Stored(author[q]) /\ author[q] # None
  BY <1>1 DEF Typed, LogTypes, Range, Stored
<1>3. f \in Injection(A \ S, Requests)
  BY <1>2 DEF Once, Injection, IsInjective
<1>4. Cardinality(A \ S) <= Cardinality(Requests)
  BY <1>3, FS_Injection
<1>5. IsFiniteSet(A) /\ Cardinality(A) = Len(author)
  BY <1>1, FS_Interval
<1>6. IsFiniteSet(S) /\ IsFiniteSet(A \ S) /\ Cardinality(A \ S) = Cardinality(A) - Cardinality(A \cap S)
  BY <1>1, <1>5, FS_Difference, FS_Subset
<1>7. A \cap S = S
  BY <1>1
<1>8. Cardinality(S) \in Nat /\ Cardinality(A \ S) \in Nat /\ Cardinality(Requests) \in Nat
  BY <1>6, FS_CardinalityType
<1>9. Cardinality(S) <= Posts /\ Posts \in Nat
  BY DEF Typed, LogTypes
<1> DEFINE a == Cardinality(A)
           s == Cardinality(S)
           d == Cardinality(A \ S)
           n == Cardinality(Requests)
<1>10. d <= n /\ a = Len(author) /\ d = a - s /\ s \in Nat /\ d \in Nat /\ n \in Nat /\ s <= Posts
  BY <1>4, <1>5, <1>6, <1>7, <1>8, <1>9
<1> HIDE DEF a, s, d, n
<1>11. Len(author) <= Posts + n
  BY <1>1, <1>9, <1>10
<1> QED BY <1>11 DEF MaxSeq, n

LEMMA TypedIs == Shape /\ Once /\ Typed => TypeOK
<1> SUFFICES ASSUME Shape, Once, Typed PROVE TypeOK
  OBVIOUS
<1>1. Len(author) \in Nat /\ Len(author) <= MaxSeq /\ MaxSeq \in Nat
  <2>1. Cardinality(Requests) \in Nat
    BY FS_CardinalityType
  <2> QED BY <2>1, AcksIn, LogBound DEF MaxSeq
<1>2. 0..Len(author) \subseteq 0..MaxSeq /\ 1..Len(author) \subseteq Seqs
  BY <1>1 DEF Seqs
<1>3. Range(up) \subseteq [type : {"publish"}, of : Requests] \cup [type : {"ack"}, of : Seqs]
  <2> SUFFICES ASSUME NEW f \in Range(up)
               PROVE  f \in [type : {"publish"}, of : Requests] \cup [type : {"ack"}, of : Seqs]
    OBVIOUS
  <2>1. CASE \E r \in Requests : f = Publish_(r)
    BY <2>1 DEF Publish_
  <2>2. CASE f = Ack_(f.of)
    <3>1. f.type = "ack"
      BY <2>2 DEF Ack_
    <3>2. f.of \in 1..handled /\ handled \in 0..Len(author)
      BY <3>1 DEF Shape, WireShape, WorkShape
    <3>3. f.of \in Seqs
      BY <1>1, <3>2 DEF Seqs
    <3> QED BY <2>2, <3>3 DEF Ack_
  <2> QED BY <2>1, <2>2 DEF Typed, UpTypes
<1>4. Range(down) \subseteq [type : Types, of : Requests \cup {None}, seq : 0..MaxSeq]
  BY <1>2 DEF Typed, DownTypes
<1>5. /\ cursor \in 0..Len(author) /\ sent \in 0..Len(author) /\ owed \subseteq Stored(None)
      /\ call \in [Requests -> Outcomes]
  BY DEF Shape, LogShape, CallShape
<1>6. /\ result \in [Requests -> 0..MaxSeq] /\ reader.ack \in 0..MaxSeq
      /\ handler \in [at : {"idle", "handling", "acking"}, seq : 0..MaxSeq, ack : 0..MaxSeq]
  BY <1>2 DEF Typed, ResultTypes, ReaderTypes, WorkTypes
<1> QED BY <1>1, <1>3, <1>4, <1>5, <1>6
        DEF TypeOK, Typed, LogTypes, OutboxTypes, ReaderTypes, WorkTypes, RestTypes, Outcomes

\* The outbox has what is waited for and no more than it may, and the log no more
\* than was posted and asked for, for any requests, bounds and histories.
THEOREM ClientTypeCorrect == Spec => []TypeOK
BY ShapeAlways, OnceInit, OnceStep, TypedInit, TypedStep, TypedIs, PTL DEF Spec
=============================================================================
