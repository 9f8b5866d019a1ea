----------------------------- MODULE HubProofs -----------------------------
(***************************************************************************)
(* Theorems about Hub: types, who is registered, and what a delivery       *)
(* sends.  DeliverInv is stated of the places a delivery reads from        *)
(* (Knows), so that most steps keep it by moving no place that matters     *)
(* (Quiet, Smooth).  GotInv, what a worker was sent before its place went  *)
(* past it, is inductive where DeliverInv holds.                           *)
(***************************************************************************)
EXTENDS Hub, FiniteSetTheorems, TLAPS

USE HubAssumption

\* Every set of messages or channels has a first one.
LEMMA FirstOf ==
    ASSUME NEW S \in SUBSET Nat, S # {}
    PROVE  First(S) \in S /\ \A q \in S : First(S) <= q
<1> DEFINE R == {p \in Nat \X Nat : p[1] < p[2]}
<1>1. IsWellFoundedOn(R, Nat)
  BY NatLessThanWellFounded, Zenon DEF OpToRel
<1>2. PICK q \in S : \A r \in S : <<r, q>> \notin R
  <2> HIDE DEF R
  <2> QED BY <1>1, WFMin
<1>3. \A r \in S : q <= r
  <2> SUFFICES ASSUME NEW r \in S, ~ (q <= r) PROVE FALSE
    OBVIOUS
  <2>1. q \in Nat /\ r \in Nat /\ r < q
    OBVIOUS
  <2>2. <<r, q>> \in R
    BY <2>1
  <2> HIDE DEF R
  <2> QED BY <1>2, <2>2
<1> QED BY <1>3, Zenon DEF First

(***************************************************************************)
(* Types, in four parts that depend on each other through last only.       *)
(***************************************************************************)

StoreType ==
    /\ last \in 0..MaxSeq /\ log \subseteq 1..last
    /\ room \in [Seqs -> Channels \cup {0}]
    /\ sender \in [Seqs -> Workers \cup {Server, None}]
    /\ \A q \in 1..last : room[q] \in Channels
    /\ acts \in Histories

PlaceType ==
    /\ cursor \in [Workers -> [Channels -> {NoCursor} \cup 0..last]]
    /\ got \in [Workers -> SUBSET (1..last)] /\ owed \in [Workers -> SUBSET (1..last)]
    /\ mixed \subseteq Workers \X Channels /\ stray \subseteq Workers \X Channels

ConnType ==
    /\ issued \in [Workers -> 1..MaxTokens]
    /\ token \in [Workers -> 0..MaxTokens] /\ \A w \in Workers : token[w] <= issued[w]
    /\ session \in [Workers -> Sockets \cup {None}]
    /\ newest \in [Workers -> Sockets \cup {None}]
    /\ at \in [Sockets -> {"free", "accepting", "replacing", "serving", "ended"}]
    /\ owner \in [Sockets -> Workers \cup {None}]
    /\ \A s \in Sockets : at[s] # "free" => owner[s] \in Workers
    /\ proof \in [Sockets -> 0..MaxTokens]
    /\ up \subseteq Sockets

Loops == [at : {"looking", "sending", "waiting"}, snap : Cursors,
          todo : SUBSET Channels, rows : SUBSET (1..last), more : BOOLEAN]

LoopType ==
    /\ wake \subseteq Sockets /\ tell \subseteq Workers
    /\ pending \in [Sockets -> Nat]
    /\ sent \in [Sockets -> [Channels -> 0..last]]
    /\ loop \in [Sockets -> Loops]
    /\ \A s \in Sockets : loop[s].at = "sending" => loop[s].rows # {}
    /\ frames \in [Sockets -> SUBSET (1..last)]

LEMMA FourTypes == TypeOK <=> StoreType /\ PlaceType /\ ConnType /\ LoopType
BY Zenon DEF TypeOK, StoreType, PlaceType, ConnType, LoopType, Loops

LEMMA FourTypesNext == TypeOK' <=> StoreType' /\ PlaceType' /\ ConnType' /\ LoopType'
BY Zenon DEF TypeOK, StoreType, PlaceType, ConnType, LoopType, Loops

LEMMA ActType == \A what : Act(what) => acts' \in Histories
BY DEF Act

LEMMA RestingType ==
    /\ Resting("looking") \in Loops /\ Resting("waiting") \in Loops
    /\ Resting("looking").at = "looking" /\ Resting("waiting").at = "waiting"
BY DEF Resting, Nowhere, Loops, Cursors

\* Wherever a delivery goes on, it has rows to send or rests.
LEMMA OnwardType ==
    ASSUME StoreType, NEW w \in Workers, NEW snap \in Cursors,
           NEW todo \in SUBSET Channels, NEW done, NEW more \in BOOLEAN
    PROVE  LET l == Onward(w, snap, todo, done, more)
           IN  l \in Loops /\ (l.at = "sending" => l.rows # {})
<1> DEFINE ready == {c \in todo : Rows(w, c, snap, done) # {}}
           c == First(ready)
           rows == Rows(w, c, snap, done)
<1>1. CASE ready = {}
  <2>1. Onward(w, snap, todo, done, more) = Resting(IF more THEN "looking" ELSE "waiting")
    BY <1>1, Zenon DEF Onward
  <2> QED BY <2>1, RestingType
<1>2. CASE ready # {}
  <2>1. c \in ready
    <3>1. ready \in SUBSET Nat
      OBVIOUS
    <3> QED BY <1>2, <3>1, FirstOf
  <2>2. rows # {}
    BY <2>1
  <2>3. rows \subseteq 1..last
    BY DEF Rows, Lowest, StoreType
  <2>4. Onward(w, snap, todo, done, more) =
            [at |-> "sending", snap |-> snap, todo |-> {d \in todo : d > c},
             rows |-> rows, more |-> more \/ Cardinality(rows) = Batch]
    BY <1>2, Zenon DEF Onward
  <2>5. {d \in todo : d > c} \in SUBSET Channels
    OBVIOUS
  <2> HIDE DEF rows, c
  <2> QED BY <2>2, <2>3, <2>4, <2>5 DEF Loops
<1> QED BY <1>1, <1>2

LEMMA HubTypeInit == Init => TypeOK
<1> SUFFICES ASSUME Init PROVE StoreType /\ PlaceType /\ ConnType /\ LoopType
  BY FourTypes
<1>1. StoreType /\ PlaceType /\ ConnType
  BY DEF Init, StoreType, PlaceType, ConnType, NoCursor
<1>2. LoopType
  BY RestingType, <1>1 DEF Init, LoopType, Unsent, StoreType
<1> QED BY <1>1, <1>2

\* What a step that leaves last alone keeps.
LEMMA Stays ==
    ASSUME TypeOK, last' = last
    PROVE  /\ UNCHANGED <<room, sender, log>> /\ acts' \in Histories => StoreType'
           /\ UNCHANGED <<cursor, history>> => PlaceType'
           /\ UNCHANGED <<conns, keys>> => ConnType'
           /\ UNCHANGED <<wake, tell, pending, sent, loop, frames>> => LoopType'
BY DEF TypeOK, StoreType, PlaceType, ConnType, LoopType, Loops, conns, keys, history

LEMMA ForgetType ==
    ASSUME TypeOK, last' = last, UNCHANGED <<got, mixed, stray>>, NEW w \in Workers, NEW C, Forget(w, C)
    PROVE  PlaceType'
BY DEF TypeOK, PlaceType, Forget

LEMMA NotifyType ==
    ASSUME TypeOK, NEW w \in Workers, Notify(w)
    PROVE  pending' \in [Sockets -> Nat]
BY DEF TypeOK, Notify

LEMMA PostType ==
    ASSUME TypeOK, NEW c \in Channels, NEW from \in Workers \cup {Server}, Post(c, from)
    PROVE  TypeOK'
<1> USE DEF TypeOK, Post, store, keys, conns, delivery
<1>1. last' = last + 1 /\ last + 1 \in Seqs /\ last \in Nat
  BY DEF Seqs
<1>2. StoreType'
  <2>1. \A q \in 1..last' : room'[q] \in Channels
    BY <1>1 DEF Seqs
  <2> QED BY <1>1, <2>1 DEF StoreType, Seqs
<1>3. 1..last \subseteq 1..last' /\ last' \in 1..last' /\ 0..last \subseteq 0..last'
  BY <1>1
<1>4. PlaceType'
  <2>1. cursor' \in [Workers -> [Channels -> {NoCursor} \cup 0..last']]
    BY <1>3
  <2>2. owed' \in [Workers -> SUBSET (1..last')]
    BY <1>1, <1>3
  <2>3. got' \in [Workers -> SUBSET (1..last')]
    BY <1>3
  <2> QED BY <2>1, <2>2, <2>3 DEF PlaceType
<1>5. ConnType'
  BY DEF ConnType
<1>6. LoopType'
  <2>1. wake' \subseteq Sockets
    OBVIOUS
  <2>2. sent' \in [Sockets -> [Channels -> 0..last']]
    BY <1>3
  <2>3. loop' \in [Sockets -> Loops'] /\ \A s \in Sockets : loop'[s].at = "sending" => loop'[s].rows # {}
    BY <1>3 DEF Loops
  <2>4. frames' \in [Sockets -> SUBSET (1..last')]
    BY <1>3
  <2> QED BY <2>1, <2>2, <2>3, <2>4 DEF LoopType, waking
<1> QED BY <1>2, <1>4, <1>5, <1>6, FourTypesNext, Zenon

LEMMA MembersType ==
    ASSUME TypeOK, NEW w \in Workers, NEW c \in Channels
    PROVE  /\ Leave(w, c) => TypeOK'
           /\ JoinNow(w, c) \/ JoinFromStart(w, c) => TypeOK'
<1> USE Stays, ActType, FourTypesNext, NotifyType, ForgetType
<1>1. ASSUME Leave(w, c) PROVE TypeOK'
  <2>1. last' = last /\ ConnType' /\ StoreType'
    BY <1>1 DEF Leave, store, keys, conns, TypeOK
  <2>2. PlaceType'
    BY <1>1, <2>1 DEF Leave
  <2>3. LoopType'
    BY <1>1, <2>1 DEF Leave, LoopType, delivery, TypeOK, Loops
  <2> QED BY <2>1, <2>2, <2>3
<1>2. ASSUME NEW from \in 0..last, Join(w, c, from), acts' \in Histories PROVE TypeOK'
  <2>1. last' = last /\ ConnType' /\ StoreType'
    BY <1>2 DEF Join, store, keys, conns, TypeOK
  <2>2. PlaceType'
    <3>1. cursor' \in [Workers -> [Channels -> {NoCursor} \cup 0..last]]
      BY <1>2 DEF Join, TypeOK
    <3>2. owed' \in [Workers -> SUBSET (1..last)]
      BY <1>2 DEF Join, TypeOK
    <3>3. mixed' \subseteq Workers \X Channels /\ stray' \subseteq Workers \X Channels
      BY <1>2 DEF Join, TypeOK
    <3>4. got' \in [Workers -> SUBSET (1..last)]
      BY <1>2 DEF Join, TypeOK
    <3> QED BY <1>2, <2>1, <3>1, <3>2, <3>3, <3>4 DEF PlaceType, Join, TypeOK
  <2>3. LoopType'
    BY <1>2, <2>1 DEF Join, LoopType, delivery, TypeOK, Loops
  <2> QED BY <2>1, <2>2, <2>3
<1>3. ASSUME JoinNow(w, c) \/ JoinFromStart(w, c) PROVE TypeOK'
  <2>1. last \in 0..last /\ 0 \in 0..last
    BY DEF TypeOK
  <2> QED BY <1>2, <1>3, <2>1 DEF JoinNow, JoinFromStart
<1> QED BY <1>1, <1>3, Zenon

LEMMA ToldType ==
    /\ \A c \in Channels : TypeOK /\ RemoveChannel(c) => TypeOK'
    /\ \A w \in Workers : TypeOK /\ Tell(w) => TypeOK'
<1> USE Stays, FourTypesNext, NotifyType, ActType
<1>1. ASSUME TypeOK, NEW c \in Channels, RemoveChannel(c) PROVE TypeOK'
  <2>1. last' = last /\ ConnType'
    BY <1>1 DEF RemoveChannel, keys, conns
  <2>2. StoreType' /\ PlaceType'
    BY <1>1 DEF RemoveChannel, StoreType, PlaceType, TypeOK
  <2>3. LoopType'
    BY <1>1, <2>1 DEF RemoveChannel, LoopType, delivery, TypeOK, Loops
  <2> QED BY <2>1, <2>2, <2>3
<1>2. ASSUME TypeOK, NEW w \in Workers, Tell(w) PROVE TypeOK'
  <2>1. last' = last /\ ConnType' /\ StoreType' /\ PlaceType'
    BY <1>2 DEF Tell, store, keys, conns, history, TypeOK
  <2>2. LoopType'
    BY <1>2, <2>1 DEF Tell, LoopType, delivery, TypeOK, Loops
  <2> QED BY <2>1, <2>2
<1> QED BY <1>1, <1>2, Zenon

LEMMA ConnectionType ==
    ASSUME TypeOK, NEW s \in Sockets
    PROVE  /\ (\E w \in Workers : Arrive(s, w)) => TypeOK'
           /\ Serve(s) \/ Register(s) => TypeOK'
           /\ End(s) \/ Drop(s) \/ Notified(s) => TypeOK'
<1> USE Stays, ActType, FourTypesNext
<1>1. ASSUME NEW w \in Workers, Arrive(s, w) PROVE TypeOK'
  <2>1. last' = last /\ StoreType' /\ PlaceType' /\ LoopType'
    BY <1>1 DEF Arrive, store, history, waking, delivery, TypeOK
  <2>2. ConnType'
    BY <1>1 DEF Arrive, ConnType, TypeOK, keys
  <2> QED BY <2>1, <2>2
<1>2. ASSUME Serve(s) \/ Register(s) PROVE TypeOK'
  <2>1. last' = last /\ StoreType' /\ PlaceType'
    BY <1>2 DEF Serve, Register, store, history, TypeOK
  <2>2. at[s] # "free" /\ owner[s] \in Workers
    BY <1>2 DEF Serve, Register, TypeOK
  <2>3. CASE Enter(s)
    <3>1. up' \subseteq Sockets /\ UNCHANGED <<keys, waking>>
      BY <1>2 DEF Serve, Register, TypeOK
    <3>2. ConnType'
      BY <2>2, <2>3, <3>1 DEF Enter, ConnType, TypeOK, keys
    <3>3. LoopType'
      <4>1. loop' \in [Sockets -> Loops] /\ \A r \in Sockets : loop'[r].at = "sending" => loop'[r].rows # {}
        BY <2>3, RestingType DEF Enter, TypeOK, Loops
      <4> QED BY <2>1, <2>3, <3>1, <4>1 DEF Enter, LoopType, TypeOK, waking, Loops
    <3> QED BY <2>1, <3>2, <3>3
  <2>4. CASE ~ Enter(s)
    <3>1. UNCHANGED <<session, newest, owner, proof, delivery, keys, waking>>
      BY <1>2, <2>4 DEF Serve, Register
    <3>2. at' = [at EXCEPT ![s] = "replacing"] /\ up' \subseteq Sockets
      BY <1>2, <2>4 DEF Serve, Register, TypeOK
    <3>3. ConnType'
      BY <2>2, <3>1, <3>2 DEF ConnType, TypeOK, keys
    <3>4. LoopType'
      BY <2>1, <3>1 DEF waking, delivery
    <3> QED BY <2>1, <3>3, <3>4
  <2> QED BY <2>3, <2>4
<1>3. ASSUME End(s) PROVE TypeOK'
  <2>1. last' = last /\ StoreType' /\ PlaceType'
    BY <1>3 DEF End, store, history, TypeOK
  <2>2. ConnType'
    BY <1>3 DEF End, Gone, Serving, ConnType, TypeOK, keys
  <2>3. LoopType'
    <3>1. sent' \in [Sockets -> [Channels -> 0..last]]
      BY <1>3 DEF End, Gone, Unsent, TypeOK
    <3>2. loop' \in [Sockets -> Loops] /\ \A r \in Sockets : loop'[r].at = "sending" => loop'[r].rows # {}
      BY <1>3, RestingType DEF End, Gone, TypeOK, Loops
    <3> QED BY <1>3, <2>1, <3>1, <3>2 DEF End, Gone, LoopType, TypeOK, Loops
  <2> QED BY <2>1, <2>2, <2>3
<1>4. ASSUME Drop(s) PROVE TypeOK'
  <2>1. last' = last /\ StoreType' /\ PlaceType' /\ LoopType'
    BY <1>4 DEF Drop, store, history, waking, delivery
  <2>2. ConnType'
    BY <1>4 DEF Drop, ConnType, TypeOK, keys
  <2> QED BY <2>1, <2>2
<1>5. ASSUME Notified(s) PROVE TypeOK'
  <2>1. last' = last /\ ConnType' /\ StoreType' /\ PlaceType'
    BY <1>5 DEF Notified, store, keys, conns, history, TypeOK
  <2>2. LoopType'
    <3>1. wake' \subseteq Sockets /\ UNCHANGED <<delivery, tell>>
      BY <1>5 DEF Notified, TypeOK
    <3>2. pending' \in [Sockets -> Nat]
      BY <1>5 DEF Notified, TypeOK
    <3> QED BY <2>1, <3>1, <3>2 DEF LoopType, delivery, TypeOK, Loops
  <2> QED BY <2>1, <2>2
<1> QED BY <1>1, <1>2, <1>3, <1>4, <1>5, Zenon

LEMMA WorkerType ==
    ASSUME TypeOK, NEW w \in Workers
    PROVE  Rotate(w) \/ RemoveWorker(w) \/ AddWorker(w) => TypeOK'
<1> USE Stays, ActType, FourTypesNext
<1>1. ASSUME Rotate(w) \/ AddWorker(w) PROVE TypeOK'
  <2>1. last' = last /\ StoreType' /\ PlaceType' /\ LoopType'
    BY <1>1 DEF Rotate, AddWorker, store, history, waking, delivery, TypeOK
  <2>2. issued'[w] \in 1..MaxTokens /\ issued[w] < issued'[w]
    BY <1>1 DEF Rotate, AddWorker, TypeOK
  <2>3. /\ UNCHANGED <<session, newest, at, owner, proof>> /\ up' \subseteq up
        /\ token' = [token EXCEPT ![w] = issued'[w]]
        /\ issued' = [issued EXCEPT ![w] = @ + 1]
    BY <1>1 DEF Rotate, AddWorker, Kick, conns
  <2>4. ConnType
    BY FourTypes, Zenon
  <2>5. issued' \in [Workers -> 1..MaxTokens]
    BY <2>2, <2>3, <2>4 DEF ConnType
  <2>6. token' \in [Workers -> 0..MaxTokens] /\ \A v \in Workers : token'[v] <= issued'[v]
    BY <2>2, <2>3, <2>4, <2>5 DEF ConnType
  <2>7. ConnType'
    BY <2>3, <2>4, <2>5, <2>6 DEF ConnType
  <2> QED BY <2>1, <2>7
<1>2. ASSUME RemoveWorker(w) PROVE TypeOK'
  <2>1. last' = last /\ StoreType' /\ LoopType'
    BY <1>2 DEF RemoveWorker, store, waking, delivery, TypeOK
  <2>2. PlaceType'
    BY <1>2, <2>1, ForgetType DEF RemoveWorker
  <2>3. /\ UNCHANGED <<issued, session, newest, at, owner, proof>> /\ up' \subseteq up
        /\ token' = [token EXCEPT ![w] = 0]
    BY <1>2 DEF RemoveWorker, Kick
  <2>4. ConnType
    BY FourTypes, Zenon
  <2>5. token' \in [Workers -> 0..MaxTokens] /\ \A v \in Workers : token'[v] <= issued[v]
    BY <2>3, <2>4 DEF ConnType
  <2>6. ConnType'
    BY <2>3, <2>4, <2>5 DEF ConnType
  <2> QED BY <2>1, <2>2, <2>6
<1> QED BY <1>1, <1>2

LEMMA DeliveryType ==
    ASSUME TypeOK, NEW s \in Sockets
    PROVE  /\ Look(s) => TypeOK'
           /\ Send(s) => TypeOK'
           /\ (\E c \in Channels, q \in Seqs : Ack(s, c, q)) => TypeOK'
<1> USE Stays, ActType, FourTypesNext
<1>1. ASSUME Serving(s) PROVE owner[s] \in Workers
  BY <1>1 DEF Serving, TypeOK
<1>2. ASSUME Look(s) PROVE TypeOK'
  <2> DEFINE w == owner[s]
             done == [c \in Channels |-> IF Member(w, c) THEN sent[s][c] ELSE 0]
             here == {c \in Channels : Member(w, c)}
  <2>1. last' = last /\ StoreType' /\ PlaceType' /\ ConnType'
    BY <1>2 DEF Look, store, history, TypeOK
  <2>2. w \in Workers /\ StoreType
    BY <1>1, <1>2, FourTypes DEF Look
  <2>3. cursor[w] \in Cursors
    BY <2>2 DEF TypeOK, Cursors
  <2>4. done \in [Channels -> 0..last]
    BY <2>2 DEF TypeOK
  <2>5. LET l == Onward(w, cursor[w], here, done, FALSE)
        IN  l \in Loops /\ (l.at = "sending" => l.rows # {})
    <3> HIDE DEF done, w
    <3> QED BY <2>2, <2>3, OnwardType
  <2>6. loop' = [loop EXCEPT ![s] = Onward(w, cursor[w], here, done, FALSE)]
    BY <1>2 DEF Look
  <2>7. sent' = [sent EXCEPT ![s] = done] /\ wake' = wake \ {s} /\ UNCHANGED <<frames, tell, pending>>
    BY <1>2 DEF Look
  <2>8. LoopType'
    <3> HIDE DEF done, w, here
    <3>1. loop' \in [Sockets -> Loops] /\ \A r \in Sockets : loop'[r].at = "sending" => loop'[r].rows # {}
      BY <2>5, <2>6 DEF TypeOK, Loops
    <3> QED BY <2>1, <2>4, <2>7, <3>1 DEF LoopType, TypeOK, Loops
  <2> QED BY <2>1, <2>8
<1>3. ASSUME Send(s) PROVE TypeOK'
  <2> DEFINE l == loop[s]
             q == First(l.rows)
             done == [sent[s] EXCEPT ![room[q]] = q]
             on == Onward(owner[s], l.snap, l.todo, done, l.more)
  <2>1. last' = last /\ StoreType' /\ ConnType'
    BY <1>3 DEF Send, store, TypeOK
  <2>2. owner[s] \in Workers /\ StoreType
    BY <1>1, <1>3, FourTypes DEF Send
  <2>3. l \in Loops /\ l.rows # {}
    BY <1>3 DEF Send, TypeOK, Loops
  <2>4. q \in 1..last
    <3>1. l.rows \in SUBSET (1..last)
      <4> HIDE DEF l
      <4> QED BY <2>3 DEF Loops
    <3>2. 1..last \subseteq Nat
      BY <2>2 DEF StoreType
    <3>3. l.rows \in SUBSET Nat
      BY <3>1, <3>2, Zenon
    <3>4. q \in l.rows
      BY <2>3, <3>3, FirstOf, Zenon
    <3> QED BY <3>1, <3>4, Zenon
  <2>5. done \in [Channels -> 0..last]
    <3> HIDE DEF q
    <3> QED BY <2>4 DEF TypeOK
  <2>6. on \in Loops /\ (on.at = "sending" => on.rows # {})
    <3> HIDE DEF done
    <3>1. l.snap \in Cursors /\ l.todo \in SUBSET Channels /\ l.more \in BOOLEAN
      BY <2>3 DEF Loops
    <3> HIDE DEF l
    <3> QED BY <2>2, <3>1, OnwardType
  <2>7. [l EXCEPT !.rows = @ \ {q}] \in Loops
    <3> HIDE DEF q
    <3> QED BY <2>3 DEF Loops
  <2>8. loop'[s] \in Loops /\ (loop'[s].at = "sending" => loop'[s].rows # {})
        /\ loop' = [loop EXCEPT ![s] = loop'[s]]
    <3>1. loop' = [loop EXCEPT ![s] = IF l.rows # {q} THEN [l EXCEPT !.rows = @ \ {q}] ELSE on]
      BY <1>3 DEF Send
    <3>2. loop'[s] = IF l.rows # {q} THEN [l EXCEPT !.rows = @ \ {q}] ELSE on
      BY <3>1 DEF TypeOK
    <3>3. loop' = [loop EXCEPT ![s] = loop'[s]]
      BY <3>1, <3>2, Zenon
    <3>4. l.rows # {q} => [l EXCEPT !.rows = @ \ {q}].rows # {}
      <4> HIDE DEF q
      <4> QED BY <2>3 DEF Loops
    <3> HIDE DEF on, q, l
    <3> QED BY <2>6, <2>7, <3>2, <3>3, <3>4
  <2>9. /\ sent' = [sent EXCEPT ![s] = done] /\ frames' = [frames EXCEPT ![s] = @ \cup {q}]
        /\ UNCHANGED waking
    BY <1>3 DEF Send
  <2>10. LoopType'
    <3> HIDE DEF done, q, on
    <3>1. loop' \in [Sockets -> Loops] /\ \A r \in Sockets : loop'[r].at = "sending" => loop'[r].rows # {}
      BY <2>8 DEF TypeOK, Loops
    <3>2. frames' \in [Sockets -> SUBSET (1..last)] /\ sent' \in [Sockets -> [Channels -> 0..last]]
      <4>1. LoopType
        BY FourTypes
      <4>2. frames' \in [Sockets -> SUBSET (1..last)]
        BY <2>4, <2>9, <4>1 DEF LoopType
      <4> QED BY <2>5, <2>9, <4>1, <4>2 DEF LoopType
    <3> QED BY <2>1, <2>9, <3>1, <3>2 DEF LoopType, TypeOK, Loops, waking
  <2>11. PlaceType'
    <3>1. got' = [got EXCEPT ![owner[s]] = @ \cup {q}] /\ UNCHANGED <<cursor, owed, mixed, stray>>
      BY <1>3 DEF Send
    <3> HIDE DEF q
    <3>2. PlaceType
      BY FourTypes
    <3>3. got \in [Workers -> SUBSET (1..last)]
      BY <3>2 DEF PlaceType
    <3>4. got[owner[s]] \cup {q} \in SUBSET (1..last)
      BY <2>2, <2>4, <3>3
    <3>5. got' \in [Workers -> SUBSET (1..last)]
      BY <3>1, <3>3, <3>4
    <3> QED BY <2>1, <3>1, <3>2, <3>5 DEF PlaceType
  <2> QED BY <2>1, <2>10, <2>11
<1>4. ASSUME NEW c \in Channels, NEW q \in Seqs, Ack(s, c, q) PROVE TypeOK'
  <2> DEFINE w == owner[s]
  <2>1. /\ last' = last /\ ConnType' /\ LoopType'
        /\ UNCHANGED <<room, sender, log, got, owed, mixed>>
    BY <1>4 DEF Ack, store, waking, delivery, TypeOK
  <2>2. w \in Workers
    BY <1>1, <1>4 DEF Ack
  <2>3. PICK top \in log \cup {0} :
           LET to == IF q < top THEN q ELSE top
           IN  cursor' = [cursor EXCEPT ![w][c] = Larger(@, to)] /\ Counted(w, c, to)
    BY <1>4, Zenon DEF Ack
  <2>4. Larger(cursor[w][c], IF q < top THEN q ELSE top) \in 0..last
    <3>1. top \in 0..last /\ q \in Nat /\ last \in Nat
      BY <2>3 DEF TypeOK, Seqs
    <3>2. cursor[w][c] # NoCursor
      BY <1>4 DEF Ack, Member
    <3>3. cursor[w][c] \in {NoCursor} \cup 0..last
      <4> HIDE DEF w
      <4> QED BY <2>2 DEF TypeOK
    <3> QED BY <3>1, <3>2, <3>3 DEF Larger
  <2>5. cursor' \in [Workers -> [Channels -> {NoCursor} \cup 0..last]]
    BY <2>2, <2>3, <2>4 DEF TypeOK
  <2>6. acts' \in Histories /\ stray' \subseteq Workers \X Channels
    BY <2>2, <2>3, ActType DEF Counted, TypeOK
  <2>7. StoreType' /\ PlaceType'
    BY <2>1, <2>5, <2>6 DEF PlaceType, StoreType, TypeOK
  <2> QED BY <2>1, <2>7
<1> QED BY <1>2, <1>3, <1>4, Zenon

LEMMA ServerType == TypeOK /\ (Prune \/ Restart) => TypeOK'
<1> USE Stays, ActType, FourTypesNext
<1>1. ASSUME TypeOK, Prune PROVE TypeOK'
  <2>1. last' = last /\ ConnType' /\ LoopType'
    BY <1>1 DEF Prune, Delete, keys, conns, waking, delivery
  <2>2. StoreType'
    BY <1>1 DEF Prune, Delete, StoreType, TypeOK
  <2>3. PlaceType'
    <3>1. UNCHANGED <<last, cursor, got, mixed, stray>> /\ \A w \in Workers : owed'[w] \subseteq owed[w]
      BY <1>1 DEF Prune, Delete
    <3>2. owed' \in [Workers -> SUBSET (1..last)]
      BY <1>1 DEF Prune, Delete, TypeOK
    <3>3. PlaceType
      BY <1>1, FourTypes
    <3> QED BY <3>1, <3>2, <3>3 DEF PlaceType
  <2> QED BY <2>1, <2>2, <2>3
<1>2. ASSUME TypeOK, Restart PROVE TypeOK'
  <2>1. last' = last /\ StoreType' /\ PlaceType'
    BY <1>2 DEF Restart, store, history, TypeOK
  <2>2. ConnType'
    BY <1>2 DEF Restart, ConnType, TypeOK, keys
  <2>3. LoopType'
    <3>1. sent' \in [Sockets -> [Channels -> 0..last]]
      BY <1>2 DEF Restart, Unsent, TypeOK
    <3>2. loop' \in [Sockets -> Loops] /\ \A s \in Sockets : loop'[s].at = "waiting"
      BY <1>2, RestingType DEF Restart
    <3>3. /\ wake' = {} /\ tell' = {} /\ pending' \in [Sockets -> Nat]
          /\ frames' \in [Sockets -> SUBSET (1..last)]
      BY <1>2 DEF Restart
    <3> QED BY <2>1, <3>1, <3>2, <3>3 DEF LoopType, Loops
  <2> QED BY <2>1, <2>2, <2>3
<1> QED BY <1>1, <1>2

LEMMA HubTypeStep == TypeOK /\ [Next]_vars => TypeOK'
<1> SUFFICES ASSUME TypeOK, [Next]_vars PROVE TypeOK'
  OBVIOUS
<1>1. CASE UNCHANGED vars
  BY <1>1 DEF vars, store, keys, conns, delivery, waking, history, TypeOK
<1>2. ASSUME NEW c \in Channels,
             RemoveChannel(c) \/ \E from \in Workers \cup {Server} : Post(c, from)
      PROVE  TypeOK'
  BY <1>2, PostType, ToldType, Zenon
<1>3. ASSUME NEW w \in Workers, Admin(w) PROVE TypeOK'
  BY <1>3, MembersType, ToldType, WorkerType, Zenon DEF Admin
<1>4. ASSUME NEW s \in Sockets,
             Connection(s) \/ Look(s) \/ Send(s) \/ \E c \in Channels, q \in Seqs : Ack(s, c, q)
      PROVE  TypeOK'
  BY <1>4, ConnectionType, DeliveryType, Zenon DEF Connection
<1>5. CASE Prune \/ Restart
  BY <1>5, ServerType
<1> QED BY <1>1, <1>2, <1>3, <1>4, <1>5, Zenon DEF Next

\* Hub's type invariant holds for any workers, sockets, channels, batch size and
\* histories.
THEOREM HubTypeCorrect == Spec => []TypeOK
BY HubTypeInit, HubTypeStep, PTL DEF Spec

(***************************************************************************)
(* Who is registered.                                                      *)
(***************************************************************************)

\* Whoever registered last for a worker authenticated as that worker, and is
\* served or was.
NewestInv ==
    \A w \in Workers : newest[w] # None =>
        owner[newest[w]] = w /\ at[newest[w]] \in {"serving", "ended"}

PresenceInv == Presence /\ NewestInv

\* Connections that are not yet served may do what they like.
LEMMA PresenceFrame ==
    ASSUME TypeOK, PresenceInv, UNCHANGED <<session, newest>>,
           \A s \in Sockets : at[s] \in {"serving", "ended"} =>
               at'[s] = at[s] /\ owner'[s] = owner[s]
    PROVE  PresenceInv'
<1>1. \A w \in Workers : newest[w] # None => newest[w] \in Sockets
  BY DEF TypeOK
<1>2. NewestInv'
  BY <1>1 DEF PresenceInv, NewestInv
<1>3. Presence'
  BY <1>1 DEF PresenceInv, NewestInv, Presence, Serving
<1> QED BY <1>2, <1>3 DEF PresenceInv

LEMMA EnterPresence ==
    ASSUME TypeOK, PresenceInv, NEW s \in Sockets, owner[s] \in Workers,
           at[s] \in {"accepting", "replacing"}, Enter(s)
    PROVE  PresenceInv'
<1>1. \A w \in Workers : newest[w] # s
  BY DEF PresenceInv, NewestInv, TypeOK
<1>2. ASSUME NEW w \in Workers
      PROVE  /\ newest'[w] # None =>
                    owner'[newest'[w]] = w /\ at'[newest'[w]] \in {"serving", "ended"}
             /\ session'[w] = IF newest'[w] # None /\ at'[newest'[w]] = "serving"
                              THEN newest'[w] ELSE None
  <2>1. CASE w = owner[s]
    BY <2>1 DEF Enter, TypeOK
  <2>2. CASE w # owner[s]
    <3>1. newest'[w] = newest[w] /\ session'[w] = session[w]
      BY <2>2 DEF Enter, TypeOK
    <3>2. newest[w] # None => at'[newest[w]] = at[newest[w]] /\ owner'[newest[w]] = owner[newest[w]]
      BY <1>1 DEF Enter, TypeOK
    <3> QED BY <3>1, <3>2 DEF PresenceInv, NewestInv, Presence, Serving
  <2> QED BY <2>1, <2>2
<1> QED BY <1>2 DEF PresenceInv, NewestInv, Presence, Serving

\* The finally of a session that was replaced leaves its successor's place.
LEMMA EndPresence ==
    ASSUME TypeOK, PresenceInv, NEW s \in Sockets, End(s)
    PROVE  PresenceInv'
<1> DEFINE o == owner[s]
<1>1. /\ at[s] = "serving" /\ o \in Workers
      /\ session' = [session EXCEPT ![o] = IF @ = s THEN None ELSE @]
      /\ at' = [at EXCEPT ![s] = "ended"]
      /\ UNCHANGED <<newest, owner>>
  BY DEF End, Gone, Serving, TypeOK
<1>2. NewestInv'
  BY <1>1 DEF PresenceInv, NewestInv, TypeOK
<1>3. ASSUME NEW w \in Workers
      PROVE  session'[w] = IF newest[w] # None /\ at'[newest[w]] = "serving"
                           THEN newest[w] ELSE None
  <2>1. CASE newest[w] = s
    <3>1. w = o /\ session[w] = s
      BY <1>1, <2>1 DEF PresenceInv, NewestInv, Presence, Serving
    <3> QED BY <1>1, <2>1, <3>1 DEF TypeOK
  <2>2. CASE newest[w] # s
    <3>1. session[w] # s
      BY <2>2 DEF PresenceInv, Presence
    <3>2. session'[w] = session[w]
      BY <1>1, <3>1 DEF TypeOK
    <3>3. newest[w] # None => at'[newest[w]] = at[newest[w]]
      BY <1>1, <2>2 DEF TypeOK
    <3> QED BY <3>2, <3>3 DEF PresenceInv, Presence, Serving
  <2> QED BY <2>1, <2>2
<1>4. Presence'
  BY <1>1, <1>3 DEF Presence, Serving
<1> QED BY <1>2, <1>4 DEF PresenceInv

LEMMA PresenceInitial == Init => PresenceInv
BY DEF Init, PresenceInv, Presence, NewestInv

LEMMA PresenceStep == TypeOK /\ PresenceInv /\ [Next]_vars => PresenceInv'
<1> SUFFICES ASSUME TypeOK, PresenceInv, [Next]_vars PROVE PresenceInv'
  OBVIOUS
<1>1. CASE UNCHANGED <<session, newest, at, owner>>
  BY <1>1, PresenceFrame
<1>2. ASSUME NEW s \in Sockets, NEW w \in Workers, Arrive(s, w) PROVE PresenceInv'
  BY <1>2, PresenceFrame DEF Arrive, TypeOK
<1>3. ASSUME NEW s \in Sockets, Serve(s) PROVE PresenceInv'
  <2>1. at[s] = "accepting" /\ owner[s] \in Workers
    BY <1>3 DEF Serve, TypeOK
  <2>2. CASE Enter(s)
    BY <2>1, <2>2, EnterPresence
  <2>3. CASE ~ Enter(s)
    <3>1. at' = [at EXCEPT ![s] = "replacing"] /\ UNCHANGED <<session, newest, owner>>
      BY <1>3, <2>3 DEF Serve
    <3> QED BY <2>1, <3>1, PresenceFrame DEF TypeOK
  <2> QED BY <2>2, <2>3
<1>4. ASSUME NEW s \in Sockets, Register(s) PROVE PresenceInv'
  BY <1>4, EnterPresence DEF Register, TypeOK
<1>5. ASSUME NEW s \in Sockets, End(s) PROVE PresenceInv'
  BY <1>5, EndPresence
<1>6. CASE Restart
  BY <1>6 DEF Restart, PresenceInv, Presence, NewestInv
<1>7. ASSUME Prune \/ (\E c \in Channels : RemoveChannel(c) \/ \E from \in Workers \cup {Server} : Post(c, from))
      PROVE  UNCHANGED <<session, newest, at, owner>>
  BY <1>7 DEF Prune, RemoveChannel, Post, conns
<1>8. ASSUME NEW w \in Workers, Admin(w) PROVE UNCHANGED <<session, newest, at, owner>>
  BY <1>8 DEF Admin, Rotate, RemoveWorker, AddWorker, Tell, JoinNow, JoinFromStart, Join, Leave, conns
<1>9. ASSUME NEW s \in Sockets,
             \/ Drop(s) \/ Notified(s) \/ Look(s) \/ Send(s)
             \/ \E c \in Channels, q \in Seqs : Ack(s, c, q)
      PROVE  UNCHANGED <<session, newest, at, owner>>
  BY <1>9 DEF Drop, Notified, Look, Send, Ack, conns
<1>10. CASE UNCHANGED vars
  BY <1>1, <1>10 DEF vars, conns
<1> QED
  BY <1>1, <1>2, <1>3, <1>4, <1>5, <1>6, <1>7, <1>8, <1>9, <1>10, Zenon DEF Next, Connection

\* However connections replace each other, end, are lost or kicked, and however
\* often the server restarts, the worker's registered socket is the one that
\* registered last, until that one is done.
THEOREM PresenceAlways == Spec => []Presence
<1>1. Init => TypeOK /\ PresenceInv
  BY HubTypeInit, PresenceInitial
<1>2. TypeOK /\ PresenceInv /\ [Next]_vars => TypeOK' /\ PresenceInv'
  BY HubTypeStep, PresenceStep
<1>3. PresenceInv => Presence
  BY DEF PresenceInv
<1> QED BY <1>1, <1>2, <1>3, PTL DEF Spec

(***************************************************************************)
(* What a read of the rows returns.                                        *)
(***************************************************************************)

\* If a read leaves a row out it is full, and what it left out comes after it.
LEMMA LowestRows ==
    ASSUME NEW k \in Nat, NEW S \in SUBSET (1..k), NEW n \in Nat \ {0}
    PROVE  /\ Lowest(S, n) \subseteq S
           /\ \A q \in S, r \in Lowest(S, n) : q < r => q \in Lowest(S, n)
           /\ Lowest(S, n) = {} => S = {}
           /\ Lowest(S, n) # S => Cardinality(Lowest(S, n)) = n
<1> DEFINE L == Lowest(S, n)
           Below(q) == {r \in S : r < q}
<1>1. \A q \in S : q \in Nat /\ q <= k
  OBVIOUS
<1>2. ASSUME NEW T \in SUBSET S PROVE IsFiniteSet(T) /\ Cardinality(T) \in Nat
  <2>1. IsFiniteSet(1..k)
    BY FS_Interval
  <2>2. T \in SUBSET (1..k)
    OBVIOUS
  <2> QED BY <2>1, <2>2, FS_Subset, FS_CardinalityType
<1>3. \A q : Below(q) \in SUBSET S /\ \A r \in S : r \in Below(q) <=> r < q
  OBVIOUS
<1>4. L \in SUBSET S /\ \A q \in S : q \in L <=> Cardinality(Below(q)) < n
  BY DEF Lowest
<1> HIDE DEF L, Below
<1>5. ASSUME NEW q \in S, NEW r \in L, q < r PROVE q \in L
  <2>1. r \in S
    BY <1>4
  <2>2. \A x \in Below(q) : x \in S /\ x < q
    BY <1>3
  <2>3. ASSUME NEW x \in Below(q) PROVE x < r
    <3>1. x \in Nat /\ q \in Nat /\ r \in Nat /\ x < q
      BY <1>1, <2>1, <2>2
    <3> QED BY <1>5, <3>1
  <2>4. Below(q) \in SUBSET Below(r)
    BY <1>3, <2>1, <2>2, <2>3
  <2>5. IsFiniteSet(Below(r)) /\ Cardinality(Below(r)) \in Nat /\ Cardinality(Below(q)) \in Nat
    BY <1>2, <1>3
  <2>6. Cardinality(Below(q)) <= Cardinality(Below(r))
    BY <2>4, <2>5, FS_Subset
  <2>7. Cardinality(Below(r)) < n
    BY <1>4, <2>1
  <2> QED BY <1>4, <2>5, <2>6, <2>7
<1>6. ASSUME L # S PROVE Cardinality(L) = n
  <2> DEFINE T == S \ L
             p == First(T)
  <2>1. T \in SUBSET Nat /\ T # {}
    BY <1>1, <1>4, <1>6
  <2>2. p \in T /\ \A q \in T : p <= q
    BY <2>1, FirstOf
  <2>3. p \in S /\ p \notin L /\ \A q \in S : q \notin L => p <= q
    BY <2>2
  <2> HIDE DEF p, T
  <2>4. \A q \in S : q \in L <=> q < p
    BY <1>1, <1>5, <2>3
  <2>5. Below(p) = L
    BY <1>3, <1>4, <2>4
  <2>6. IsFiniteSet(L) /\ Cardinality(L) \in Nat
    BY <1>2, <1>4
  <2>7. Cardinality(L) >= n
    BY <1>4, <2>3, <2>5, <2>6
  <2>8. L # {}
    BY <2>6, <2>7, FS_EmptySet
  <2> DEFINE M == {k - q : q \in L}
  <2>9. M \in SUBSET Nat /\ M # {}
    <3>1. \A q \in L : q \in Nat /\ q <= k
      BY <1>1, <1>4
    <3>2. \A q \in L : k - q \in Nat
      BY <3>1
    <3> QED BY <2>8, <3>2
  <2>10. First(M) \in M /\ \A x \in M : First(M) <= x
    <3> HIDE DEF M
    <3> QED BY <2>9, FirstOf
  <2>11. PICK m \in L : First(M) = k - m
    BY <2>10
  <2>12. \A q \in L : q <= m
    <3>1. \A q \in L : k - m <= k - q
      BY <2>10, <2>11
    <3> QED BY <1>1, <1>4, <3>1
  <2>13. m \in S /\ Below(m) \in SUBSET S
    BY <1>3, <1>4
  <2>14. \A q \in S : q \in L <=> q < m \/ q = m
    BY <1>1, <1>5, <2>12, <2>13
  <2>15. L = Below(m) \cup {m} /\ m \notin Below(m)
    <3>1. m \notin Below(m)
      BY <1>1, <1>3, <2>13
    <3>2. \A q \in S : q \in L <=> q \in Below(m) \/ q = m
      BY <1>3, <2>13, <2>14
    <3> QED BY <1>4, <2>13, <3>1, <3>2
  <2>16. IsFiniteSet(Below(m)) /\ Cardinality(Below(m)) \in Nat
    BY <1>2, <2>13
  <2>17. Cardinality(L) = Cardinality(Below(m)) + 1
    BY <2>15, <2>16, FS_AddElement
  <2>18. Cardinality(Below(m)) < n
    BY <1>4, <2>13
  <2> QED BY <2>6, <2>7, <2>16, <2>17, <2>18
<1>7. ASSUME L = {} PROVE S = {}
  <2> SUFFICES ASSUME S # {} PROVE FALSE
    OBVIOUS
  <2>1. Cardinality({}) = n
    BY <1>6, <1>7
  <2> QED BY <2>1, FS_EmptySet
<1> QED BY <1>4, <1>5, <1>6, <1>7 DEF L

\* What a delivery to w may send of channel c.
Wanted(w, c, snap, done) ==
    {q \in log : room[q] = c /\ sender[q] # w /\ q > snap[c] /\ q > done[c]}

LEMMA RowsRead ==
    ASSUME StoreType, NEW w, NEW c \in Channels, NEW snap \in Cursors,
           NEW done \in [Channels -> 0..last]
    PROVE  LET R == Rows(w, c, snap, done)
               W == Wanted(w, c, snap, done)
           IN  /\ R \subseteq W
               /\ \A q \in W, r \in R : q < r => q \in R
               /\ R = {} => W = {}
               /\ R # W => Cardinality(R) = Batch
<1> DEFINE W == Wanted(w, c, snap, done)
<1>1. snap[c] \in Int /\ done[c] \in Int /\ log \subseteq 1..last /\ last \in Nat
  BY DEF Cursors, NoCursor, StoreType
<1>2. \A q \in log : q > Larger(snap[c], done[c]) <=> q > snap[c] /\ q > done[c]
  BY <1>1 DEF Larger
<1>3. Rows(w, c, snap, done) = Lowest(W, Batch)
  BY <1>2 DEF Rows, Wanted
<1>4. W \in SUBSET (1..last)
  BY <1>1 DEF Wanted
<1> HIDE DEF W
<1>5. /\ Lowest(W, Batch) \subseteq W
      /\ \A q \in W, r \in Lowest(W, Batch) : q < r => q \in Lowest(W, Batch)
      /\ Lowest(W, Batch) = {} => W = {}
      /\ Lowest(W, Batch) # W => Cardinality(Lowest(W, Batch)) = Batch
  BY <1>1, <1>4, LowestRows
<1> QED BY <1>3, <1>5 DEF W

\* Where a delivery goes on: at the first channel that has rows, with the
\* channels before it read to their end, or to rest when none has.
RestsAt(l, w, snap, todo, done, more) ==
    /\ \A c \in todo : Rows(w, c, snap, done) = {}
    /\ l = Resting(IF more THEN "looking" ELSE "waiting")

SendsFrom(l, c, w, snap, todo, done, more) ==
    /\ Rows(w, c, snap, done) # {}
    /\ \A d \in todo : d < c => Rows(w, d, snap, done) = {}
    /\ l.at = "sending" /\ l.snap = snap /\ l.rows = Rows(w, c, snap, done)
    /\ l.todo \subseteq todo /\ \A d \in todo : d \in l.todo <=> d > c
    /\ more \/ Cardinality(l.rows) = Batch => l.more

LEMMA OnwardReads ==
    ASSUME StoreType, NEW w, NEW snap, NEW todo \in SUBSET Channels, NEW done,
           NEW more \in BOOLEAN, NEW l, l = Onward(w, snap, todo, done, more)
    PROVE  \/ RestsAt(l, w, snap, todo, done, more)
           \/ \E c \in todo : SendsFrom(l, c, w, snap, todo, done, more)
<1> DEFINE ready == {c \in todo : Rows(w, c, snap, done) # {}}
           c == First(ready)
<1>1. CASE ready = {}
  <2>1. l = Resting(IF more THEN "looking" ELSE "waiting")
    BY <1>1, Zenon DEF Onward
  <2> QED BY <1>1, <2>1 DEF RestsAt
<1>2. CASE ready # {}
  <2>1. ready \in SUBSET Nat
    OBVIOUS
  <2>2. c \in ready /\ \A d \in ready : c <= d
    <3> HIDE DEF ready
    <3> QED BY <1>2, <2>1, FirstOf
  <2>3. l = [at |-> "sending", snap |-> snap, todo |-> {d \in todo : d > c},
             rows |-> Rows(w, c, snap, done),
             more |-> more \/ Cardinality(Rows(w, c, snap, done)) = Batch]
    BY <1>2, Zenon DEF Onward
  <2>4. c \in todo /\ Rows(w, c, snap, done) # {}
    BY <2>2
  <2>5. ASSUME NEW d \in todo, d < c PROVE Rows(w, d, snap, done) = {}
    <3>1. d \notin ready
      <4> HIDE DEF ready
      <4>1. d \in Nat /\ c \in Nat
        BY <2>1, <2>2
      <4> QED BY <2>2, <2>5, <4>1
    <3> QED BY <3>1
  <2> HIDE DEF c
  <2>6. /\ l.at = "sending" /\ l.snap = snap /\ l.rows = Rows(w, c, snap, done)
        /\ l.todo = {d \in todo : d > c}
    BY <2>3
  <2>7. more \/ Cardinality(l.rows) = Batch => l.more
    <3>1. l.more = (more \/ Cardinality(Rows(w, c, snap, done)) = Batch)
      BY <2>3
    <3> QED BY <2>6, <3>1, Zenon
  <2>8. SendsFrom(l, c, w, snap, todo, done, more)
    BY <2>4, <2>5, <2>6, <2>7 DEF SendsFrom
  <2> QED BY <2>4, <2>8
<1> QED BY <1>1, <1>2


(***************************************************************************)
(* What a delivery knows.                                                  *)
(***************************************************************************)

Mixed(w, c) == <<w, c>> \in mixed
Of(S, c) == {q \in S : room[q] = c}

\* A socket that is not served is sent nothing, and one at rest has read nothing.
RestInv ==
    \A s \in Sockets :
        /\ ~ Serving(s) => loop[s] = Resting("waiting") /\ frames[s] = {} /\ sent[s] = Unsent
        /\ loop[s].at # "sending" => loop[s] = Resting(loop[s].at)

\* What is owed is stored, another's, and of a channel the worker is in.
OwedInv ==
    \A w \in Workers : \A q \in owed[w] : q \in log /\ sender[q] # w /\ Member(w, room[q])

\* What was sent of a channel reaches as far as sent says or the cursor does, and
\* holds everything owed up to there that is not acknowledged.
SentAt(s, c) ==
    LET w == owner[s] IN
    /\ sent[s][c] # 0 => sent[s][c] \in frames[s] /\ room[sent[s][c]] = c
    /\ Member(w, c) /\ ~ Mixed(w, c) =>
          /\ \A r \in Of(frames[s], c) : r <= sent[s][c] \/ r <= cursor[w][c]
          /\ \A t \in Of(owed[w], c) :
                t <= sent[s][c] => t \in frames[s] \/ t <= cursor[w][c]

\* A row that was read is beyond what was sent of its channel, and what is owed
\* of that before it was read too, was sent, or was acknowledged.
RowAt(s, q) ==
    LET w == owner[s]
        c == room[q]
    IN
    /\ c \notin loop[s].todo /\ q > sent[s][c]
    /\ ~ Mixed(w, c) =>
          /\ \A r \in Of(frames[s], c) : r < q
          /\ \A t \in Of(owed[w], c) :
                t < q => t \in loop[s].rows \/ t \in frames[s] \/ t <= cursor[w][c]

\* A channel to come is read from where the cursor was or what was sent of it ends.
TodoAt(s, c) ==
    LET w == owner[s]
        snap == loop[s].snap
    IN
    /\ snap[c] <= last
    /\ ~ Mixed(w, c) =>
          /\ \A r \in Of(frames[s], c) : r <= sent[s][c] \/ r <= snap[c]
          /\ Member(w, c) => snap[c] <= cursor[w][c]

Knows(s) ==
    /\ \A c \in Channels : SentAt(s, c)
    /\ \A q \in loop[s].rows : RowAt(s, q)
    /\ \A c \in loop[s].todo : TodoAt(s, c)

KnowInv == \A s \in Sockets : Serving(s) => Knows(s)

\* What a step that sends nothing may do to the place of a worker in a channel.
Smooth(s, c) ==
    LET w == owner[s] IN
    \/ Mixed(w, c)'
    \/ ~ Remnant(s, c)
    \/ /\ ~ Mixed(w, c)
       /\ last <= cursor'[w][c] /\ \A t \in Of(owed[w], c)' : t <= cursor'[w][c]
    \/ /\ ~ Mixed(w, c)
       /\ Member(w, c)' => Member(w, c) /\ cursor[w][c] <= cursor'[w][c]
       /\ \A t \in Of(owed[w], c)' : (t \in owed[w] /\ t <= last) \/ t > last

LEMMA SmoothFrame ==
    ASSUME TypeOK, TypeOK', OwedInv', NEW s \in Sockets, owner[s] \in Workers, Knows(s),
           owner'[s] = owner[s], sent'[s] = sent[s], loop'[s] = loop[s], frames'[s] = frames[s],
           last <= last', \A q \in 1..last : room'[q] = room[q],
           \A c \in Channels : Smooth(s, c)
    PROVE  Knows(s)'
<1> DEFINE w == owner[s]
<1>1. /\ w \in Workers /\ frames[s] \subseteq 1..last /\ loop[s].rows \subseteq 1..last
      /\ loop[s].todo \subseteq Channels /\ last \in Nat /\ last' \in Nat
      /\ owed[w] \subseteq 1..last /\ owed'[w] \subseteq 1..last'
      /\ \A q \in 1..last : room[q] \in Channels
  BY DEF TypeOK
<1>2. ASSUME NEW c \in Channels
      PROVE  /\ cursor[w][c] \in Int /\ cursor'[w][c] \in Int /\ sent[s][c] \in 0..last
             /\ loop[s].snap[c] \in Int
  <2>1. cursor[w] \in [Channels -> {NoCursor} \cup 0..last] /\ sent[s] \in [Channels -> 0..last]
    BY DEF TypeOK
  <2>2. cursor'[w] \in [Channels -> {NoCursor} \cup 0..last']
    BY DEF TypeOK
  <2>3. loop[s].snap \in [Channels -> {NoCursor} \cup 0..MaxSeq]
    BY DEF TypeOK, Cursors
  <2>4. cursor[w][c] \in {NoCursor} \cup 0..last /\ sent[s][c] \in 0..last
    BY <2>1
  <2>5. cursor'[w][c] \in {NoCursor} \cup 0..last' /\ loop[s].snap[c] \in {NoCursor} \cup 0..MaxSeq
    BY <2>2, <2>3
  <2> QED BY <2>4, <2>5 DEF NoCursor
<1>3. \A c \in Channels : Of(frames[s], c)' = Of(frames[s], c)
  BY <1>1 DEF Of
<1>4. ASSUME NEW c \in Channels, ~ Remnant(s, c)
      PROVE  /\ Of(frames[s], c) = {} /\ sent[s][c] = 0 /\ c \notin loop[s].todo
             /\ \A q \in loop[s].rows : room[q] # c
  <2>1. Of(frames[s], c) = {} /\ c \notin loop[s].todo /\ \A q \in loop[s].rows : room[q] # c
    BY <1>4 DEF Remnant, Of
  <2>2. sent[s][c] # 0 => sent[s][c] \in Of(frames[s], c)
    BY DEF Knows, SentAt, Of
  <2> QED BY <2>1, <2>2
<1> DEFINE Keeps(c) == /\ ~ Mixed(w, c)
                       /\ Member(w, c)' => Member(w, c) /\ cursor[w][c] <= cursor'[w][c]
                       /\ \A t \in Of(owed[w], c)' : t \in Of(owed[w], c) \/ t > last
           Enters(c) == /\ ~ Mixed(w, c)
                        /\ last <= cursor'[w][c] /\ \A t \in Of(owed[w], c)' : t <= cursor'[w][c]
<1>5. ASSUME NEW c \in Channels, ~ Mixed(w, c)' PROVE ~ Remnant(s, c) \/ Keeps(c) \/ Enters(c)
  <2>1. Smooth(s, c)
    OBVIOUS
  <2> QED BY <1>1, <1>5, <2>1 DEF Smooth, Of
<1> HIDE DEF Keeps, Enters
<1>6. ASSUME NEW c \in Channels PROVE SentAt(s, c)'
  <2>1. sent'[s][c] # 0 => sent'[s][c] \in frames'[s] /\ room'[sent'[s][c]] = c
    BY <1>1 DEF Knows, SentAt
  <2>2. ASSUME Member(w, c)', ~ Mixed(w, c)'
        PROVE  /\ \A r \in Of(frames[s], c) : r <= sent[s][c] \/ r <= cursor'[w][c]
               /\ \A t \in Of(owed[w], c)' :
                    t <= sent[s][c] => t \in frames[s] \/ t <= cursor'[w][c]
    <3>0. /\ Of(frames[s], c) \subseteq 1..last /\ Of(owed[w], c) \subseteq 1..last
          /\ Of(owed[w], c)' \subseteq 1..last'
          /\ Of(frames[s], c) \subseteq frames[s]
      BY <1>1 DEF Of
    <3>1. CASE ~ Remnant(s, c)
      <4>1. Of(frames[s], c) = {} /\ sent[s][c] = 0
        BY <1>4, <3>1
      <4> QED BY <1>1, <3>0, <4>1
    <3>2. CASE Enters(c)
      <4>1. last <= cursor'[w][c] /\ \A t \in Of(owed[w], c)' : t <= cursor'[w][c]
        BY <3>2 DEF Enters
      <4> QED BY <1>1, <1>2, <3>0, <4>1
    <3>3. CASE Keeps(c)
      <4>1. Member(w, c) /\ ~ Mixed(w, c) /\ cursor[w][c] <= cursor'[w][c]
            /\ \A t \in Of(owed[w], c)' : t \in Of(owed[w], c) \/ t > last
        BY <2>2, <3>3 DEF Keeps
      <4>2. /\ \A r \in Of(frames[s], c) : r <= sent[s][c] \/ r <= cursor[w][c]
            /\ \A t \in Of(owed[w], c) : t <= sent[s][c] => t \in frames[s] \/ t <= cursor[w][c]
        BY <4>1 DEF Knows, SentAt
      <4> QED BY <1>1, <1>2, <3>0, <4>1, <4>2
    <3> QED BY <1>5, <2>2, <3>1, <3>2, <3>3
  <2> QED BY <1>3, <2>1, <2>2 DEF SentAt
<1>7. ASSUME NEW c \in loop[s].todo PROVE TodoAt(s, c)'
  <2>1. c \in Channels /\ loop[s].snap[c] <= last /\ loop[s].snap[c] <= last'
    <3>1. c \in Channels /\ loop[s].snap[c] <= last
      BY <1>1 DEF Knows, TodoAt
    <3> QED BY <1>1, <1>2, <3>1
  <2>2. ASSUME ~ Mixed(w, c)'
        PROVE  /\ \A r \in Of(frames[s], c) : r <= sent[s][c] \/ r <= loop[s].snap[c]
               /\ Member(w, c)' => loop[s].snap[c] <= cursor'[w][c]
    <3>0. Keeps(c) \/ Enters(c)
      BY <1>4, <1>5, <2>1, <2>2
    <3>1. ~ Mixed(w, c)
      BY <3>0 DEF Keeps, Enters
    <3>2. /\ \A r \in Of(frames[s], c) : r <= sent[s][c] \/ r <= loop[s].snap[c]
          /\ Member(w, c) => loop[s].snap[c] <= cursor[w][c]
      BY <3>1 DEF Knows, TodoAt
    <3>3. CASE Keeps(c)
      BY <1>2, <2>1, <3>2, <3>3 DEF Keeps
    <3>4. CASE Enters(c)
      BY <1>1, <1>2, <2>1, <3>2, <3>4 DEF Enters
    <3> QED BY <3>0, <3>3, <3>4
  <2> QED BY <1>3, <2>1, <2>2 DEF TodoAt
<1>8. ASSUME NEW q \in loop[s].rows PROVE RowAt(s, q)'
  <2>0. PICK c \in Channels : room[q] = c
    BY <1>1
  <2>1. /\ room'[q] = c /\ q \in 1..last /\ c \notin loop[s].todo
        /\ q > sent[s][c]
    BY <1>1, <2>0 DEF Knows, RowAt
  <2>2. ASSUME ~ Mixed(w, c)'
        PROVE  /\ \A r \in Of(frames[s], c) : r < q
               /\ \A t \in Of(owed[w], c)' :
                    t < q => t \in loop[s].rows \/ t \in frames[s] \/ t <= cursor'[w][c]
    <3>0. Keeps(c) \/ Enters(c)
      BY <1>4, <1>5, <2>0, <2>2
    <3>1. ~ Mixed(w, c)
      BY <3>0 DEF Keeps, Enters
    <3>2. /\ \A r \in Of(frames[s], c) : r < q
          /\ \A t \in Of(owed[w], c) :
                t < q => t \in loop[s].rows \/ t \in frames[s] \/ t <= cursor[w][c]
      BY <2>0, <3>1 DEF Knows, RowAt
    <3>3. CASE Enters(c)
      BY <3>2, <3>3 DEF Enters
    <3>4. CASE Keeps(c)
      <4>1. ASSUME NEW t \in Of(owed[w], c)', t < q
            PROVE  t \in loop[s].rows \/ t \in frames[s] \/ t <= cursor'[w][c]
        <5>1. t \in Of(owed[w], c)
          <6>1. t \in owed'[w]
            BY <4>1 DEF Of
          <6> QED BY <1>1, <2>1, <3>4, <4>1, <6>1 DEF Keeps
        <5>2. CASE t <= cursor[w][c]
          <6>1. t \in owed'[w] /\ room'[t] = c
            BY <4>1 DEF Of
          <6>2. Member(w, c)'
            BY <1>1, <6>1 DEF OwedInv
          <6>3. cursor[w][c] <= cursor'[w][c]
            BY <3>4, <6>2 DEF Keeps
          <6>4. t \in Int
            BY <1>1, <6>1
          <6> QED BY <1>2, <2>1, <5>2, <6>3, <6>4
        <5> QED BY <3>2, <4>1, <5>1, <5>2
      <4> QED BY <3>2, <4>1
    <3> QED BY <3>0, <3>3, <3>4
  <2> QED BY <1>3, <2>1, <2>2 DEF RowAt
<1> QED BY <1>6, <1>7, <1>8 DEF Knows


\* What a delivery knows of a channel it is about to read, when F was sent.
ReadAt(w, c, snap, done, F) ==
    /\ snap[c] <= last
    /\ ~ Mixed(w, c) =>
          /\ \A r \in Of(F, c) : r <= done[c] \/ r <= snap[c]
          /\ Member(w, c) => snap[c] <= cursor[w][c]
          /\ \A t \in Of(owed[w], c) : t <= done[c] => t \in F \/ t <= cursor[w][c]

\* What it knows where it goes on to l.
ReadOn(l, w, snap, todo, done, more, F) ==
    /\ l.todo \subseteq todo
    /\ l.todo # {} => l.snap = snap
    /\ \A q \in l.rows :
         /\ room[q] \in todo \ l.todo /\ q > done[room[q]]
         /\ ~ Mixed(w, room[q]) =>
               /\ \A r \in Of(F, room[q]) : r < q
               /\ \A t \in Of(owed[w], room[q]) :
                     t < q => t \in l.rows \/ t \in F \/ t <= cursor[w][room[q]]
    /\ \A c \in todo : \A t \in Of(owed[w], c) :
         \/ Mixed(w, c) \/ t \in F \/ t <= cursor[w][c]
         \/ t \in l.rows \/ c \in l.todo \/ l.more
    /\ more => l.at = "looking" \/ l.more

LEMMA OnwardKnows ==
    ASSUME TypeOK, OwedInv, NEW w \in Workers, NEW snap \in Cursors,
           NEW todo \in SUBSET Channels, NEW done \in [Channels -> 0..last],
           NEW more \in BOOLEAN, NEW F \in SUBSET (1..last),
           \A c \in todo : ReadAt(w, c, snap, done, F),
           NEW l, l = Onward(w, snap, todo, done, more)
    PROVE  ReadOn(l, w, snap, todo, done, more, F)
<1> DEFINE R(c) == Rows(w, c, snap, done)
           W(c) == Wanted(w, c, snap, done)
<1>1. StoreType /\ last \in Nat /\ log \subseteq 1..last /\ owed[w] \subseteq 1..last
      /\ todo \subseteq Nat /\ \A q \in 1..last : q \in Nat
  <2>1. StoreType
    BY FourTypes
  <2>2. owed[w] \subseteq 1..last
    BY DEF TypeOK
  <2> QED BY <2>1, <2>2 DEF StoreType
<1>2. ASSUME NEW c \in todo
      PROVE  /\ cursor[w][c] \in Int /\ done[c] \in Nat /\ snap[c] \in Int
             /\ Member(w, c) <=> cursor[w][c] # NoCursor
  <2>1. cursor[w] \in [Channels -> {NoCursor} \cup 0..last]
    BY DEF TypeOK
  <2>2. cursor[w][c] \in {NoCursor} \cup 0..last /\ snap[c] \in {NoCursor} \cup 0..MaxSeq
    BY <2>1 DEF Cursors
  <2> QED BY <1>1, <2>2 DEF NoCursor, Member
<1>3. ASSUME NEW c \in todo
      PROVE  /\ R(c) \subseteq W(c)
             /\ \A q \in W(c), r \in R(c) : q < r => q \in R(c)
             /\ R(c) = {} => W(c) = {}
             /\ R(c) # W(c) => Cardinality(R(c)) = Batch
  BY <1>1, RowsRead
<1>4. ASSUME NEW c \in todo, NEW t \in Of(owed[w], c), ~ Mixed(w, c)
      PROVE  t \in F \/ t <= cursor[w][c] \/ t \in W(c)
  <2>1. t \in log /\ room[t] = c /\ sender[t] # w /\ Member(w, c) /\ t \in Nat
    BY <1>1 DEF OwedInv, Of
  <2>2. snap[c] <= cursor[w][c] /\ (t <= done[c] => t \in F \/ t <= cursor[w][c])
    BY <1>4, <2>1 DEF ReadAt
  <2> QED BY <1>2, <2>1, <2>2 DEF Wanted
<1>5. \/ RestsAt(l, w, snap, todo, done, more)
      \/ \E c \in todo : SendsFrom(l, c, w, snap, todo, done, more)
  BY <1>1, OnwardReads
<1> HIDE DEF R, W
<1>6. CASE RestsAt(l, w, snap, todo, done, more)
  <2>1. l.todo = {} /\ l.rows = {} /\ (more => l.at = "looking")
    BY <1>6 DEF Resting, RestsAt
  <2>2. \A c \in todo : \A t \in Of(owed[w], c) : Mixed(w, c) \/ t \in F \/ t <= cursor[w][c]
    BY <1>3, <1>4, <1>6 DEF RestsAt, R
  <2> QED BY <2>1, <2>2 DEF ReadOn
<1>7. ASSUME NEW c \in todo, SendsFrom(l, c, w, snap, todo, done, more)
      PROVE  ReadOn(l, w, snap, todo, done, more, F)
  <2>1. /\ l.snap = snap /\ l.rows = R(c)
        /\ l.todo \subseteq todo /\ \A d \in todo : d \in l.todo <=> d > c
        /\ more => l.more
        /\ Cardinality(R(c)) = Batch => l.more
        /\ \A d \in todo : d < c => R(d) = {}
    BY <1>7 DEF SendsFrom, R
  <2>2. ASSUME NEW q \in l.rows
        PROVE  /\ room[q] = c /\ q > done[c] /\ q > snap[c] /\ q \in Nat
    <3>1. q \in W(c)
      BY <1>3, <2>1
    <3>2. q \in log /\ room[q] = c /\ q > done[c] /\ q > snap[c]
      BY <3>1 DEF W, Wanted
    <3>3. q \in 1..last
      BY <1>1, <3>2
    <3> QED BY <1>1, <3>2, <3>3
  <2>3. c \in todo \ l.todo
    BY <1>1, <2>1
  <2>4. ASSUME NEW q \in l.rows, ~ Mixed(w, c)
        PROVE  /\ \A r \in Of(F, c) : r < q
               /\ \A t \in Of(owed[w], c) : t < q => t \in l.rows \/ t \in F \/ t <= cursor[w][c]
    <3>1. \A r \in Of(F, c) : r \in Nat /\ (r <= done[c] \/ r <= snap[c])
      <4>1. \A r \in Of(F, c) : r \in F
        BY DEF Of
      <4>2. \A r \in Of(F, c) : r <= done[c] \/ r <= snap[c]
        BY <2>4 DEF ReadAt
      <4>3. \A r \in Of(F, c) : r \in 1..last
        BY <4>1
      <4> QED BY <1>1, <4>2, <4>3
    <3>2. \A r \in Of(F, c) : r < q
      BY <1>2, <2>2, <3>1
    <3>3. \A t \in Of(owed[w], c) : t \in F \/ t <= cursor[w][c] \/ t \in W(c)
      BY <1>4, <2>4
    <3>4. \A t \in W(c) : t < q => t \in l.rows
      BY <1>3, <2>1
    <3> QED BY <3>2, <3>3, <3>4
  <2>5. ASSUME NEW d \in todo, NEW t \in Of(owed[w], d), ~ Mixed(w, d), t \notin F,
               ~ (t <= cursor[w][d])
        PROVE  t \in l.rows \/ d \in l.todo \/ l.more
    <3>1. t \in W(d)
      BY <1>4, <2>5
    <3>2. CASE d < c
      BY <1>3, <2>1, <3>1, <3>2
    <3>3. CASE d = c
      BY <1>3, <2>1, <3>1, <3>3
    <3>4. CASE d > c
      BY <2>1, <3>4
    <3> QED BY <1>1, <3>2, <3>3, <3>4
  <2> QED BY <2>1, <2>2, <2>3, <2>4, <2>5 DEF ReadOn
<1> QED BY <1>5, <1>6, <1>7


\* Something is about to make the loop of s look at q, or send it.
Coming(s, q) ==
    \/ s \in wake \/ pending[s] > 0 \/ loop[s].at = "looking"
    \/ q \in loop[s].rows \/ room[q] \in loop[s].todo \/ loop[s].more

Reached(s, q) ==
    LET w == owner[s] IN
    q \in frames[s] \/ q <= cursor[w][room[q]] \/ Mixed(w, room[q])

\* s goes on reading todo; done and F are what it sent by then.
Reading(s, w, snap, todo, done, more, F) ==
    /\ w \in Workers /\ snap \in Cursors /\ todo \in SUBSET Channels
    /\ done \in [Channels -> 0..last] /\ more \in BOOLEAN /\ F \in SUBSET (1..last)
    /\ \A c \in todo : ReadAt(w, c, snap, done, F)
    /\ owner'[s] = w /\ sent'[s] = done /\ frames'[s] = F
    /\ loop'[s] = Onward(w, snap, todo, done, more)
    /\ UNCHANGED <<last, room, cursor, owed, mixed>>

LEMMA AfterReading ==
    ASSUME TypeOK, OwedInv, NEW s, NEW w, NEW snap, NEW todo, NEW done, NEW more, NEW F,
           Reading(s, w, snap, todo, done, more, F), \A c \in Channels : SentAt(s, c)'
    PROVE  /\ Knows(s)'
           /\ \A q \in owed[w] : room[q] \in todo => Reached(s, q)' \/ Coming(s, q)'
           /\ more => loop'[s].at = "looking" \/ loop'[s].more
<1> DEFINE l == loop'[s]
<1>0. /\ w \in Workers /\ snap \in Cursors /\ todo \in SUBSET Channels
      /\ done \in [Channels -> 0..last] /\ more \in BOOLEAN /\ F \in SUBSET (1..last)
      /\ \A c \in todo : ReadAt(w, c, snap, done, F)
      /\ l = Onward(w, snap, todo, done, more)
  BY DEF Reading
<1>3. /\ owner'[s] = w /\ sent'[s] = done /\ frames'[s] = F
      /\ UNCHANGED <<last, room, cursor, owed, mixed>>
  BY DEF Reading
<1> HIDE DEF l
<1>1. ReadOn(l, w, snap, todo, done, more, F)
  BY <1>0, OnwardKnows
<1>2. loop'[s] = l
  BY DEF l
<1>4. \A c : Mixed(w, c)' = Mixed(w, c) /\ Of(owed[w], c)' = Of(owed[w], c)
             /\ Of(frames[s], c)' = Of(F, c) /\ (Member(w, c)' <=> Member(w, c))
  BY <1>3 DEF Mixed, Of, Member
<1>5. ASSUME NEW q \in loop'[s].rows PROVE RowAt(s, q)'
  <2>1. q \in l.rows /\ room'[q] = room[q]
    BY <1>2, <1>3
  <2> QED BY <1>1, <1>2, <1>3, <1>4, <2>1 DEF RowAt, ReadOn
<1>6. ASSUME NEW c \in loop'[s].todo PROVE TodoAt(s, c)'
  <2>1. c \in todo /\ l.snap = snap
    BY <1>1, <1>2 DEF ReadOn
  <2>2. ReadAt(w, c, snap, done, F)
    BY <1>0, <2>1
  <2> QED BY <1>2, <1>3, <1>4, <2>1, <2>2 DEF TodoAt, ReadAt
<1>7. Knows(s)'
  BY <1>5, <1>6 DEF Knows
<1>8. ASSUME NEW q \in owed[w], room[q] \in todo PROVE Reached(s, q)' \/ Coming(s, q)'
  <2>1. q \in Of(owed[w], room[q]) /\ room'[q] = room[q]
    BY <1>3 DEF Of
  <2>2. \/ Mixed(w, room[q]) \/ q \in F \/ q <= cursor[w][room[q]]
        \/ q \in l.rows \/ room[q] \in l.todo \/ l.more
    BY <1>1, <1>8, <2>1 DEF ReadOn
  <2> QED BY <1>2, <1>3, <1>4, <2>1, <2>2 DEF Reached, Coming
<1> QED BY <1>1, <1>2, <1>7, <1>8 DEF ReadOn

LEMMA LookKnows ==
    ASSUME TypeOK, OwedInv, NEW s \in Sockets, Knows(s), Look(s)
    PROVE  Knows(s)' /\ \A q \in owed[owner[s]] : Reached(s, q)' \/ Coming(s, q)'
<1> DEFINE w == owner[s]
           done == [c \in Channels |-> IF Member(w, c) THEN sent[s][c] ELSE 0]
           here == {c \in Channels : Member(w, c)}
<1>1. /\ w \in Workers /\ UNCHANGED <<last, room, cursor, owed, mixed, frames, owner>>
      /\ sent' = [sent EXCEPT ![s] = done]
      /\ loop' = [loop EXCEPT ![s] = Onward(w, cursor[w], here, done, FALSE)]
  BY DEF Look, Serving, TypeOK, store, conns, history
<1>2. /\ sent'[s] = done /\ loop'[s] = Onward(w, cursor[w], here, done, FALSE)
      /\ owner'[s] = w /\ frames'[s] = frames[s] /\ frames[s] \in SUBSET (1..last)
  BY <1>1 DEF TypeOK
<1>3. /\ cursor[w] \in [Channels -> {NoCursor} \cup 0..last] /\ sent[s] \in [Channels -> 0..last]
      /\ last \in 0..MaxSeq
  BY <1>1 DEF TypeOK
<1>4. done \in [Channels -> 0..last] /\ cursor[w] \in Cursors
      /\ \A c \in Channels : Member(w, c) => done[c] = sent[s][c]
  BY <1>3 DEF Cursors
<1>5. ASSUME NEW c \in Channels PROVE SentAt(s, c)'
  <2>1. SentAt(s, c)
    BY DEF Knows
  <2>2. Mixed(w, c)' = Mixed(w, c) /\ Of(owed[w], c)' = Of(owed[w], c)
             /\ Of(frames[s], c)' = Of(frames[s], c) /\ (Member(w, c)' <=> Member(w, c))
    BY <1>1 DEF Mixed, Of, Member
  <2>3. sent'[s][c] # 0 => sent'[s][c] = sent[s][c]
    BY <1>2
  <2>4. Member(w, c) => sent'[s][c] = sent[s][c]
    BY <1>2
  <2> HIDE DEF done, here
  <2> QED BY <1>1, <1>2, <2>1, <2>2, <2>3, <2>4 DEF SentAt
<1>6. ASSUME NEW c \in here PROVE ReadAt(w, c, cursor[w], done, frames[s])
  <2>1. c \in Channels /\ Member(w, c) /\ SentAt(s, c) /\ done[c] = sent[s][c]
    BY <1>4 DEF Knows
  <2>2. cursor[w][c] \in {NoCursor} \cup 0..last
    BY <1>3, <2>1
  <2>3. cursor[w][c] <= last /\ cursor[w][c] <= cursor[w][c]
    BY <1>3, <2>2 DEF NoCursor
  <2> HIDE DEF done, here
  <2> QED BY <2>1, <2>3 DEF ReadAt, SentAt
<1>7. here \in SUBSET Channels
  OBVIOUS
<1>8. \A q \in owed[w] : room[q] \in here
  BY <1>1 DEF OwedInv, TypeOK
<1>9. FALSE \in BOOLEAN
  OBVIOUS
<1> HIDE DEF done, here
<1>11. Reading(s, w, cursor[w], here, done, FALSE, frames[s])
  BY <1>1, <1>2, <1>4, <1>6, <1>7, <1>9 DEF Reading
<1>10. Knows(s)' /\ \A q \in owed[w] : room[q] \in here => Reached(s, q)' \/ Coming(s, q)'
  BY <1>5, <1>11, AfterReading
<1> QED BY <1>8, <1>10

LEMMA SendKnows ==
    ASSUME TypeOK, OwedInv, NEW s \in Sockets, Knows(s), Send(s)
    PROVE  /\ Knows(s)'
           /\ \A p \in owed[owner[s]] : Reached(s, p) \/ Coming(s, p) => Reached(s, p)' \/ Coming(s, p)'
<1> DEFINE w == owner[s]
           l == loop[s]
           q == First(l.rows)
           done == [sent[s] EXCEPT ![room[q]] = q]
           F == frames[s] \cup {q}
<1>1. /\ w \in Workers
      /\ UNCHANGED <<last, room, cursor, owed, mixed, owner, wake, pending>>
      /\ l.at = "sending" /\ l.rows # {}
      /\ sent' = [sent EXCEPT ![s] = done] /\ frames' = [frames EXCEPT ![s] = @ \cup {q}]
      /\ loop' = [loop EXCEPT ![s] =
                    IF l.rows # {q} THEN [l EXCEPT !.rows = @ \ {q}]
                    ELSE Onward(w, l.snap, l.todo, done, l.more)]
  BY DEF Send, Serving, TypeOK, store, conns, waking
<1>2. /\ sent'[s] = done /\ frames'[s] = F /\ owner'[s] = w
      /\ loop'[s] = IF l.rows # {q} THEN [l EXCEPT !.rows = @ \ {q}]
                    ELSE Onward(w, l.snap, l.todo, done, l.more)
  BY <1>1 DEF TypeOK
<1>3. /\ l \in Loops /\ last \in Nat /\ owed[w] \subseteq 1..last
      /\ frames[s] \subseteq 1..last /\ sent[s] \in [Channels -> 0..last]
      /\ \A p \in 1..last : room[p] \in Channels
  BY <1>1 DEF TypeOK, Loops
<1>4. /\ l.snap \in Cursors /\ l.todo \in SUBSET Channels /\ l.rows \in SUBSET (1..last)
      /\ l.more \in BOOLEAN
  BY <1>3 DEF Loops
<1>5. q \in l.rows /\ \A p \in l.rows : q <= p
  <2>1. l.rows \in SUBSET Nat
    BY <1>3, <1>4
  <2> HIDE DEF l
  <2> QED BY <1>1, <2>1, FirstOf
<1> HIDE DEF q
<1>6. PICK c0 \in Channels : room[q] = c0
  BY <1>3, <1>4, <1>5
<1>7. q \in 1..last /\ RowAt(s, q) /\ c0 \notin l.todo
  BY <1>4, <1>5, <1>6 DEF Knows, RowAt
<1>8. /\ done \in [Channels -> 0..last] /\ done[c0] = q
      /\ \A c \in Channels : c # c0 => done[c] = sent[s][c]
  BY <1>3, <1>6, <1>7
<1>9. \A c \in Channels : c # c0 => Of(F, c) = Of(frames[s], c)
  BY <1>6 DEF Of
<1>10. \A r \in Of(F, c0) : r \in Of(frames[s], c0) \/ r = q
  BY DEF Of
<1> HIDE DEF done
<1>11. \A c : /\ Mixed(w, c)' = Mixed(w, c) /\ Of(owed[w], c)' = Of(owed[w], c)
              /\ Of(frames[s], c)' = Of(F, c) /\ (Member(w, c)' <=> Member(w, c))
  BY <1>1, <1>2 DEF Mixed, Of, Member
<1>12. F \in SUBSET (1..last)
  BY <1>3, <1>7
<1> HIDE DEF F
<1>13. ASSUME NEW c \in Channels PROVE SentAt(s, c)'
  <2>1. CASE c # c0
    <3>1. SentAt(s, c) /\ done[c] = sent[s][c] /\ Of(F, c) = Of(frames[s], c)
      BY <1>8, <1>9, <2>1 DEF Knows
    <3>2. frames[s] \subseteq F
      BY DEF F
    <3> QED BY <1>1, <1>2, <1>11, <3>1, <3>2 DEF SentAt
  <2>2. CASE c = c0
    <3>1. done[c] = q /\ q \in F /\ room[q] = c
      BY <1>6, <1>8, <2>2 DEF F
    <3>2. ASSUME ~ Mixed(w, c)
          PROVE  /\ \A r \in Of(F, c) : r <= q
                 /\ \A t \in Of(owed[w], c) : t <= q => t \in F \/ t <= cursor[w][c]
      <4>1. /\ \A r \in Of(frames[s], c) : r < q
            /\ \A t \in Of(owed[w], c) :
                  t < q => t \in l.rows \/ t \in frames[s] \/ t <= cursor[w][c]
        BY <1>7, <3>1, <3>2 DEF RowAt
      <4>2. \A t \in Of(owed[w], c) : t \in Nat
        BY <1>3 DEF Of
      <4>3. \A r \in Of(frames[s], c) : r \in Nat
        BY <1>3 DEF Of
      <4>4. \A r \in Of(F, c) : r <= q
        BY <1>7, <1>10, <2>2, <4>1, <4>3
      <4>5. ASSUME NEW t \in Of(owed[w], c), t <= q PROVE t \in F \/ t <= cursor[w][c]
        <5>1. CASE t = q
          BY <3>1, <5>1
        <5>2. CASE t # q
          <6>1. t < q /\ t \notin l.rows
            BY <1>5, <1>7, <4>2, <4>5, <5>2
          <6> QED BY <4>1, <6>1 DEF F
        <5> QED BY <5>1, <5>2
      <4> QED BY <4>4, <4>5
    <3> QED BY <1>1, <1>2, <1>11, <3>1, <3>2 DEF SentAt
  <2> QED BY <2>1, <2>2
<1>14. CASE l.rows # {q}
  <2>1. /\ loop'[s].rows = l.rows \ {q} /\ loop'[s].todo = l.todo /\ loop'[s].snap = l.snap
        /\ loop'[s].more = l.more
    BY <1>2, <1>3, <1>14 DEF Loops
  <2> HIDE DEF l
  <2>2. ASSUME NEW p \in l.rows \ {q} PROVE RowAt(s, p)'
    <3>1. RowAt(s, p) /\ p \in Nat /\ q < p /\ room[p] \in Channels
      BY <1>3, <1>4, <1>5, <1>7 DEF Knows, l
    <3>2. p > done[room[p]]
      BY <1>8, <3>1 DEF RowAt
    <3>3. \A r \in Of(F, room[p]) : r \in Of(frames[s], room[p]) \/ r = q
      BY DEF Of, F
    <3>4. ~ Mixed(w, room[p]) =>
            /\ \A r \in Of(F, room[p]) : r < p
            /\ \A t \in Of(owed[w], room[p]) :
                  t < p => t \in l.rows \ {q} \/ t \in F \/ t <= cursor[w][room[p]]
      BY <3>1, <3>3 DEF RowAt, F, l
    <3>5. room'[p] = room[p] /\ room[p] \notin l.todo
      BY <1>1, <3>1 DEF RowAt, l
    <3>6. /\ owner'[s] = w /\ sent'[s] = done /\ cursor' = cursor /\ frames'[s] = F
          /\ loop'[s].rows = l.rows \ {q} /\ loop'[s].todo = l.todo
      BY <1>1, <1>2, <2>1
    <3> QED BY <1>11, <3>2, <3>4, <3>5, <3>6 DEF RowAt
  <2>3. ASSUME NEW c \in l.todo PROVE TodoAt(s, c)'
    <3>1. TodoAt(s, c) /\ c \in Channels /\ c # c0
      BY <1>4, <1>7 DEF Knows, l
    <3>2. done[c] = sent[s][c] /\ Of(F, c) = Of(frames[s], c)
      BY <1>8, <1>9, <3>1
    <3>3. sent'[s][c] = sent[s][c] /\ Of(frames[s], c)' = Of(frames[s], c)
          /\ loop'[s].snap[c] = loop[s].snap[c]
      BY <1>2, <1>11, <2>1, <3>2 DEF l
    <3> QED BY <1>1, <1>2, <1>11, <3>1, <3>3 DEF TodoAt
  <2>4. Knows(s)'
    BY <1>13, <2>1, <2>2, <2>3 DEF Knows
  <2>5. ASSUME NEW p \in owed[w], Reached(s, p) \/ Coming(s, p) PROVE Reached(s, p)' \/ Coming(s, p)'
    <3>1. room'[p] = room[p] /\ (p \in frames[s] \cup {q} => p \in frames'[s])
      BY <1>1, <1>2 DEF F
    <3>2. Reached(s, p) => Reached(s, p)'
      BY <1>1, <1>2, <1>11, <3>1 DEF Reached
    <3>3. p = q => Reached(s, p)'
      BY <3>1 DEF Reached
    <3>4. p # q /\ Coming(s, p) => Coming(s, p)'
      BY <1>1, <2>1, <3>1 DEF Coming, l
    <3> QED BY <2>5, <3>2, <3>3, <3>4
  <2> QED BY <2>4, <2>5
<1>15. CASE l.rows = {q}
  <2>1. loop'[s] = Onward(w, l.snap, l.todo, done, l.more)
    BY <1>2, <1>15
  <2>2. ASSUME NEW c \in l.todo PROVE ReadAt(w, c, l.snap, done, F)
    <3>1. TodoAt(s, c) /\ c \in Channels /\ c # c0 /\ SentAt(s, c)
      BY <1>4, <1>7 DEF Knows
    <3>2. done[c] = sent[s][c] /\ Of(F, c) = Of(frames[s], c) /\ frames[s] \subseteq F
      BY <1>8, <1>9, <3>1 DEF F
    <3>3. \A t \in Of(owed[w], c) : Member(w, c)
      BY <1>1 DEF Of, OwedInv
    <3> HIDE DEF l
    <3> QED BY <3>1, <3>2, <3>3 DEF TodoAt, ReadAt, SentAt, l
  <2>3. /\ Knows(s)'
        /\ \A p \in owed[w] : room[p] \in l.todo => Reached(s, p)' \/ Coming(s, p)'
        /\ l.more => loop'[s].at = "looking" \/ loop'[s].more
    <3> HIDE DEF l
    <3>1. Reading(s, w, l.snap, l.todo, done, l.more, F)
      BY <1>1, <1>2, <1>4, <1>8, <1>12, <2>1, <2>2 DEF Reading
    <3> QED BY <1>13, <3>1, AfterReading
  <2>4. ASSUME NEW p \in owed[w], Reached(s, p) \/ Coming(s, p) PROVE Reached(s, p)' \/ Coming(s, p)'
    <3>1. room'[p] = room[p] /\ (p \in frames[s] \cup {q} => p \in frames'[s])
      BY <1>1, <1>2 DEF F
    <3>2. Reached(s, p) => Reached(s, p)'
      BY <1>1, <1>2, <1>11, <3>1 DEF Reached
    <3>3. p \in l.rows => Reached(s, p)'
      BY <1>15, <3>1 DEF Reached
    <3>4. l.more \/ s \in wake \/ pending[s] > 0 => Coming(s, p)'
      BY <1>1, <2>3 DEF Coming
    <3> QED BY <1>1, <2>3, <2>4, <3>2, <3>3, <3>4 DEF Coming
  <2> QED BY <2>3, <2>4
<1> QED BY <1>14, <1>15


\* Whatever a registered socket's worker is owed was sent, or is about to be.
ComingInv ==
    \A s \in Sockets : Registered(s) =>
        \A q \in owed[owner[s]] : Reached(s, q) \/ Coming(s, q)

DeliverInv == RestInv /\ OwedInv /\ KnowInv /\ ComingInv

LEMMA RegisteredServes ==
    ASSUME TypeOK, Presence, NEW s \in Sockets, Registered(s)
    PROVE  Serving(s) /\ owner[s] \in Workers
<1>1. owner[s] \in Workers /\ session[owner[s]] = s /\ s # None
  BY DEF TypeOK, Registered
<1>2. newest[owner[s]] = s /\ Serving(newest[owner[s]])
  BY <1>1 DEF Presence
<1> QED BY <1>1, <1>2

(***************************************************************************)
(* Steps that a delivery does not notice.                                  *)
(***************************************************************************)

\* A step that neither sends nor reads, and moves no place that a worker still
\* has: it may end memberships, drop messages, post one and wake for it.
Quiet ==
    /\ UNCHANGED <<sent, loop, frames, session, mixed>> /\ last <= last'
    /\ \A s \in Sockets :
          /\ Serving(s)' <=> Serving(s)
          /\ Serving(s) => owner'[s] = owner[s]
          /\ s \in wake \/ pending[s] > 0 => s \in wake' \/ pending'[s] > 0
    /\ \A q \in 1..last : room'[q] = room[q]
    /\ \A w \in Workers :
          /\ \A c \in Channels : Member(w, c)' => cursor'[w][c] = cursor[w][c]
          /\ \A t \in owed'[w] :
                t \in owed[w] \/ (t > last /\ (session[w] # None => session[w] \in wake'))

LEMMA QuietKnows ==
    ASSUME TypeOK, TypeOK', OwedInv', KnowInv, Quiet
    PROVE  KnowInv'
<1> SUFFICES ASSUME NEW s \in Sockets, Serving(s)' PROVE Knows(s)'
  BY DEF KnowInv
<1>1. Serving(s) /\ Knows(s) /\ owner'[s] = owner[s] /\ owner[s] \in Workers
  BY DEF Quiet, KnowInv, TypeOK, Serving
<1>2. /\ sent'[s] = sent[s] /\ loop'[s] = loop[s] /\ frames'[s] = frames[s] /\ last <= last'
      /\ \A q \in 1..last : room'[q] = room[q]
  BY DEF Quiet
<1>3. ASSUME NEW c \in Channels PROVE Smooth(s, c)
  <2> DEFINE w == owner[s]
  <2>1. w \in Workers /\ owed[w] \subseteq 1..last /\ last \in Nat
    BY <1>1 DEF TypeOK
  <2>2. Mixed(w, c)' <=> Mixed(w, c)
    BY <1>1 DEF Quiet, Mixed
  <2>3. Member(w, c)' => cursor'[w][c] = cursor[w][c]
    BY <2>1 DEF Quiet
  <2>4. cursor[w][c] \in Int
    <3>1. cursor[w] \in [Channels -> {NoCursor} \cup 0..last]
      BY <2>1 DEF TypeOK
    <3>2. cursor[w][c] \in {NoCursor} \cup 0..last
      BY <3>1
    <3> QED BY <3>2 DEF NoCursor
  <2>5. Member(w, c)' => Member(w, c) /\ cursor[w][c] <= cursor'[w][c]
    BY <1>1, <2>3, <2>4 DEF Member
  <2>6. ASSUME NEW t \in Of(owed[w], c)' PROVE (t \in owed[w] /\ t <= last) \/ t > last
    <3>1. t \in owed'[w]
      BY <1>1, <2>6 DEF Of
    <3>2. t \in owed[w] \/ t > last
      BY <2>1, <3>1 DEF Quiet
    <3> QED BY <2>1, <3>2
  <2> QED BY <1>1, <2>2, <2>5, <2>6 DEF Smooth
<1> QED BY <1>1, <1>2, <1>3, SmoothFrame

LEMMA QuietComing ==
    ASSUME TypeOK, TypeOK', OwedInv', Presence, ComingInv, Quiet
    PROVE  ComingInv'
<1> SUFFICES ASSUME NEW s \in Sockets, Registered(s)', NEW q \in owed'[owner'[s]]
             PROVE  Reached(s, q)' \/ Coming(s, q)'
  BY DEF ComingInv
<1> DEFINE w == owner[s]
<1>1. Serving(s) /\ Registered(s) /\ owner'[s] = w /\ w \in Workers
  <2>1. session'[owner'[s]] = s /\ owner'[s] \in Workers /\ session' = session
    BY DEF Registered, TypeOK, Quiet
  <2>2. session[owner'[s]] = s
    BY <2>1
  <2>3. Serving(s)
    BY <2>1, <2>2 DEF Presence
  <2> QED BY <2>1, <2>2, <2>3 DEF Quiet, Registered
<1>2. /\ owed[w] \subseteq 1..last /\ owed'[w] \subseteq 1..last' /\ last \in Nat
      /\ q \in owed'[w] /\ q \in 1..last' /\ room'[q] \in Channels
  BY <1>1 DEF TypeOK
<1>3. CASE q \in owed[w]
  <2>1. room'[q] = room[q] /\ mixed' = mixed /\ loop' = loop /\ frames' = frames
        /\ (s \in wake \/ pending[s] > 0 => s \in wake' \/ pending'[s] > 0)
    BY <1>2, <1>3 DEF Quiet
  <2>2. cursor'[w][room'[q]] = cursor[w][room'[q]]
    BY <1>1, <1>2 DEF OwedInv, Quiet
  <2>3. Reached(s, q) \/ Coming(s, q)
    BY <1>1, <1>3 DEF ComingInv
  <2>4. Reached(s, q) => Reached(s, q)'
    BY <1>1, <2>1, <2>2 DEF Reached, Mixed
  <2>5. Coming(s, q) => Coming(s, q)'
    BY <2>1 DEF Coming
  <2> QED BY <2>3, <2>4, <2>5
<1>4. CASE session[w] \in wake'
  BY <1>1, <1>4 DEF Registered, Coming
<1>5. session[w] = s /\ session[w] # None
  BY <1>1 DEF Registered
<1> QED BY <1>1, <1>2, <1>3, <1>4, <1>5 DEF Quiet

LEMMA QuietStep ==
    ASSUME TypeOK, TypeOK', Presence, DeliverInv, OwedInv', RestInv', Quiet
    PROVE  DeliverInv'
BY QuietKnows, QuietComing DEF DeliverInv


(***************************************************************************)
(* What every step keeps: OwedInv, RestInv, and DeliverInv action by action. *)
(***************************************************************************)

\* w leaves the channels in C.
LEMMA ForgetOwed ==
    ASSUME TypeOK, OwedInv, NEW w \in Workers, NEW C \in SUBSET Channels, Forget(w, C),
           UNCHANGED <<log, sender, room>>
    PROVE  OwedInv'
<1>1. ASSUME NEW v \in Workers, NEW q \in owed'[v]
      PROVE  q \in log /\ sender[q] # v /\ cursor'[v][room[q]] # NoCursor
  <2>1. q \in owed[v] /\ (v = w => room[q] \notin C) /\ room[q] \in Channels
    BY <1>1 DEF Forget, TypeOK
  <2>2. cursor'[v][room[q]] = cursor[v][room[q]]
    <3>1. cursor[v] \in [Channels -> {NoCursor} \cup 0..last]
      BY DEF TypeOK
    <3> QED BY <2>1, <3>1 DEF Forget, TypeOK
  <2> QED BY <2>1, <2>2 DEF OwedInv, Member
<1> QED BY <1>1 DEF OwedInv, Member

LEMMA OwedStep == TypeOK /\ OwedInv /\ [Next]_vars => OwedInv'
<1> SUFFICES ASSUME TypeOK, OwedInv, [Next]_vars PROVE OwedInv'
  OBVIOUS
<1> USE DEF OwedInv, Member
<1>0. \A v \in Workers : cursor[v] \in [Channels -> {NoCursor} \cup 0..last] /\ owed[v] \subseteq 1..last
  BY DEF TypeOK
<1>1. CASE UNCHANGED <<log, sender, room, cursor, owed>>
  BY <1>1
<1>2. ASSUME NEW c \in Channels, NEW from \in Workers \cup {Server}, Post(c, from)
      PROVE  OwedInv'
  <2> SUFFICES ASSUME NEW v \in Workers, NEW q \in owed'[v]
               PROVE  q \in log' /\ sender'[q] # v /\ cursor'[v][room'[q]] # NoCursor
    OBVIOUS
  <2>1. last + 1 \in Seqs
    BY <1>2 DEF Post, TypeOK, Seqs
  <2>2. CASE q \in owed[v]
    <3>1. q \in Seqs /\ q # last + 1
      BY <1>0, <2>2 DEF TypeOK, Seqs
    <3> QED BY <1>2, <2>1, <2>2, <3>1 DEF Post, TypeOK
  <2>3. CASE q \notin owed[v]
    <3>1. q = last + 1 /\ v # from /\ cursor[v][c] # NoCursor
      BY <1>2, <2>3 DEF Post
    <3> QED BY <1>2, <2>1, <3>1 DEF Post, TypeOK
  <2> QED BY <2>2, <2>3
<1>3. CASE Prune
  BY <1>3 DEF Prune, Delete
<1>4. ASSUME NEW c \in Channels, RemoveChannel(c) PROVE OwedInv'
  <2>1. ASSUME NEW v \in Workers, NEW q \in owed'[v]
        PROVE  q \in log' /\ cursor'[v][room[q]] # NoCursor /\ sender[q] # v
    <3>1. q \in owed[v] /\ q \in log /\ room[q] # c /\ q \in log' /\ room[q] \in Channels
      BY <1>0, <1>4, <2>1 DEF RemoveChannel, TypeOK
    <3>2. cursor'[v][room[q]] = cursor[v][room[q]]
      BY <1>0, <1>4, <3>1 DEF RemoveChannel
    <3> QED BY <3>1, <3>2
  <2> QED BY <1>4, <2>1 DEF RemoveChannel
<1>5. ASSUME NEW w \in Workers, NEW c \in Channels, Leave(w, c) PROVE OwedInv'
  BY <1>5, ForgetOwed DEF Leave, store
<1>6. ASSUME NEW w \in Workers, RemoveWorker(w) PROVE OwedInv'
  BY <1>6, ForgetOwed DEF RemoveWorker, store
<1>7. ASSUME NEW w \in Workers, NEW c \in Channels, NEW from \in Nat, Join(w, c, from)
      PROVE  OwedInv'
  <2>1. ASSUME NEW v \in Workers, NEW q \in owed'[v]
        PROVE  q \in log /\ cursor'[v][room[q]] # NoCursor /\ sender[q] # v
    <3>1. CASE q \in owed[v]
      <4>1. room[q] \in Channels
        BY <1>0, <3>1 DEF TypeOK
      <4>2. cursor'[v][room[q]] = cursor[v][room[q]] \/ cursor'[v][room[q]] = from
        BY <1>0, <1>7, <4>1 DEF Join, TypeOK
      <4> QED BY <3>1, <4>2 DEF NoCursor
    <3>2. CASE q \notin owed[v]
      <4>1. v = w /\ q \in log /\ room[q] = c /\ sender[q] # w
        BY <1>7, <2>1, <3>2 DEF Join, TypeOK
      <4>2. cursor'[v][c] = from
        BY <1>0, <1>7, <4>1 DEF Join, TypeOK
      <4> QED BY <4>1, <4>2 DEF NoCursor
    <3> QED BY <3>1, <3>2
  <2> QED BY <1>7, <2>1 DEF Join, store
<1>8. ASSUME NEW w \in Workers, NEW c \in Channels, JoinNow(w, c) \/ JoinFromStart(w, c)
      PROVE  OwedInv'
  <2>1. last \in Nat /\ 0 \in Nat
    BY DEF TypeOK
  <2>2. Join(w, c, last) \/ Join(w, c, 0)
    BY <1>8, Zenon DEF JoinNow, JoinFromStart
  <2> QED BY <1>7, <2>1, <2>2, Zenon
<1>9. ASSUME NEW s \in Sockets, NEW c \in Channels, NEW q \in Seqs, Ack(s, c, q) PROVE OwedInv'
  <2> DEFINE w == owner[s]
  <2>1. w \in Workers /\ cursor[w][c] # NoCursor /\ UNCHANGED <<log, sender, room, owed>>
    BY <1>9 DEF Ack, Serving, TypeOK, store
  <2>2. PICK top \in log \cup {0} :
           cursor' = [cursor EXCEPT ![w][c] = Larger(@, IF q < top THEN q ELSE top)]
    BY <1>9, Zenon DEF Ack
  <2>3. top \in Nat /\ q \in Nat
    <3>1. q \in Nat
      BY DEF Seqs
    <3>2. log \subseteq Nat
      BY DEF TypeOK
    <3> QED BY <2>2, <3>1, <3>2
  <2> HIDE DEF w
  <2>4. cursor[w][c] \in {NoCursor} \cup 0..last
    BY <1>0, <2>1, <2>3
  <2>5. Larger(cursor[w][c], IF q < top THEN q ELSE top) # NoCursor
    BY <2>1, <2>3, <2>4 DEF Larger, NoCursor
  <2>6. \A v \in Workers, d \in Channels : cursor[v][d] # NoCursor => cursor'[v][d] # NoCursor
    BY <1>0, <2>1, <2>2, <2>5 DEF TypeOK
  <2>7. \A v \in Workers : \A t \in owed[v] : room[t] \in Channels
    BY <1>0 DEF TypeOK
  <2> QED BY <2>1, <2>6, <2>7
<1>10. ASSUME NEW w \in Workers, Rotate(w) \/ AddWorker(w) \/ Tell(w)
       PROVE  UNCHANGED <<log, sender, room, cursor, owed>>
  BY <1>10 DEF Rotate, AddWorker, Tell, store, history
<1>11. ASSUME NEW s \in Sockets, Connection(s) \/ Look(s) \/ Send(s)
       PROVE  UNCHANGED <<log, sender, room, cursor, owed>>
  BY <1>11 DEF Connection, Arrive, Serve, Register, End, Drop, Notified, Look, Send, store, history
<1>12. CASE Restart
  BY <1>1, <1>12 DEF Restart, store, history
<1>13. CASE UNCHANGED vars
  BY <1>1, <1>13 DEF vars, store, history
<1> QED
  BY <1>1, <1>2, <1>3, <1>4, <1>5, <1>6, <1>8, <1>9, <1>10, <1>11, <1>12, <1>13, Zenon
     DEF Next, Admin

\* What a socket at rest has read, once its delivery goes on.
LEMMA OnwardRests ==
    ASSUME StoreType, NEW w, NEW snap, NEW todo \in SUBSET Channels, NEW done,
           NEW more \in BOOLEAN, NEW l, l = Onward(w, snap, todo, done, more)
    PROVE  l.at # "sending" => l = Resting(l.at)
<1>1. RestsAt(l, w, snap, todo, done, more) => l = Resting(l.at)
  BY DEF RestsAt, Resting
<1>2. ASSUME NEW c \in todo, SendsFrom(l, c, w, snap, todo, done, more) PROVE l.at = "sending"
  BY <1>2 DEF SendsFrom
<1> QED BY <1>1, <1>2, OnwardReads

\* A loop's step is about its own socket.
LEMMA LoopTouches ==
    ASSUME TypeOK, NEW s \in Sockets, Look(s) \/ Send(s), NEW r \in Sockets \ {s}
    PROVE  /\ sent'[r] = sent[r] /\ loop'[r] = loop[r] /\ frames'[r] = frames[r]
           /\ r \in wake => r \in wake'
<1>1. CASE Look(s)
  <2>1. /\ wake' = wake \ {s} /\ frames' = frames
        /\ \E x : sent' = [sent EXCEPT ![s] = x]
        /\ \E x : loop' = [loop EXCEPT ![s] = x]
    BY <1>1 DEF Look
  <2> QED BY <2>1 DEF TypeOK
<1>2. CASE Send(s)
  <2>1. /\ wake' = wake /\ frames' = [frames EXCEPT ![s] = @ \cup {First(loop[s].rows)}]
        /\ \E x : sent' = [sent EXCEPT ![s] = x]
        /\ \E x : loop' = [loop EXCEPT ![s] = x]
    BY <1>2 DEF Send, waking
  <2> QED BY <2>1 DEF TypeOK
<1> QED BY <1>1, <1>2

\* RestInv of one socket.
Rests(s) ==
    /\ ~ Serving(s) => loop[s] = Resting("waiting") /\ frames[s] = {} /\ sent[s] = Unsent
    /\ loop[s].at # "sending" => loop[s] = Resting(loop[s].at)

LEMMA RestStep == TypeOK /\ RestInv /\ [Next]_vars => RestInv'
<1> SUFFICES ASSUME TypeOK, RestInv, [Next]_vars PROVE \A r \in Sockets : Rests(r)'
  BY DEF RestInv, Rests
<1>0. \A r \in Sockets : Rests(r)
  BY DEF RestInv, Rests
<1>1. ASSUME NEW r \in Sockets, loop'[r] = loop[r], frames'[r] = frames[r], sent'[r] = sent[r],
             Serving(r) => Serving(r)'
      PROVE  Rests(r)'
  BY <1>0, <1>1 DEF Rests
<1>2. ASSUME NEW r \in Sockets, loop'[r] = Resting("waiting"), frames'[r] = {}, sent'[r] = Unsent
      PROVE  Rests(r)'
  BY <1>2 DEF Rests, Resting
<1>3. CASE UNCHANGED <<at, loop, frames, sent>>
  BY <1>1, <1>3 DEF Serving
<1>4. ASSUME NEW s \in Sockets, NEW r \in Sockets, (\E w \in Workers : Arrive(s, w)) \/ Serve(s) \/ Register(s)
      PROVE  Rests(r)'
  <2>1. CASE UNCHANGED delivery
    <3>1. Serving(r) => Serving(r)'
      BY <1>4, <2>1 DEF Arrive, Serve, Register, Enter, Serving, TypeOK
    <3> QED BY <1>1, <2>1, <3>1 DEF delivery
  <2>2. CASE Enter(s)
    <3>1. at' = [at EXCEPT ![s] = "serving"] /\ UNCHANGED <<frames, sent>>
          /\ loop' = [loop EXCEPT ![s] = Resting("looking")]
      BY <2>2 DEF Enter
    <3>2. CASE r = s
      <4>1. loop'[r] = Resting("looking") /\ at'[r] = "serving"
        BY <3>1, <3>2 DEF TypeOK
      <4> QED BY <4>1 DEF Rests, Resting, Serving
    <3>3. CASE r # s
      <4>1. loop'[r] = loop[r] /\ at'[r] = at[r]
        BY <3>1, <3>3 DEF TypeOK
      <4> QED BY <1>1, <3>1, <4>1 DEF Serving
    <3> QED BY <3>2, <3>3
  <2>3. UNCHANGED delivery \/ Enter(s)
    BY <1>4 DEF Arrive, Serve, Register
  <2> QED BY <2>1, <2>2, <2>3
<1>5. ASSUME NEW s \in Sockets, NEW r \in Sockets, End(s) PROVE Rests(r)'
  <2>1. /\ at' = [at EXCEPT ![s] = "ended"] /\ sent' = [sent EXCEPT ![s] = Unsent]
        /\ loop' = [loop EXCEPT ![s] = Resting("waiting")]
        /\ frames' = [frames EXCEPT ![s] = {}]
    BY <1>5 DEF End, Gone
  <2>2. CASE r = s
    <3>1. loop'[r] = Resting("waiting") /\ frames'[r] = {} /\ sent'[r] = Unsent
      BY <2>1, <2>2 DEF TypeOK
    <3> QED BY <1>2, <3>1
  <2>3. CASE r # s
    <3>1. loop'[r] = loop[r] /\ frames'[r] = frames[r] /\ sent'[r] = sent[r] /\ at'[r] = at[r]
      BY <2>1, <2>3 DEF TypeOK
    <3> QED BY <1>1, <3>1 DEF Serving
  <2> QED BY <2>2, <2>3
<1>6. ASSUME NEW r \in Sockets, Restart PROVE Rests(r)'
  BY <1>2, <1>6 DEF Restart
<1>7. ASSUME NEW s \in Sockets, NEW r \in Sockets, Look(s) \/ Send(s) PROVE Rests(r)'
  <2>1. Serving(s) /\ owner[s] \in Workers /\ UNCHANGED at /\ StoreType
    BY <1>7, FourTypes DEF Look, Send, conns, Serving, TypeOK
  <2>2. CASE r # s
    <3>1. loop'[r] = loop[r] /\ frames'[r] = frames[r] /\ sent'[r] = sent[r]
      BY <1>7, <2>2, LoopTouches
    <3> QED BY <1>1, <2>1, <3>1 DEF Serving
  <2>3. ASSUME r = s, loop'[s].at # "sending" => loop'[s] = Resting(loop'[s].at) PROVE Rests(r)'
    BY <2>1, <2>3 DEF Rests, Serving
  <2>4. CASE Look(s)
    <3> DEFINE done == [c \in Channels |-> IF Member(owner[s], c) THEN sent[s][c] ELSE 0]
               here == {c \in Channels : Member(owner[s], c)}
    <3>1. loop'[s] = Onward(owner[s], cursor[owner[s]], here, done, FALSE)
      BY <2>4 DEF Look, TypeOK
    <3>2. here \in SUBSET Channels /\ FALSE \in BOOLEAN
      OBVIOUS
    <3> HIDE DEF done, here
    <3>4. \A l : l = Onward(owner[s], cursor[owner[s]], here, done, FALSE) =>
               (l.at # "sending" => l = Resting(l.at))
      BY <2>1, <3>2, OnwardRests
    <3>3. loop'[s].at # "sending" => loop'[s] = Resting(loop'[s].at)
      BY <3>1, <3>4, Zenon
    <3> QED BY <2>2, <2>3, <3>3
  <2>5. CASE Send(s)
    <3> DEFINE l == loop[s]
               q == First(l.rows)
               done == [sent[s] EXCEPT ![room[q]] = q]
    <3>1. /\ loop'[s] = IF l.rows # {q} THEN [l EXCEPT !.rows = @ \ {q}]
                        ELSE Onward(owner[s], l.snap, l.todo, done, l.more)
          /\ l.at = "sending" /\ l \in Loops
      BY <2>5 DEF Send, TypeOK, Loops
    <3> HIDE DEF done, q, l
    <3>2. l.todo \in SUBSET Channels /\ l.more \in BOOLEAN
      BY <3>1 DEF Loops
    <3>3. CASE l.rows # {q}
      <4>1. loop'[s].at = "sending"
        BY <3>1, <3>3 DEF Loops
      <4> QED BY <2>2, <2>3, <4>1
    <3>4. CASE l.rows = {q}
      <4>1. loop'[s] = Onward(owner[s], l.snap, l.todo, done, l.more)
        BY <3>1, <3>4
      <4>2. loop'[s].at # "sending" => loop'[s] = Resting(loop'[s].at)
        BY <2>1, <3>2, <4>1, OnwardRests
      <4> QED BY <2>2, <2>3, <4>2
    <3> QED BY <3>3, <3>4
  <2> QED BY <1>7, <2>4, <2>5
<1>8. ASSUME Prune \/ (\E c \in Channels : RemoveChannel(c) \/ \E from \in Workers \cup {Server} : Post(c, from))
      PROVE  UNCHANGED <<at, loop, frames, sent>>
  BY <1>8 DEF Prune, RemoveChannel, Post, conns, delivery
<1>9. ASSUME NEW w \in Workers, Admin(w) PROVE UNCHANGED <<at, loop, frames, sent>>
  BY <1>9 DEF Admin, Rotate, RemoveWorker, AddWorker, Tell, JoinNow, JoinFromStart, Join, Leave, conns, delivery
<1>10. ASSUME NEW s \in Sockets, Drop(s) \/ Notified(s) \/ \E c \in Channels, q \in Seqs : Ack(s, c, q)
       PROVE  UNCHANGED <<at, loop, frames, sent>>
  BY <1>10 DEF Drop, Notified, Ack, conns, delivery
<1>11. CASE UNCHANGED vars
  BY <1>3, <1>11 DEF vars, conns, delivery
<1> QED
  BY <1>3, <1>4, <1>5, <1>6, <1>7, <1>8, <1>9, <1>10, <1>11, Zenon DEF Next, Connection


\* The connections and what their loops do stay as they are.
LEMMA QuietBy ==
    ASSUME TypeOK, UNCHANGED <<conns, delivery, mixed>>,
           \A s \in Sockets : s \in wake \/ pending[s] > 0 => s \in wake' \/ pending'[s] > 0,
           last <= last', \A q \in 1..last : room'[q] = room[q],
           \A w \in Workers :
              /\ \A c \in Channels : Member(w, c)' => cursor'[w][c] = cursor[w][c]
              /\ \A t \in owed'[w] :
                    t \in owed[w] \/ (t > last /\ (session[w] # None => session[w] \in wake'))
    PROVE  Quiet
BY DEF Quiet, conns, delivery, Serving

LEMMA PostQuiet ==
    ASSUME TypeOK, NEW c \in Channels, NEW from \in Workers \cup {Server}, Post(c, from)
    PROVE  Quiet
<1> DEFINE to == {w \in Workers \ {from} : Member(w, c)}
<1>1. /\ last' = last + 1 /\ room' = [room EXCEPT ![last + 1] = c]
      /\ wake' = wake \cup ({session[w] : w \in to} \ {None})
      /\ owed' = [w \in Workers |-> owed[w] \cup IF w \in to THEN {last + 1} ELSE {}]
      /\ UNCHANGED <<cursor, conns, delivery, pending, mixed>>
      /\ last \in Nat
  BY DEF Post, TypeOK
<1>2. \A q \in 1..last : room'[q] = room[q]
  BY <1>1 DEF TypeOK, Seqs
<1>3. ASSUME NEW w \in Workers, NEW t \in owed'[w]
      PROVE  t \in owed[w] \/ (t > last /\ (session[w] # None => session[w] \in wake'))
  BY <1>1, <1>3
<1>4. \A w \in Workers : \A d \in Channels : cursor'[w][d] = cursor[w][d]
  BY <1>1
<1> QED BY <1>1, <1>2, <1>3, <1>4, QuietBy

LEMMA NotifyWakes ==
    ASSUME TypeOK, NEW w \in Workers, Notify(w), UNCHANGED wake
    PROVE  \A s \in Sockets : s \in wake \/ pending[s] > 0 => s \in wake' \/ pending'[s] > 0
BY DEF Notify, TypeOK

LEMMA ForgetQuiet ==
    ASSUME TypeOK, NEW w \in Workers, NEW C \in SUBSET Channels, Forget(w, C), UNCHANGED room
    PROVE  \A v \in Workers :
              /\ \A c \in Channels : Member(v, c)' => cursor'[v][c] = cursor[v][c]
              /\ \A t \in owed'[v] : t \in owed[v]
<1> SUFFICES ASSUME NEW v \in Workers
             PROVE  /\ \A c \in Channels : cursor'[v][c] # NoCursor => cursor'[v][c] = cursor[v][c]
                    /\ \A t \in owed'[v] : t \in owed[v]
  BY DEF Member
<1>1. cursor[v] \in [Channels -> {NoCursor} \cup 0..last]
  BY DEF TypeOK
<1>2. ASSUME NEW c \in Channels, cursor'[v][c] # NoCursor PROVE cursor'[v][c] = cursor[v][c]
  BY <1>1, <1>2 DEF Forget, TypeOK
<1>3. ASSUME NEW t \in owed'[v] PROVE t \in owed[v]
  BY <1>3 DEF Forget, TypeOK
<1> QED BY <1>2, <1>3

LEMMA MembersQuiet ==
    ASSUME TypeOK, OwedInv, NEW w \in Workers
    PROVE  (\E c \in Channels : Leave(w, c)) \/ RemoveWorker(w) \/ Tell(w) => Quiet
<1>0. last \in Nat /\ last <= last
  BY DEF TypeOK
<1>1. ASSUME NEW c \in Channels, Leave(w, c) PROVE Quiet
  <2>1. Forget(w, {c}) /\ Notify(w) /\ UNCHANGED <<last, room, conns, delivery, wake, mixed>>
    BY <1>1 DEF Leave, store
  <2> QED BY <1>0, <2>1, ForgetQuiet, NotifyWakes, QuietBy
<1>2. ASSUME RemoveWorker(w) PROVE Quiet
  <2>1. /\ Forget(w, Channels)
        /\ UNCHANGED <<last, room, session, at, owner, delivery, wake, pending, mixed>>
    BY <1>2 DEF RemoveWorker, store, waking
  <2>2. \A v \in Workers :
              /\ \A d \in Channels : Member(v, d)' => cursor'[v][d] = cursor[v][d]
              /\ \A t \in owed'[v] : t \in owed[v]
    BY <2>1, ForgetQuiet
  <2> QED BY <1>0, <2>1, <2>2 DEF Quiet, delivery, Serving
<1>3. ASSUME Tell(w) PROVE Quiet
  <2>1. Notify(w) /\ UNCHANGED <<last, room, cursor, conns, delivery, wake, owed, mixed>>
    BY <1>3 DEF Tell, store, history
  <2> QED BY <1>0, <2>1, NotifyWakes, QuietBy
<1> QED BY <1>1, <1>2, <1>3

LEMMA ChannelQuiet ==
    ASSUME TypeOK, OwedInv
    PROVE  (\E c \in Channels : RemoveChannel(c)) \/ Prune => Quiet
<1>0. last \in Nat /\ last <= last
  BY DEF TypeOK
<1>1. ASSUME NEW c \in Channels, RemoveChannel(c) PROVE Quiet
  <2>1. /\ cursor' = [v \in Workers |-> [cursor[v] EXCEPT ![c] = NoCursor]]
        /\ owed' = [v \in Workers |-> owed[v] \ {q \in log : room[q] = c}]
        /\ UNCHANGED <<last, room, conns, delivery, wake, pending, mixed>>
    BY <1>1 DEF RemoveChannel
  <2>2. ASSUME NEW v \in Workers, NEW d \in Channels, cursor'[v][d] # NoCursor
        PROVE  cursor'[v][d] = cursor[v][d]
    <3>1. cursor[v] \in [Channels -> {NoCursor} \cup 0..last]
      BY DEF TypeOK
    <3> QED BY <2>1, <2>2, <3>1
  <2>3. \A v \in Workers : \A t \in owed'[v] : t \in owed[v]
    BY <2>1
  <2>4. \A v \in Workers : \A d \in Channels : Member(v, d)' => cursor'[v][d] = cursor[v][d]
    BY <2>2 DEF Member
  <2> QED BY <1>0, <2>1, <2>3, <2>4, QuietBy
<1>2. ASSUME Prune PROVE Quiet
  <2>1. /\ \A v \in Workers : owed'[v] \subseteq owed[v]
        /\ UNCHANGED <<last, room, cursor, conns, delivery, wake, pending, mixed>>
    BY <1>2 DEF Prune, Delete, waking
  <2> QED BY <1>0, <2>1, QuietBy
<1> QED BY <1>1, <1>2

LEMMA KeysQuiet ==
    ASSUME TypeOK, NEW w \in Workers
    PROVE  Rotate(w) \/ AddWorker(w) => Quiet
<1> SUFFICES ASSUME Rotate(w) \/ AddWorker(w) PROVE Quiet
  OBVIOUS
<1>1. last \in Nat /\ last <= last
  BY DEF TypeOK
<1>2. UNCHANGED <<last, room, cursor, session, at, owner, delivery, wake, pending, history>>
  BY DEF Rotate, AddWorker, store, conns, waking
<1> QED BY <1>1, <1>2 DEF Quiet, delivery, history, Serving

LEMMA SocketQuiet ==
    ASSUME TypeOK, NEW s \in Sockets
    PROVE  /\ (\E w \in Workers : Arrive(s, w)) => Quiet
           /\ Serve(s) => Enter(s) \/ Quiet
           /\ Drop(s) => Quiet
           /\ Notified(s) => Quiet
<1>0. last \in Nat /\ last <= last
  BY DEF TypeOK
<1>1. ASSUME NEW w \in Workers, Arrive(s, w) PROVE Quiet
  <2>1. /\ at[s] = "free" /\ at' = [at EXCEPT ![s] = "accepting"] /\ owner' = [owner EXCEPT ![s] = w]
        /\ UNCHANGED <<last, room, cursor, session, delivery, wake, pending, history>>
    BY <1>1 DEF Arrive, store, waking
  <2>2. \A r \in Sockets : (Serving(r)' <=> Serving(r)) /\ (Serving(r) => owner'[r] = owner[r])
    BY <2>1 DEF Serving, TypeOK
  <2> QED BY <1>0, <2>1, <2>2 DEF Quiet, delivery, history
<1>2. ASSUME Serve(s), ~ Enter(s) PROVE Quiet
  <2>1. /\ at[s] = "accepting" /\ at' = [at EXCEPT ![s] = "replacing"]
        /\ UNCHANGED <<last, room, cursor, session, owner, delivery, wake, pending, history>>
    BY <1>2 DEF Serve, store, waking
  <2>2. \A r \in Sockets : (Serving(r)' <=> Serving(r)) /\ (Serving(r) => owner'[r] = owner[r])
    BY <2>1 DEF Serving, TypeOK
  <2> QED BY <1>0, <2>1, <2>2 DEF Quiet, delivery, history
<1>3. ASSUME Drop(s) PROVE Quiet
  <2>1. UNCHANGED <<last, room, cursor, session, at, owner, delivery, wake, pending, history>>
    BY <1>3 DEF Drop, store, waking
  <2> QED BY <1>0, <2>1 DEF Quiet, delivery, history, Serving
<1>4. ASSUME Notified(s) PROVE Quiet
  <2>1. /\ pending' = [pending EXCEPT ![s] = @ - 1] /\ wake' = wake \cup {s}
        /\ UNCHANGED <<last, room, cursor, conns, delivery, owed, mixed>>
    BY <1>4 DEF Notified, store, history
  <2>2. \A r \in Sockets : r \in wake \/ pending[r] > 0 => r \in wake' \/ pending'[r] > 0
    BY <2>1 DEF TypeOK
  <2> QED BY <1>0, <2>1, <2>2, QuietBy
<1> QED BY <1>1, <1>2, <1>3, <1>4

LEMMA StutterQuiet == TypeOK /\ UNCHANGED vars => Quiet
<1> SUFFICES ASSUME TypeOK, UNCHANGED vars PROVE Quiet
  OBVIOUS
<1>1. last \in Nat /\ last <= last
  BY DEF TypeOK
<1> QED BY <1>1, QuietBy DEF vars, store, history, waking


\* No place, message or membership changes, and of the sockets only s does.
OnlySocket(s) ==
    /\ UNCHANGED <<last, room, cursor, owed, mixed>>
    /\ \A r \in Sockets \ {s} :
          /\ Serving(r)' => Serving(r)
          /\ Registered(r)' => Registered(r)
          /\ owner'[r] = owner[r] /\ sent'[r] = sent[r]
          /\ loop'[r] = loop[r] /\ frames'[r] = frames[r]
          /\ r \in wake \/ pending[r] > 0 => r \in wake' \/ pending'[r] > 0

LEMMA SocketStep ==
    ASSUME TypeOK, TypeOK', Presence, DeliverInv, OwedInv', RestInv',
           NEW s \in Sockets, OnlySocket(s),
           Serving(s)' => Knows(s)',
           Registered(s)' => \A q \in owed[owner'[s]] : Reached(s, q)' \/ Coming(s, q)'
    PROVE  DeliverInv'
<1>1. ASSUME NEW r \in Sockets, Serving(r)' PROVE Knows(r)'
  <2>1. CASE r # s
    <3>1. /\ Knows(r) /\ owner[r] \in Workers /\ last \in Nat /\ owed[owner[r]] \subseteq 1..last
          /\ owner'[r] = owner[r] /\ sent'[r] = sent[r]
          /\ loop'[r] = loop[r] /\ frames'[r] = frames[r]
          /\ UNCHANGED <<last, room, cursor, owed, mixed>>
      BY <1>1, <2>1 DEF OnlySocket, DeliverInv, KnowInv, Serving, TypeOK
    <3>2. ASSUME NEW c \in Channels PROVE Smooth(r, c)
      <4>1. Mixed(owner[r], c)' <=> Mixed(owner[r], c)
        BY <3>1 DEF Mixed
      <4>2. cursor[owner[r]][c] \in Int
        <5>1. cursor[owner[r]] \in [Channels -> {NoCursor} \cup 0..last]
          BY <3>1 DEF TypeOK
        <5>2. cursor[owner[r]][c] \in {NoCursor} \cup 0..last
          BY <5>1
        <5> QED BY <5>2 DEF NoCursor
      <4>3. Member(owner[r], c)' => Member(owner[r], c)
                /\ cursor[owner[r]][c] <= cursor'[owner[r]][c]
        BY <3>1, <4>2 DEF Member
      <4>4. \A t \in Of(owed[owner[r]], c)' : t \in owed[owner[r]] /\ t <= last
        BY <3>1 DEF Of
      <4> QED BY <3>1, <4>1, <4>3, <4>4 DEF Smooth
    <3>3. last <= last' /\ \A q \in 1..last : room'[q] = room[q]
      BY <3>1
    <3> QED BY <3>1, <3>2, <3>3, SmoothFrame
  <2> QED BY <1>1, <2>1
<1>2. ASSUME NEW r \in Sockets, Registered(r)', NEW q \in owed'[owner'[r]]
      PROVE  Reached(r, q)' \/ Coming(r, q)'
  <2>1. CASE r # s
    <3>1. /\ owner'[r] = owner[r] /\ frames'[r] = frames[r] /\ loop'[r] = loop[r]
          /\ r \in wake \/ pending[r] > 0 => r \in wake' \/ pending'[r] > 0
          /\ Registered(r) /\ UNCHANGED <<last, room, cursor, owed, mixed>>
      BY <1>2, <2>1 DEF OnlySocket
    <3>2. Reached(r, q) \/ Coming(r, q)
      BY <1>2, <3>1 DEF DeliverInv, ComingInv
    <3>3. Reached(r, q) => Reached(r, q)'
      BY <3>1 DEF Reached, Mixed
    <3>4. Coming(r, q) => Coming(r, q)'
      BY <3>1 DEF Coming
    <3> QED BY <3>2, <3>3, <3>4
  <2>2. owed' = owed
    BY DEF OnlySocket
  <2> QED BY <1>2, <2>1, <2>2
<1> QED BY <1>1, <1>2 DEF DeliverInv, KnowInv, ComingInv

LEMMA EnterDelivers ==
    ASSUME TypeOK, TypeOK', Presence, DeliverInv, OwedInv', RestInv',
           NEW s \in Sockets, ~ Serving(s), owner[s] \in Workers, Enter(s),
           UNCHANGED <<store, cursor, waking, history>>
    PROVE  DeliverInv'
<1>1. /\ session' = [session EXCEPT ![owner[s]] = s] /\ at' = [at EXCEPT ![s] = "serving"]
      /\ loop' = [loop EXCEPT ![s] = Resting("looking")]
      /\ UNCHANGED <<last, room, cursor, wake, pending, owed, mixed, owner, sent, frames>>
  BY DEF Enter, store, waking, history
<1>2. loop'[s] = Resting("looking") /\ frames'[s] = {} /\ sent'[s] = Unsent
  BY <1>1 DEF TypeOK, DeliverInv, RestInv
<1>3. OnlySocket(s)
  <2>1. ASSUME NEW r \in Sockets \ {s} PROVE Serving(r)' => Serving(r)
    BY <1>1 DEF Serving, TypeOK
  <2>2. ASSUME NEW r \in Sockets \ {s}, Registered(r)' PROVE Registered(r)
    BY <1>1, <2>2 DEF Registered, TypeOK
  <2>3. ASSUME NEW r \in Sockets \ {s} PROVE loop'[r] = loop[r]
    BY <1>1 DEF TypeOK
  <2> QED BY <1>1, <2>1, <2>2, <2>3 DEF OnlySocket
<1>4. Knows(s)'
  <2>1. \A c : Of(frames[s], c)' = {}
    BY <1>2 DEF Of
  <2>2. \A w \in Workers : owed'[w] \subseteq 1..last' /\ last' \in Nat
    BY DEF TypeOK
  <2>3. owner'[s] \in Workers
    BY <1>1
  <2>4. ASSUME NEW c \in Channels PROVE SentAt(s, c)'
    <3>1. sent'[s][c] = 0
      BY <1>2 DEF Unsent
    <3>2. \A t \in Of(owed[owner[s]], c)' : ~ (t <= 0)
      BY <2>2, <2>3 DEF Of
    <3> QED BY <2>1, <3>1, <3>2 DEF SentAt
  <2>5. loop'[s].rows = {} /\ loop'[s].todo = {}
    BY <1>2 DEF Resting
  <2> QED BY <2>4, <2>5 DEF Knows
<1>5. \A q : Coming(s, q)'
  BY <1>2 DEF Coming, Resting
<1> QED BY <1>3, <1>4, <1>5, SocketStep

LEMMA ConnectDelivers ==
    ASSUME TypeOK, TypeOK', Presence, DeliverInv, OwedInv', RestInv', NEW s \in Sockets
    PROVE  /\ Serve(s) => DeliverInv'
           /\ Register(s) => DeliverInv'
           /\ End(s) => DeliverInv'
<1>1. ASSUME Serve(s) \/ Register(s), Enter(s) PROVE DeliverInv'
  <2>1. ~ Serving(s) /\ owner[s] \in Workers /\ UNCHANGED <<store, cursor, waking, history>>
    BY <1>1 DEF Serve, Register, Serving, TypeOK
  <2> QED BY <1>1, <2>1, EnterDelivers
<1>2. ASSUME End(s) PROVE DeliverInv'
  <2>1. /\ owner[s] \in Workers /\ at' = [at EXCEPT ![s] = "ended"]
        /\ session' = [session EXCEPT ![owner[s]] = IF @ = s THEN None ELSE @]
        /\ sent' = [sent EXCEPT ![s] = Unsent]
        /\ loop' = [loop EXCEPT ![s] = Resting("waiting")]
        /\ frames' = [frames EXCEPT ![s] = {}]
        /\ wake' = wake \ {s} /\ pending' = [pending EXCEPT ![s] = 0]
        /\ UNCHANGED <<last, room, cursor, owed, mixed, owner>>
    BY <1>2 DEF End, Gone, Serving, TypeOK, store, history
  <2>2. ASSUME NEW r \in Sockets \ {s}
        PROVE  /\ Serving(r)' => Serving(r)
               /\ Registered(r)' => Registered(r)
    BY <2>1 DEF Serving, Registered, TypeOK
  <2>3. ASSUME NEW r \in Sockets \ {s}
        PROVE  /\ owner'[r] = owner[r] /\ sent'[r] = sent[r]
               /\ loop'[r] = loop[r] /\ frames'[r] = frames[r]
               /\ r \in wake \/ pending[r] > 0 => r \in wake' \/ pending'[r] > 0
    BY <2>1 DEF TypeOK
  <2>4. OnlySocket(s)
    BY <2>1, <2>2, <2>3 DEF OnlySocket
  <2>5. ~ Serving(s)' /\ ~ Registered(s)'
    BY <2>1 DEF Serving, Registered, TypeOK
  <2> QED BY <2>4, <2>5, SocketStep
<1>3. ASSUME Serve(s) PROVE Enter(s) \/ Quiet
  BY <1>3, SocketQuiet
<1>4. Quiet => DeliverInv'
  BY QuietStep
<1>5. Register(s) => Enter(s)
  BY DEF Register
<1> QED BY <1>1, <1>2, <1>3, <1>4, <1>5

LEMMA RestartDelivers ==
    ASSUME TypeOK, DeliverInv, OwedInv', RestInv', Restart
    PROVE  DeliverInv'
<1>1. /\ session' = [w \in Workers |-> None]
      /\ at' = [s \in Sockets |-> IF at[s] = "free" THEN "free" ELSE "ended"]
      /\ UNCHANGED <<room, cursor, owner, owed, mixed>>
  BY DEF Restart, store, history
<1>2. KnowInv'
  BY <1>1 DEF KnowInv, Serving
<1>3. ComingInv'
  BY <1>1 DEF ComingInv, Registered, TypeOK
<1> QED BY <1>2, <1>3 DEF DeliverInv

LEMMA LoopDelivers ==
    ASSUME TypeOK, TypeOK', Presence, DeliverInv, OwedInv', RestInv', NEW s \in Sockets
    PROVE  /\ Look(s) => DeliverInv'
           /\ Send(s) => DeliverInv'
<1> SUFFICES ASSUME Look(s) \/ Send(s) PROVE DeliverInv'
  OBVIOUS
<1>1. /\ Serving(s) /\ owner[s] \in Workers
      /\ UNCHANGED <<last, room, cursor, owed, mixed, session, at, owner, pending>>
  BY DEF Look, Send, store, conns, waking, history, Serving, TypeOK
<1>2. OnlySocket(s)
  <2>1. ASSUME NEW r \in Sockets \ {s}
        PROVE  /\ sent'[r] = sent[r] /\ loop'[r] = loop[r] /\ frames'[r] = frames[r]
               /\ r \in wake => r \in wake'
    BY LoopTouches
  <2> QED BY <1>1, <2>1 DEF OnlySocket, Serving, Registered
<1>3. Knows(s) /\ OwedInv
  BY <1>1 DEF DeliverInv, KnowInv
<1>4. CASE Look(s)
  <2>1. Knows(s)' /\ \A q \in owed[owner[s]] : Reached(s, q)' \/ Coming(s, q)'
    BY <1>3, <1>4, LookKnows
  <2> QED BY <1>1, <1>2, <2>1, SocketStep
<1>5. CASE Send(s)
  <2>1. /\ Knows(s)'
        /\ \A p \in owed[owner[s]] : Reached(s, p) \/ Coming(s, p) => Reached(s, p)' \/ Coming(s, p)'
    BY <1>3, <1>5, SendKnows
  <2>2. Registered(s)' => Registered(s)
    BY <1>1 DEF Registered
  <2>3. Registered(s)' => \A q \in owed[owner[s]] : Reached(s, q)' \/ Coming(s, q)'
    BY <2>1, <2>2 DEF DeliverInv, ComingInv
  <2> QED BY <1>1, <1>2, <2>1, <2>3, SocketStep
<1> QED BY <1>4, <1>5


\* Only places change: each that a delivery is about moves as Smooth says.
LEMMA PlacesKnow ==
    ASSUME TypeOK, TypeOK', OwedInv', KnowInv, UNCHANGED <<last, room, at, owner, sent, loop, frames>>,
           \A s \in Sockets, c \in Channels : Serving(s) => Smooth(s, c)
    PROVE  KnowInv'
<1> SUFFICES ASSUME NEW s \in Sockets, Serving(s)' PROVE Knows(s)'
  BY DEF KnowInv
<1>1. Serving(s) /\ Knows(s) /\ owner[s] \in Workers
  BY DEF KnowInv, Serving, TypeOK
<1>2. last <= last' /\ \A q \in 1..last : room'[q] = room[q]
  BY DEF TypeOK
<1> QED BY <1>1, <1>2, SmoothFrame

\* An acknowledgement does not move a place back.
LEMMA AckDelivers ==
    ASSUME TypeOK, TypeOK', DeliverInv, OwedInv', RestInv',
           NEW s \in Sockets, NEW c \in Channels, NEW q \in Seqs, Ack(s, c, q)
    PROVE  DeliverInv'
<1> DEFINE w == owner[s]
<1>1. /\ w \in Workers /\ Member(w, c)
      /\ UNCHANGED <<last, room, owed, mixed, at, owner, session, sent, loop, frames, wake, pending>>
  BY DEF Ack, Serving, TypeOK, store, conns, delivery, waking
<1>2. PICK top \in log \cup {0} :
         cursor' = [cursor EXCEPT ![w][c] = Larger(@, IF q < top THEN q ELSE top)]
  BY Zenon DEF Ack
<1>3. /\ top \in Nat /\ q \in Nat /\ cursor \in [Workers -> [Channels -> {NoCursor} \cup 0..last]]
      /\ \A v \in Workers : owed[v] \subseteq 1..last
      /\ \A t \in 1..last : room[t] \in Channels /\ t \in Nat
  <2>1. log \subseteq 1..last /\ last \in Nat
    BY DEF TypeOK
  <2>2. top \in Nat /\ q \in Nat
    BY <1>2, <2>1 DEF Seqs
  <2> QED BY <2>1, <2>2 DEF TypeOK
<1> HIDE DEF w
<1>4. \A v \in Workers, d \in Channels : cursor[v][d] \in Int
  <2> SUFFICES ASSUME NEW v \in Workers, NEW d \in Channels PROVE cursor[v][d] \in Int
    OBVIOUS
  <2>1. cursor[v] \in [Channels -> {NoCursor} \cup 0..last]
    BY <1>3
  <2>2. cursor[v][d] \in {NoCursor} \cup 0..last
    BY <2>1
  <2> QED BY <2>2 DEF NoCursor
<1>5. ASSUME NEW v \in Workers, NEW d \in Channels, v # w \/ d # c
      PROVE  cursor'[v][d] = cursor[v][d]
  BY <1>1, <1>2, <1>3, <1>5
<1>6. cursor'[w][c] = Larger(cursor[w][c], IF q < top THEN q ELSE top)
  BY <1>1, <1>2, <1>3
<1>7. cursor[w][c] <= cursor'[w][c]
  BY <1>1, <1>3, <1>4, <1>6 DEF Larger
<1>8. \A v \in Workers, d \in Channels :
         cursor[v][d] <= cursor'[v][d] /\ (Member(v, d)' => Member(v, d))
  <2> SUFFICES ASSUME NEW v \in Workers, NEW d \in Channels
               PROVE  cursor[v][d] <= cursor'[v][d] /\ (Member(v, d)' => Member(v, d))
    OBVIOUS
  <2>1. CASE v = w /\ d = c
    BY <1>1, <1>7, <2>1
  <2>2. CASE v # w \/ d # c
    <3>1. cursor'[v][d] = cursor[v][d] /\ cursor[v][d] \in Int
      BY <1>4, <1>5, <2>2
    <3> QED BY <3>1 DEF Member
  <2> QED BY <2>1, <2>2
<1>9. KnowInv'
  <2>1. ASSUME NEW r \in Sockets, NEW d \in Channels, Serving(r) PROVE Smooth(r, d)
    <3>1. owner[r] \in Workers
      BY <2>1 DEF Serving, TypeOK
    <3>2. \A t \in Of(owed[owner[r]], d)' : t \in owed[owner[r]] /\ t <= last
      BY <1>1, <1>3, <3>1 DEF Of
    <3>3. Mixed(owner[r], d)' <=> Mixed(owner[r], d)
      BY <1>1 DEF Mixed
    <3> QED BY <1>1, <1>8, <3>1, <3>2, <3>3 DEF Smooth
  <2> QED BY <1>1, <2>1, PlacesKnow DEF DeliverInv
<1>10. ASSUME NEW r \in Sockets, Registered(r)', NEW t \in owed'[owner'[r]]
       PROVE  Reached(r, t)' \/ Coming(r, t)'
  <2>1. Registered(r) /\ owner[r] \in Workers /\ t \in owed[owner[r]]
    BY <1>1, <1>10 DEF Registered, TypeOK
  <2>2. t \in 1..last /\ room[t] \in Channels /\ t \in Nat
    BY <1>3, <2>1
  <2>3. Reached(r, t) \/ Coming(r, t)
    BY <2>1 DEF DeliverInv, ComingInv
  <2>4. Coming(r, t) => Coming(r, t)'
    BY <1>1 DEF Coming
  <2>5. /\ cursor[owner[r]][room[t]] <= cursor'[owner[r]][room[t]]
        /\ cursor[owner[r]][room[t]] \in Int /\ cursor'[owner[r]][room[t]] \in Int
    <3>1. cursor' \in [Workers -> [Channels -> {NoCursor} \cup 0..last]]
      BY <1>1 DEF TypeOK
    <3>2. cursor'[owner[r]] \in [Channels -> {NoCursor} \cup 0..last]
      BY <2>1, <3>1
    <3>3. cursor'[owner[r]][room[t]] \in {NoCursor} \cup 0..last
      BY <2>2, <3>2
    <3>4. cursor'[owner[r]][room[t]] \in Int
      BY <1>3, <3>3 DEF NoCursor
    <3>5. /\ cursor[owner[r]][room[t]] \in Int
          /\ cursor[owner[r]][room[t]] <= cursor'[owner[r]][room[t]]
      BY <1>4, <1>8, <2>1, <2>2
    <3> QED BY <3>4, <3>5
  <2>6. Reached(r, t) => Reached(r, t)'
    BY <1>1, <2>2, <2>5 DEF Reached, Mixed
  <2> QED BY <2>3, <2>4, <2>6
<1> QED BY <1>9, <1>10 DEF DeliverInv, ComingInv

\* A worker that joins is owed what is after its new place, whatever its socket
\* was sent before: what it was sent of a membership that ended is a remnant.
LEMMA JoinDelivers ==
    ASSUME TypeOK, TypeOK', DeliverInv, OwedInv', RestInv',
           NEW w \in Workers, NEW c \in Channels, NEW from \in {0, last}, Join(w, c, from)
    PROVE  DeliverInv'
<1>1. /\ cursor' = [cursor EXCEPT ![w][c] = from]
      /\ owed' = [owed EXCEPT ![w] =
                   @ \cup {q \in log : room[q] = c /\ sender[q] # w /\ q > from}]
      /\ mixed' = IF \E s \in Sockets : owner[s] = w /\ Remnant(s, c)
                  THEN IF from = 0 THEN mixed \cup {<<w, c>>} ELSE mixed
                  ELSE mixed \ {<<w, c>>}
      /\ pending' = [s \in Sockets |-> IF s = session[w] THEN pending[s] + 1 ELSE pending[s]]
      /\ cursor[w][c] = NoCursor
      /\ UNCHANGED <<last, room, log, sender, at, owner, session, sent, loop, frames, wake>>
  BY DEF Join, Member, Notify, store, conns, delivery
<1>2. /\ cursor \in [Workers -> [Channels -> {NoCursor} \cup 0..last]] /\ from \in Nat
      /\ \A v \in Workers : owed[v] \subseteq 1..last
      /\ last \in Nat /\ log \subseteq 1..last
      /\ \A t \in 1..last : room[t] \in Channels /\ t \in Nat
  <2>1. StoreType /\ PlaceType
    BY FourTypes
  <2> QED BY <2>1 DEF StoreType, PlaceType
<1>3. ASSUME NEW v \in Workers, NEW d \in Channels, v # w \/ d # c
      PROVE  /\ cursor'[v][d] = cursor[v][d] /\ cursor[v][d] \in Int
             /\ \A t \in Of(owed[v], d)' : t \in owed[v] /\ t <= last
             /\ Mixed(v, d)' <=> Mixed(v, d)
  <2>1. cursor'[v][d] = cursor[v][d]
    BY <1>1, <1>2, <1>3
  <2>2. cursor[v] \in [Channels -> {NoCursor} \cup 0..last]
    BY <1>2
  <2>3. cursor[v][d] \in {NoCursor} \cup 0..last
    BY <2>2
  <2>4. ASSUME NEW t \in Of(owed[v], d)' PROVE t \in owed[v] /\ t <= last
    <3>1. t \in owed'[v] /\ room[t] = d
      BY <1>1, <2>4 DEF Of
    <3>2. t \in owed[v]
      BY <1>1, <1>3, <3>1 DEF TypeOK
    <3> QED BY <1>2, <3>2
  <2>5. Mixed(v, d)' <=> Mixed(v, d)
    BY <1>1, <1>3 DEF Mixed
  <2> QED BY <2>1, <2>3, <2>4, <2>5 DEF NoCursor
<1>4. /\ cursor'[w][c] = from
      /\ \A t \in owed'[w] : t \in 1..last /\ (room[t] = c => t > from)
  <2>1. cursor'[w][c] = from
    BY <1>1, <1>2
  <2>2. \A t \in owed[w] : room[t] # c
    BY <1>1 DEF DeliverInv, OwedInv, Member
  <2>3. owed'[w] = owed[w] \cup {q \in log : room[q] = c /\ sender[q] # w /\ q > from}
    BY <1>1 DEF TypeOK
  <2> QED BY <1>2, <2>1, <2>2, <2>3
<1>5. KnowInv'
  <2>1. ASSUME NEW r \in Sockets, NEW d \in Channels, Serving(r) PROVE Smooth(r, d)
    <3>1. owner[r] \in Workers /\ owner'[r] = owner[r]
      BY <1>1, <2>1 DEF Serving, TypeOK
    <3>2. CASE owner[r] # w \/ d # c
      <4>1. Member(owner[r], d)' => Member(owner[r], d) /\ cursor[owner[r]][d] <= cursor'[owner[r]][d]
        BY <1>3, <3>1, <3>2 DEF Member
      <4> QED BY <1>3, <3>1, <3>2, <4>1 DEF Smooth
    <3>3. CASE owner[r] = w /\ d = c /\ Remnant(r, c)
      <4>1. mixed' = IF from = 0 THEN mixed \cup {<<w, c>>} ELSE mixed
        BY <1>1, <3>3
      <4>2. Mixed(w, c)' \/ (~ Mixed(w, c) /\ from = last)
        BY <4>1 DEF Mixed
      <4>3. \A t \in Of(owed[w], c)' : t \in 1..last
        BY <1>4 DEF Of
      <4>4. ~ Mixed(w, c) /\ from = last =>
              last <= cursor'[w][c] /\ \A t \in Of(owed[w], c)' : t <= cursor'[w][c]
        BY <1>2, <1>4, <4>3
      <4>5. \/ Mixed(w, c)'
            \/ /\ ~ Mixed(w, c) /\ last <= cursor'[w][c]
               /\ \A t \in Of(owed[w], c)' : t <= cursor'[w][c]
        BY <4>2, <4>4
      <4> QED BY <3>1, <3>3, <4>5 DEF Smooth, Mixed, Of
    <3>4. CASE ~ Remnant(r, d)
      BY <3>4 DEF Smooth
    <3> QED BY <3>2, <3>3, <3>4
  <2> QED BY <1>1, <2>1, PlacesKnow DEF DeliverInv
<1>6. ASSUME NEW r \in Sockets, Registered(r)', NEW t \in owed'[owner'[r]]
      PROVE  Reached(r, t)' \/ Coming(r, t)'
  <2>1. Registered(r) /\ owner[r] \in Workers /\ owner'[r] = owner[r]
    BY <1>1, <1>6 DEF Registered, TypeOK
  <2>2. CASE owner[r] = w
    <3>1. session[w] = r /\ pending[r] \in Nat
      BY <2>1, <2>2 DEF Registered, TypeOK
    <3>2. pending'[r] > 0
      BY <1>1, <3>1
    <3> QED BY <3>2 DEF Coming
  <2>3. CASE owner[r] # w
    <3>1. t \in owed'[owner[r]] /\ t \in 1..last /\ room[t] \in Channels
      BY <1>1, <1>2, <1>6, <2>1 DEF TypeOK
    <3>2. PICK v \in Workers, d \in Channels : owner[r] = v /\ room[t] = d
      BY <2>1, <3>1
    <3>3. t \in Of(owed[v], d)'
      BY <1>1, <3>1, <3>2 DEF Of
    <3>4. t \in owed[v] /\ cursor'[v][d] = cursor[v][d] /\ (<<v, d>> \in mixed' <=> <<v, d>> \in mixed)
      BY <1>3, <2>3, <3>2, <3>3 DEF Mixed
    <3>5. /\ t \in owed[owner[r]] /\ cursor'[owner[r]][room[t]] = cursor[owner[r]][room[t]]
          /\ <<owner[r], room[t]>> \in mixed' <=> <<owner[r], room[t]>> \in mixed
      BY <3>2, <3>4
    <3>6. Reached(r, t) \/ Coming(r, t)
      BY <2>1, <3>5 DEF DeliverInv, ComingInv
    <3>7. Reached(r, t) => Reached(r, t)'
      BY <1>1, <2>1, <3>5 DEF Reached, Mixed
    <3>8. Coming(r, t) => Coming(r, t)'
      <4>1. pending'[r] = pending[r] \/ pending'[r] > 0
        <5>1. pending[r] \in Nat
          BY DEF TypeOK
        <5> QED BY <1>1, <5>1
      <4> QED BY <1>1, <4>1 DEF Coming
    <3> QED BY <3>6, <3>7, <3>8
  <2> QED BY <2>2, <2>3
<1> QED BY <1>5, <1>6 DEF DeliverInv, ComingInv

LEMMA DeliverInitial == Init => DeliverInv
<1> SUFFICES ASSUME Init PROVE DeliverInv
  OBVIOUS
<1>1. RestInv
  BY DEF Init, RestInv, Serving, Resting
<1>2. OwedInv /\ KnowInv /\ ComingInv
  BY DEF Init, OwedInv, KnowInv, Serving, ComingInv, Registered
<1> QED BY <1>1, <1>2 DEF DeliverInv

LEMMA DeliverStep ==
    ASSUME TypeOK, TypeOK', Presence, DeliverInv, [Next]_vars
    PROVE  DeliverInv'
<1>1. OwedInv' /\ RestInv' /\ OwedInv
  BY OwedStep, RestStep DEF DeliverInv
<1>2. Quiet => DeliverInv'
  BY <1>1, QuietStep
<1>3. CASE UNCHANGED vars
  BY <1>2, <1>3, StutterQuiet
<1>4. ASSUME NEW c \in Channels, NEW from \in Workers \cup {Server}, Post(c, from)
      PROVE  DeliverInv'
  BY <1>2, <1>4, PostQuiet
<1>5. ASSUME NEW c \in Channels, RemoveChannel(c) PROVE DeliverInv'
  BY <1>1, <1>2, <1>5, ChannelQuiet
<1>6. ASSUME NEW w \in Workers, Admin(w) PROVE DeliverInv'
  <2>1. ASSUME NEW c \in Channels, JoinNow(w, c) \/ JoinFromStart(w, c) PROVE DeliverInv'
    <3>1. 0 \in {0, last} /\ last \in {0, last}
      OBVIOUS
    <3>2. Join(w, c, last) \/ Join(w, c, 0)
      BY <2>1, Zenon DEF JoinNow, JoinFromStart
    <3> QED BY <1>1, <3>1, <3>2, JoinDelivers
  <2>2. ASSUME NEW c \in Channels, Leave(w, c) PROVE DeliverInv'
    BY <1>1, <1>2, <2>2, MembersQuiet
  <2>3. CASE Rotate(w) \/ AddWorker(w)
    BY <1>2, <2>3, KeysQuiet
  <2>4. CASE RemoveWorker(w) \/ Tell(w)
    BY <1>1, <1>2, <2>4, MembersQuiet
  <2> QED BY <1>6, <2>1, <2>2, <2>3, <2>4, Zenon DEF Admin
<1>7. ASSUME NEW s \in Sockets, Connection(s) PROVE DeliverInv'
  <2>1. CASE (\E w \in Workers : Arrive(s, w)) \/ Drop(s) \/ Notified(s)
    BY <1>2, <2>1, SocketQuiet
  <2>2. CASE Serve(s) \/ Register(s) \/ End(s)
    BY <1>1, <2>2, ConnectDelivers
  <2> QED BY <1>7, <2>1, <2>2, Zenon DEF Connection
<1>8. ASSUME NEW s \in Sockets, Look(s) \/ Send(s) PROVE DeliverInv'
  BY <1>1, <1>8, LoopDelivers
<1>9. ASSUME NEW s \in Sockets, NEW c \in Channels, NEW q \in Seqs, Ack(s, c, q)
      PROVE  DeliverInv'
  BY <1>1, <1>9, AckDelivers
<1>10. CASE Prune
  BY <1>1, <1>2, <1>10, ChannelQuiet
<1>11. CASE Restart
  BY <1>1, <1>11, RestartDelivers
<1> QED
  BY <1>3, <1>4, <1>5, <1>6, <1>7, <1>8, <1>9, <1>10, <1>11, Zenon DEF Next


(***************************************************************************)
(* What a worker was sent before its place went past it.                   *)
(***************************************************************************)

Excused(w, c) == <<w, c>> \in mixed \cup stray

\* The place of w is past t, a socket of its was sent t, or it was sent a later
\* row of the channel.
Behind(w, t) ==
    \/ t <= cursor[w][room[t]]
    \/ \E s \in Sockets : owner[s] = w /\ t \in frames[s]
    \/ \E q \in got[w] : room[q] = room[t] /\ t < q

\* All three take it that w was sent t since it joined.
GotInv ==
    \A w \in Workers : \A t \in owed[w] :
        Behind(w, t) => t \in got[w] \/ Excused(w, room[t])

\* Most steps move no place of a member, and send nothing.
LEMMA GotKept ==
    ASSUME GotInv, UNCHANGED <<room, got, mixed, stray>>,
           \A s \in Sockets :
              frames'[s] = {} \/ (frames'[s] = frames[s] /\ owner'[s] = owner[s]),
           \A w \in Workers : \A t \in owed'[w] :
              t \in owed[w] /\ cursor'[w][room[t]] = cursor[w][room[t]]
    PROVE  GotInv'
<1> SUFFICES ASSUME NEW w \in Workers, NEW t \in owed'[w], Behind(w, t)'
             PROVE  t \in got[w] \/ Excused(w, room[t])
  BY DEF GotInv, Excused
<1>1. t \in owed[w] /\ cursor'[w][room[t]] = cursor[w][room[t]]
  OBVIOUS
<1>2. Behind(w, t)
  BY <1>1 DEF Behind
<1> QED BY <1>1, <1>2 DEF GotInv

LEMMA QuietGot ==
    ASSUME TypeOK, TypeOK', RestInv, OwedInv', GotInv, Quiet, UNCHANGED <<last, room, got, stray>>
    PROVE  GotInv'
<1>1. ASSUME NEW s \in Sockets
      PROVE  frames'[s] = {} \/ (frames'[s] = frames[s] /\ owner'[s] = owner[s])
  BY DEF Quiet, RestInv
<1>2. ASSUME NEW w \in Workers, NEW t \in owed'[w]
      PROVE  t \in owed[w] /\ cursor'[w][room[t]] = cursor[w][room[t]]
  <2>1. t \in 1..last /\ last \in Nat /\ room[t] \in Channels
    BY DEF TypeOK
  <2>2. Member(w, room[t])'
    BY DEF OwedInv
  <2>3. cursor'[w][room[t]] = cursor[w][room[t]]
    <3>1. Member(w, room[t])' => cursor'[w][room[t]] = cursor[w][room[t]]
      BY <2>1 DEF Quiet
    <3> QED BY <2>2, <3>1
  <2>4. t \in owed[w]
    BY <2>1 DEF Quiet
  <2> QED BY <2>3, <2>4
<1> QED BY <1>1, <1>2, GotKept DEF Quiet

LEMMA PostGot ==
    ASSUME TypeOK, TypeOK', GotInv,
           NEW c \in Channels, NEW from \in Workers \cup {Server}, Post(c, from)
    PROVE  GotInv'
<1>1. /\ last' = last + 1 /\ room' = [room EXCEPT ![last + 1] = c] /\ last \in Nat
      /\ \A w \in Workers : owed'[w] \subseteq owed[w] \cup {last + 1}
      /\ UNCHANGED <<cursor, owner, frames, got, mixed, stray>>
  BY DEF Post, conns, delivery, TypeOK
<1>2. \A q \in 1..last : room'[q] = room[q] /\ room[q] \in Channels
  BY <1>1 DEF TypeOK, Seqs
<1>3. ASSUME NEW w \in Workers
      PROVE  /\ owed[w] \subseteq 1..last /\ got[w] \subseteq 1..last
             /\ \A s \in Sockets : frames[s] \subseteq 1..last
             /\ cursor[w] \in [Channels -> {NoCursor} \cup 0..last]
  BY DEF TypeOK
<1> SUFFICES ASSUME NEW w \in Workers, NEW t \in owed'[w], Behind(w, t)'
             PROVE  t \in got[w] \/ Excused(w, room'[t])
  BY <1>1 DEF GotInv, Excused
<1>4. CASE t \in owed[w]
  <2>1. room'[t] = room[t] /\ \A q \in got[w] : room'[q] = room[q]
    BY <1>2, <1>3, <1>4
  <2>2. Behind(w, t)
    BY <1>1, <2>1 DEF Behind
  <2> QED BY <1>4, <2>1, <2>2 DEF GotInv
<1>5. CASE t = last + 1
  <2>1. room'[t] \in Channels
    BY <1>1, <1>5 DEF TypeOK
  <2>2. cursor[w][room'[t]] \in {NoCursor} \cup 0..last
    BY <1>3, <2>1
  <2>3. ~ (t <= cursor[w][room'[t]])
    BY <1>1, <1>5, <2>2 DEF NoCursor
  <2>4. \A s \in Sockets : t \notin frames[s]
    BY <1>1, <1>3, <1>5
  <2>5. \A q \in got[w] : ~ (t < q)
    BY <1>1, <1>3, <1>5
  <2> QED BY <1>1, <2>3, <2>4, <2>5 DEF Behind
<1> QED BY <1>1, <1>4, <1>5

\* Where w joins it is owed nothing up to its new place, and what its sockets
\* were sent before is a remnant.
LEMMA JoinGot ==
    ASSUME TypeOK, TypeOK', OwedInv, GotInv,
           NEW w \in Workers, NEW c \in Channels, NEW from \in {0, last}, Join(w, c, from)
    PROVE  GotInv'
<1>1. /\ cursor' = [cursor EXCEPT ![w][c] = from]
      /\ owed' = [owed EXCEPT ![w] =
                   @ \cup {q \in log : room[q] = c /\ sender[q] # w /\ q > from}]
      /\ mixed' = IF \E s \in Sockets : owner[s] = w /\ Remnant(s, c)
                  THEN IF from = 0 THEN mixed \cup {<<w, c>>} ELSE mixed
                  ELSE mixed \ {<<w, c>>}
      /\ got' = [got EXCEPT ![w] = {q \in @ : room[q] # c}]
      /\ stray' = stray \ {<<w, c>>}
      /\ cursor[w][c] = NoCursor
      /\ UNCHANGED <<last, room, log, owner, frames>>
  BY DEF Join, Member, store, conns, delivery
<1>2. /\ cursor \in [Workers -> [Channels -> {NoCursor} \cup 0..last]] /\ last \in Nat
      /\ \A v \in Workers : owed[v] \subseteq 1..last /\ got[v] \subseteq 1..last
      /\ \A v \in Workers : owed'[v] \subseteq 1..last
      /\ \A t \in 1..last : room[t] \in Channels /\ t \in Nat
  BY <1>1 DEF TypeOK
<1> SUFFICES ASSUME NEW v \in Workers, NEW t \in owed'[v], Behind(v, t)', ~ Excused(v, room[t])'
             PROVE  t \in got'[v]
  BY <1>1 DEF GotInv, Excused
<1>3. t \in 1..last /\ room[t] \in Channels /\ t \in Nat
  BY <1>2
<1>4. CASE v = w /\ room[t] = c
  <2>1. t > from /\ cursor'[w][c] = from
    <3>1. t \notin owed[w]
      BY <1>1, <1>4 DEF OwedInv, Member
    <3>2. owed'[w] = owed[w] \cup {q \in log : room[q] = c /\ sender[q] # w /\ q > from}
      BY <1>1 DEF TypeOK
    <3> QED BY <1>1, <1>2, <1>4, <3>1, <3>2
  <2>2. from = 0
    BY <1>2, <1>3, <2>1
  <2>3. ~ (t <= cursor'[w][c])
    BY <1>2, <1>3, <2>1
  <2>4. <<w, c>> \notin mixed'
    BY <1>1, <1>4 DEF Excused
  <2>5. \A s \in Sockets : owner[s] = w => ~ Remnant(s, c)
    BY <1>1, <2>2, <2>4
  <2>6. \A s \in Sockets : owner[s] = w => t \notin frames[s]
    BY <1>4, <2>5 DEF Remnant
  <2>7. \A q \in got'[w] : room[q] # c
    BY <1>1 DEF TypeOK
  <2> QED BY <1>1, <1>4, <2>3, <2>6, <2>7 DEF Behind
<1>5. CASE v # w \/ room[t] # c
  <2>1. t \in owed[v] /\ cursor'[v][room[t]] = cursor[v][room[t]]
    <3>1. t \in owed[v]
      BY <1>1, <1>5 DEF TypeOK
    <3>2. cursor'[v][room[t]] = cursor[v][room[t]]
      BY <1>1, <1>2, <1>3, <1>5
    <3> QED BY <3>1, <3>2
  <2>2. \A q \in Seqs : room[q] = room[t] => (q \in got'[v] <=> q \in got[v])
    BY <1>1, <1>5 DEF TypeOK
  <2>3. got[v] \subseteq Seqs /\ got'[v] \subseteq got[v]
    BY <1>1, <1>2 DEF TypeOK, Seqs
  <2>4. Behind(v, t)
    BY <1>1, <2>1, <2>3 DEF Behind
  <2>5. ~ Excused(v, room[t])
    <3> DEFINE p == <<v, room[t]>>
    <3>1. p # <<w, c>>
      BY <1>5
    <3>2. p \notin mixed' /\ p \notin stray'
      BY <1>1 DEF Excused
    <3> HIDE DEF p
    <3>3. p \notin mixed /\ p \notin stray
      BY <1>1, <3>1, <3>2
    <3> QED BY <3>3 DEF Excused, p
  <2>6. t \in got[v]
    BY <2>1, <2>4, <2>5 DEF GotInv
  <2>7. t \in Seqs
    BY <2>3, <2>6
  <2> QED BY <2>2, <2>6, <2>7
<1> QED BY <1>4, <1>5

\* A row is sent after what is owed before it was.
LEMMA SendGot ==
    ASSUME TypeOK, KnowInv, GotInv, NEW s \in Sockets, Send(s)
    PROVE  GotInv'
<1> DEFINE w == owner[s]
           q == First(loop[s].rows)
<1>1. /\ w \in Workers /\ Serving(s) /\ loop[s].rows # {}
      /\ frames' = [frames EXCEPT ![s] = @ \cup {q}]
      /\ got' = [got EXCEPT ![w] = @ \cup {q}]
      /\ UNCHANGED <<room, cursor, owner, owed, mixed, stray>>
  BY DEF Send, Serving, TypeOK, store, conns
<1>2. q \in loop[s].rows /\ \A p \in loop[s].rows : q <= p
  <2>1. loop[s].rows \in SUBSET (1..last) /\ last \in Nat
    BY DEF TypeOK
  <2>2. loop[s].rows \in SUBSET Nat
    BY <2>1
  <2> QED BY <1>1, <2>2, FirstOf
<1>3. q \in 1..last /\ last \in Nat
  BY <1>2 DEF TypeOK
<1>4. RowAt(s, q)
  BY <1>1, <1>2 DEF KnowInv, Knows
<1> HIDE DEF q
<1>5. got'[w] = got[w] \cup {q} /\ \A v \in Workers \ {w} : got'[v] = got[v]
  BY <1>1 DEF TypeOK
<1>6. frames'[s] = frames[s] \cup {q} /\ \A r \in Sockets \ {s} : frames'[r] = frames[r]
  BY <1>1 DEF TypeOK
<1> SUFFICES ASSUME NEW v \in Workers, NEW t \in owed[v], Behind(v, t)', ~ Excused(v, room[t])
             PROVE  t \in got'[v]
  BY <1>1 DEF GotInv, Excused
<1>7. CASE Behind(v, t)
  <2>1. t \in got[v]
    BY <1>7 DEF GotInv
  <2> QED BY <1>5, <2>1
<1>8. CASE v # w
  <2>1. Behind(v, t)
    BY <1>1, <1>5, <1>6, <1>8 DEF Behind
  <2> QED BY <1>7, <2>1
<1>9. CASE v = w /\ t = q
  BY <1>5, <1>9
<1>10. CASE v = w /\ room[q] = room[t] /\ t < q
  <2>1. t \in Of(owed[w], room[q]) /\ ~ Mixed(w, room[q])
    BY <1>10 DEF Of, Mixed, Excused
  <2>2. t \in loop[s].rows \/ t \in frames[s] \/ t <= cursor[w][room[q]]
    BY <1>4, <1>10, <2>1 DEF RowAt
  <2>3. t \notin loop[s].rows
    <3>1. t \in Nat /\ q \in Nat
      BY <1>3 DEF TypeOK
    <3> QED BY <1>2, <1>10, <3>1
  <2>4. Behind(v, t)
    BY <1>10, <2>2, <2>3 DEF Behind
  <2> QED BY <1>7, <2>4
<1>11. CASE v = w /\ ~ Behind(v, t) /\ t # q
  <2>1. \E p \in got'[w] : room[p] = room[t] /\ t < p
    BY <1>1, <1>5, <1>6, <1>11 DEF Behind
  <2>2. room[q] = room[t] /\ t < q
    BY <1>5, <1>11, <2>1 DEF Behind
  <2> QED BY <1>10, <1>11, <2>2
<1> QED BY <1>7, <1>8, <1>9, <1>11

\* An acknowledgement takes a place past nothing but what was sent, or before
\* something that was; else it is a stray.
LEMMA AckGot ==
    ASSUME TypeOK, TypeOK', GotInv,
           NEW s \in Sockets, NEW c \in Channels, NEW q \in Seqs, Ack(s, c, q)
    PROVE  GotInv'
<1> DEFINE w == owner[s]
<1>1. w \in Workers /\ UNCHANGED <<room, owner, frames, got, owed, mixed>>
  BY DEF Ack, Serving, TypeOK, store, conns, delivery
<1>2. PICK top \in log \cup {0} :
         LET to == IF q < top THEN q ELSE top
         IN  cursor' = [cursor EXCEPT ![w][c] = Larger(@, to)] /\ Counted(w, c, to)
  BY Zenon DEF Ack
<1> DEFINE to == IF q < top THEN q ELSE top
<1>3. to \in Nat
  <2>1. StoreType
    BY FourTypes
  <2>2. top \in Nat /\ q \in Nat
    BY <1>2, <2>1 DEF StoreType, Seqs
  <2> QED BY <2>2
<1>4. cursor' = [cursor EXCEPT ![w][c] = Larger(@, to)] /\ Counted(w, c, to)
  BY <1>2
<1> HIDE DEF w, to
<1>5. /\ cursor \in [Workers -> [Channels -> {NoCursor} \cup 0..last]] /\ last \in Nat
      /\ \A v \in Workers : owed[v] \subseteq 1..last /\ got[v] \subseteq 1..last
      /\ \A t \in 1..last : room[t] \in Channels /\ t \in Nat
  <2>1. StoreType /\ PlaceType
    BY FourTypes
  <2> QED BY <2>1 DEF StoreType, PlaceType
<1>6. cursor[w][c] \in Int
  <2>1. cursor[w] \in [Channels -> {NoCursor} \cup 0..last]
    BY <1>1, <1>5
  <2>2. cursor[w][c] \in {NoCursor} \cup 0..last
    BY <2>1
  <2> QED BY <2>2 DEF NoCursor
<1>7. stray \subseteq stray'
  BY <1>4 DEF Counted
<1> SUFFICES ASSUME NEW v \in Workers, NEW t \in owed[v], Behind(v, t)', ~ Excused(v, room[t])'
             PROVE  t \in got[v]
  BY <1>1 DEF GotInv, Excused
<1>8. ~ Excused(v, room[t]) /\ t \in Nat /\ room[t] \in Channels
  BY <1>1, <1>5, <1>7 DEF Excused
<1>9. CASE Behind(v, t)
  BY <1>8, <1>9 DEF GotInv
<1>10. CASE ~ Behind(v, t)
  <2>1. t <= cursor'[v][room[t]] /\ ~ (t <= cursor[v][room[t]])
    BY <1>1, <1>10 DEF Behind
  <2>2. v = w /\ room[t] = c
    BY <1>4, <1>5, <1>8, <2>1
  <2>3. cursor'[w][c] = Larger(cursor[w][c], to)
    BY <1>1, <1>4, <1>5
  <2>4. cursor[w][c] < to /\ t <= to
    BY <1>3, <1>6, <1>8, <2>1, <2>2, <2>3 DEF Larger
  <2>5. ~ Beyond(w, c, to)
    BY <1>1, <1>4, <2>2 DEF Counted, Excused
  <2>6. PICK r \in got[w] : room[r] = c /\ ~ (r < to)
    BY <2>4, <2>5 DEF Beyond
  <2>7. r \in Nat
    BY <1>1, <1>5
  <2>8. t = r \/ t < r
    BY <1>3, <1>8, <2>4, <2>6, <2>7
  <2> QED BY <1>10, <2>2, <2>6, <2>8 DEF Behind
<1> QED BY <1>9, <1>10

LEMMA SocketGot ==
    ASSUME TypeOK, RestInv, GotInv, NEW s \in Sockets
    PROVE  Serve(s) \/ Register(s) \/ End(s) \/ Look(s) => GotInv'
<1>1. ASSUME Serve(s) \/ Register(s) \/ Look(s) PROVE GotInv'
  <2>1. UNCHANGED <<room, got, mixed, stray, owed, cursor, owner, frames>>
    BY <1>1 DEF Serve, Register, Enter, Look, store, history, delivery, conns
  <2> QED BY <2>1, GotKept
<1>2. ASSUME End(s) PROVE GotInv'
  <2>1. /\ UNCHANGED <<room, got, mixed, stray, owed, cursor, owner>>
        /\ frames' = [frames EXCEPT ![s] = {}]
    BY <1>2 DEF End, Gone, store, history
  <2>2. \A r \in Sockets : frames'[r] = {} \/ frames'[r] = frames[r]
    BY <2>1 DEF TypeOK
  <2> QED BY <2>1, <2>2, GotKept
<1> QED BY <1>1, <1>2

LEMMA GotStep ==
    ASSUME TypeOK, TypeOK', DeliverInv, OwedInv', GotInv, [Next]_vars
    PROVE  GotInv'
<1>0. RestInv /\ OwedInv /\ KnowInv
  BY DEF DeliverInv
<1>1. Quiet /\ UNCHANGED <<last, room, got, stray>> => GotInv'
  BY <1>0, QuietGot
<1>2. CASE UNCHANGED vars
  BY <1>1, <1>2, StutterQuiet DEF vars, store, history
<1>3. ASSUME NEW c \in Channels, NEW from \in Workers \cup {Server}, Post(c, from)
      PROVE  GotInv'
  BY <1>3, PostGot
<1>4. ASSUME Prune \/ \E c \in Channels : RemoveChannel(c) PROVE GotInv'
  <2>1. Quiet
    BY <1>0, <1>4, ChannelQuiet
  <2>2. UNCHANGED <<last, room, got, stray>>
    BY <1>4 DEF Prune, RemoveChannel
  <2> QED BY <1>1, <2>1, <2>2
<1>5. ASSUME NEW w \in Workers, Admin(w) PROVE GotInv'
  <2>1. ASSUME NEW c \in Channels, JoinNow(w, c) \/ JoinFromStart(w, c) PROVE GotInv'
    <3>1. 0 \in {0, last} /\ last \in {0, last}
      OBVIOUS
    <3>2. Join(w, c, last) \/ Join(w, c, 0)
      BY <2>1, Zenon DEF JoinNow, JoinFromStart
    <3> QED BY <1>0, <3>1, <3>2, JoinGot
  <2>2. ASSUME NEW c \in Channels, Leave(w, c) PROVE GotInv'
    <3>1. UNCHANGED <<last, room, got, stray>>
      BY <2>2 DEF Leave, store
    <3> QED BY <1>0, <1>1, <2>2, <3>1, MembersQuiet
  <2>3. CASE Rotate(w) \/ AddWorker(w)
    <3>1. UNCHANGED <<last, room, got, stray>>
      BY <2>3 DEF Rotate, AddWorker, store, history
    <3> QED BY <1>1, <2>3, <3>1, KeysQuiet
  <2>4. CASE RemoveWorker(w) \/ Tell(w)
    <3>1. UNCHANGED <<last, room, got, stray>>
      BY <2>4 DEF RemoveWorker, Tell, store, history
    <3> QED BY <1>0, <1>1, <2>4, <3>1, MembersQuiet
  <2> QED BY <1>5, <2>1, <2>2, <2>3, <2>4, Zenon DEF Admin
<1>6. ASSUME NEW s \in Sockets, Connection(s) PROVE GotInv'
  <2>1. CASE (\E w \in Workers : Arrive(s, w)) \/ Drop(s) \/ Notified(s)
    <3>1. UNCHANGED <<last, room, got, stray>>
      BY <2>1 DEF Arrive, Drop, Notified, store, history
    <3> QED BY <1>1, <2>1, <3>1, SocketQuiet
  <2>2. CASE Serve(s) \/ Register(s) \/ End(s)
    BY <1>0, <2>2, SocketGot
  <2> QED BY <1>6, <2>1, <2>2, Zenon DEF Connection
<1>7. ASSUME NEW s \in Sockets, Look(s) PROVE GotInv'
  BY <1>0, <1>7, SocketGot
<1>8. ASSUME NEW s \in Sockets, Send(s) PROVE GotInv'
  BY <1>0, <1>8, SendGot
<1>9. ASSUME NEW s \in Sockets, NEW c \in Channels, NEW q \in Seqs, Ack(s, c, q) PROVE GotInv'
  BY <1>9, AckGot
<1>10. CASE Restart
  <2>1. UNCHANGED <<room, got, mixed, stray, owed, cursor>> /\ \A s \in Sockets : frames'[s] = {}
    BY <1>10 DEF Restart, store, history
  <2> QED BY <2>1, GotKept
<1> QED BY <1>2, <1>3, <1>4, <1>5, <1>6, <1>7, <1>8, <1>9, <1>10, Zenon DEF Next

(***************************************************************************)
(* The theorems.                                                           *)
(***************************************************************************)

LEMMA DeliverAlways == Spec => [](TypeOK /\ PresenceInv /\ DeliverInv)
<1>1. Init => TypeOK /\ PresenceInv /\ DeliverInv
  BY HubTypeInit, PresenceInitial, DeliverInitial
<1>2. TypeOK /\ PresenceInv /\ DeliverInv /\ [Next]_vars => TypeOK' /\ PresenceInv' /\ DeliverInv'
  <2>1. TypeOK /\ PresenceInv /\ [Next]_vars => TypeOK' /\ PresenceInv'
    BY HubTypeStep, PresenceStep
  <2>2. PresenceInv => Presence
    BY DEF PresenceInv
  <2> QED BY <2>1, <2>2, DeliverStep
<1> QED BY <1>1, <1>2, PTL DEF Spec

\* In order per channel and once: whatever the interleaving of publishes,
\* acknowledgements, joins and departures with a read and the sending of its
\* rows, what a delivery is about to send is beyond what its socket was sent of
\* the channel.
THEOREM InOrderAlways == Spec => []InOrder
<1>1. TypeOK /\ DeliverInv => InOrder
  <2> SUFFICES ASSUME TypeOK, DeliverInv, NEW s \in Sockets, NEW q \in loop[s].rows,
                      NEW r \in frames[s], room[r] = room[q], <<owner[s], room[q]>> \notin mixed
               PROVE  r < q
    BY DEF InOrder
  <2>1. Serving(s)
    BY DEF DeliverInv, RestInv
  <2>2. RowAt(s, q)
    BY <2>1 DEF DeliverInv, KnowInv, Knows
  <2>3. r \in Of(frames[s], room[q]) /\ ~ Mixed(owner[s], room[q])
    BY DEF Of, Mixed
  <2> QED BY <2>2, <2>3 DEF RowAt
<1> QED BY <1>1, DeliverAlways, PTL

\* Whatever a worker acknowledges of what it was sent, on whatever sockets and
\* however late, and however often it leaves, joins or reconnects, its cursor
\* passes nothing it is owed and was not sent since it joined.  The two
\* exceptions are a stray acknowledgement and joining from the start over a
\* remnant, in that channel only.
THEOREM MissedOnlyStrayAlways == Spec => []MissedOnlyStray
<1>1. Init => GotInv
  BY DEF Init, GotInv
<1>2. TypeOK /\ PresenceInv /\ DeliverInv /\ GotInv /\ [Next]_vars /\ TypeOK' /\ DeliverInv' => GotInv'
  BY GotStep DEF DeliverInv
<1>3. TypeOK /\ GotInv => MissedOnlyStray
  <2> SUFFICES ASSUME TypeOK, GotInv, NEW w \in Workers, NEW q \in Seqs, Missed(w, q)
               PROVE  <<w, room[q]>> \in mixed \cup stray
    BY DEF MissedOnlyStray
  <2>1. q \in owed[w] /\ q \notin got[w] /\ Behind(w, q)
    BY DEF Missed, Behind
  <2> QED BY <2>1 DEF GotInv, Excused
<1> QED BY <1>1, <1>2, <1>3, DeliverAlways, PTL DEF Spec

\* No publish, join or connection in the middle of a read is forgotten: a
\* registered socket whose loop sleeps, with nothing about to wake it, was sent
\* everything that its worker is owed and did not acknowledge.
THEOREM NothingForgottenAlways == Spec => []NothingForgotten
<1>1. TypeOK /\ PresenceInv /\ DeliverInv => NothingForgotten
  <2> SUFFICES ASSUME TypeOK, PresenceInv, DeliverInv, NEW s \in Sockets,
                      Registered(s), Asleep(s), NEW q \in owed[owner[s]]
               PROVE  \/ q \in frames[s] \/ q <= cursor[owner[s]][room[q]]
                      \/ <<owner[s], room[q]>> \in mixed
    BY DEF NothingForgotten
  <2>1. loop[s] = Resting("waiting") /\ s \notin wake /\ pending[s] = 0
    BY DEF Asleep, DeliverInv, RestInv
  <2>2. ~ Coming(s, q)
    BY <2>1 DEF Coming, Resting
  <2>3. Reached(s, q)
    BY <2>2 DEF DeliverInv, ComingInv
  <2> QED BY <2>3 DEF Reached, Mixed
<1> QED BY <1>1, DeliverAlways, PTL
=============================================================================
