---------------------------- MODULE EnrolProofs ----------------------------
(* Theorems about Enrol: types, workers made, names waiting, refusals. *)
EXTENDS Enrol, FiniteSetTheorems, WellFoundedInduction, TLAPS

USE EnrolAssumption

\* A set of requests that is not empty has a first one.
LEMMA FirstOf ==
    ASSUME NEW S \in SUBSET Refs, S # {}
    PROVE  (CHOOSE r \in S : \A q \in S : r <= q) \in S
<1> DEFINE R == {p \in Nat \X Nat : p[1] < p[2]}
<1>1. IsWellFoundedOn(R, Nat)
  BY NatLessThanWellFounded, Zenon DEF OpToRel
<1>2. S \in SUBSET Nat
  BY DEF Refs
<1>3. PICK q \in S : \A r \in S : <<r, q>> \notin R
  <2> HIDE DEF R
  <2> QED BY <1>1, <1>2, WFMin
<1>4. \A r \in S : q <= r
  <2> SUFFICES ASSUME NEW r \in S, ~ (q <= r) PROVE FALSE
    OBVIOUS
  <2>1. q \in Nat /\ r \in Nat /\ r < q
    BY <1>2
  <2>2. <<r, q>> \in R
    BY <2>1
  <2> HIDE DEF R
  <2> QED BY <1>3, <2>2
<1> QED BY <1>4, Zenon

(***************************************************************************)
(* Types.  An approval that began leaves room for its id.                  *)
(***************************************************************************)

Stages == InFlight \cup {"none", "done", "refused"}
Approvals == [ref : 0..MaxRef, id : 0..MaxId]

TableType ==
    /\ rows \subseteq Refs /\ refused \subseteq rows
    /\ aged \subseteq rows /\ lapsed \subseteq refused
    /\ asker \in [Refs -> Names \cup {""}] /\ granted \in [Refs -> 0..MaxId]

PeopleType ==
    /\ workers \subseteq 1..issued /\ issued \in 0..MaxId
    /\ approval \in [Admins -> Approvals]

HistType ==
    /\ overlapped \cup no \subseteq Names
    /\ unrefused \subseteq Refs /\ toldNo \subseteq Bridges
    /\ made \cup twice \cup raced \subseteq Refs

LEMMA Types ==
    TypeOK <=> /\ TableType /\ PeopleType /\ HistType
               /\ call \in [Refs -> Stages] /\ bridge \in [Bridges -> BridgeType]
               /\ acts \in Histories
BY Zenon DEF TypeOK, TableType, PeopleType, HistType, Stages, Approvals

LEMMA TypesNext ==
    TypeOK' <=> /\ TableType' /\ PeopleType' /\ HistType'
                /\ call' \in [Refs -> Stages] /\ bridge' \in [Bridges -> BridgeType]
                /\ acts' \in Histories
BY Zenon DEF TypeOK, TableType, PeopleType, HistType, Stages, Approvals

\* Approvals whose id is still to be issued.
Starting == {a \in Admins : approval[a].ref # 0 /\ approval[a].id = 0}
Room == issued + Cardinality(Starting) <= MaxId

\* What waits or is being asked has the name of a bridge.
Named == \A r \in Refs : (r \in rows \/ call[r] # "none") => asker[r] \in Names

Sound == TypeOK /\ Room /\ Named

LEMMA ActType == \A what : Act(what) => acts' \in Histories
BY DEF Act

LEMMA SomeAdmins ==
    ASSUME NEW S \in SUBSET Admins
    PROVE  IsFiniteSet(S) /\ Cardinality(S) \in Nat
BY FS_Subset, FS_CardinalityType

LEMMA SameRoom ==
    ASSUME Room, UNCHANGED <<issued, approval>>
    PROVE  Room'
BY DEF Room, Starting

LEMMA SameNamed ==
    ASSUME Named, UNCHANGED <<rows, asker, call>>
    PROVE  Named'
BY DEF Named

\* Of the bridge's nine fields, those that a step may change.
LEMMA IdleType == Idle \in BridgeType
<1>1. 0 \in 0..MaxId /\ 0 \in 0..MaxRef
  OBVIOUS
<1> QED BY <1>1 DEF Idle, BridgeType

LEMMA DownType ==
    ASSUME NEW p \in BridgeType
    PROVE  Restarted(p) \in BridgeType /\ Down(p) \in BridgeType
<1>1. /\ p.savedId \in 0..MaxId /\ p.savedTicket \in 0..MaxRef
      /\ 0 \in 0..MaxId /\ 0 \in 0..MaxRef
  BY DEF BridgeType
<1>2. Restarted(p) \in BridgeType
  BY <1>1, IdleType DEF Restarted, Idle, BridgeType
<1> QED BY <1>2 DEF Down, BridgeType

LEMMA AfreshType ==
    ASSUME NEW p \in BridgeType
    PROVE  AskAfresh(p) \in BridgeType
<1>1. 0 \in 0..MaxRef
  OBVIOUS
<1> QED BY <1>1 DEF AskAfresh, BridgeType

\* Rows are left out, and nothing else of the table changes.
LEMMA KeepType ==
    ASSUME TableType, NEW S \in SUBSET rows, Keep(S)
    PROVE  TableType'
<1>1. 0 \in 0..MaxId
  OBVIOUS
<1> QED BY <1>1 DEF TableType, Keep

LEMMA KeepNamed ==
    ASSUME Named, NEW S \in SUBSET rows, Keep(S),
           \A r \in Refs : call'[r] # "none" => call[r] # "none"
    PROVE  Named'
BY DEF Named, Keep

\* Only the bridge b changes.
LEMMA OneBridge ==
    ASSUME TypeOK, NEW b \in Bridges, NEW p \in BridgeType,
           bridge' = [bridge EXCEPT ![b] = p]
    PROVE  bridge' \in [Bridges -> BridgeType]
BY Types

LEMMA ToSound ==
    ASSUME Sound, NEW b \in Bridges, NEW p \in BridgeType, To(b, p)
    PROVE  Sound'
<1>1. bridge' \in [Bridges -> BridgeType]
  BY OneBridge DEF Sound, To
<1>2. TableType' /\ PeopleType' /\ HistType' /\ call' \in [Refs -> Stages] /\ acts' \in Histories
  BY Types DEF Sound, To, table, people, hist, yes, TableType, PeopleType, HistType
<1>3. Room' /\ Named'
  BY SameRoom, SameNamed DEF Sound, To, table, people
<1> QED BY <1>1, <1>2, <1>3, TypesNext DEF Sound

(***************************************************************************)
(* Each step keeps the types.                                              *)
(***************************************************************************)

LEMMA BridgeSound ==
    ASSUME Sound, NEW b \in Bridges, Step(b)
    PROVE  Sound'
<1> DEFINE p == bridge[b]
<1>t. /\ TableType /\ PeopleType /\ HistType /\ call \in [Refs -> Stages]
      /\ bridge \in [Bridges -> BridgeType] /\ acts \in Histories /\ TypeOK /\ Room /\ Named
  BY Types DEF Sound
<1>p. p \in BridgeType /\ p.ticket \in 0..MaxRef /\ p.asked \in 0..MaxRef /\ p.answer \in 0..MaxId
  BY <1>t DEF BridgeType
<1>z. 0 \in 0..MaxRef /\ 0 \in 0..MaxId
  OBVIOUS
<1>1. CASE Poll(b)
  <2>1. [p EXCEPT !.at = "enrolling"] \in BridgeType
    BY <1>p DEF BridgeType
  <2> QED BY <1>1, <2>1, ToSound DEF Poll
<1>2. CASE Ask(b)
  <2> DEFINE t == p.ticket
             q == [p EXCEPT !.at = "reading", !.found = t \in rows,
                      !.answer = IF t \in rows THEN granted[t] ELSE 0, !.refusal = t \in refused]
  <2>1. (IF t \in rows THEN granted[t] ELSE 0) \in 0..MaxId
    BY <1>t, <1>z DEF TableType
  <2>2. q \in BridgeType
    <3> DEFINE w == IF t \in rows THEN granted[t] ELSE 0
               i == t \in rows
               j == t \in refused
    <3>1. w \in 0..MaxId /\ i \in BOOLEAN /\ j \in BOOLEAN
      BY <2>1
    <3> HIDE DEF w, i, j
    <3>2. [p EXCEPT !.at = "reading", !.found = i, !.answer = w, !.refusal = j] \in BridgeType
      BY <1>p, <3>1 DEF BridgeType
    <3> QED BY <3>2, Zenon DEF w, i, j
  <2>3. To(b, q)
    BY <1>2, Zenon DEF Ask
  <2> HIDE DEF q
  <2> QED BY <2>2, <2>3, ToSound
<1>3. CASE AnswerGone(b)
  <2> DEFINE S == IF Dead(p) THEN rows \ {p.ticket} ELSE rows
  <2>1. S \in SUBSET rows /\ Keep(S)
    BY <1>3, Zenon DEF AnswerGone
  <2>2. bridge' = [bridge EXCEPT ![b] = AskAfresh(p)] /\ UNCHANGED <<people, call, acts, hist>>
    BY <1>3 DEF AnswerGone
  <2> HIDE DEF S
  <2>3. TableType' /\ Named'
    BY <1>t, <2>1, <2>2, KeepType, KeepNamed
  <2>4. bridge' \in [Bridges -> BridgeType]
    BY <1>t, <1>p, <2>2, AfreshType, OneBridge
  <2>5. PeopleType' /\ HistType' /\ Room'
    BY <1>t, <2>2, SameRoom DEF people, hist, yes, PeopleType, HistType
  <2> QED BY <1>t, <2>2, <2>3, <2>4, <2>5, TypesNext DEF Sound
<1>4. CASE AnswerPending(b)
  <2>1. [p EXCEPT !.at = "polling"] \in BridgeType
    BY <1>p DEF BridgeType
  <2> QED BY <1>4, <2>1, ToSound DEF AnswerPending
<1>5. CASE Collect(b)
  <2>1. [Idle EXCEPT !.id = p.answer, !.savedId = p.answer] \in BridgeType
    BY <1>p, IdleType DEF BridgeType
  <2> QED BY <1>5, <2>1, ToSound DEF Collect
<1>6. CASE Told(b)
  <2>1. bridge' = [bridge EXCEPT ![b] = Down(p)] /\ toldNo' = toldNo \cup {b}
        /\ call' = [r \in Refs |-> IF r = p.asked THEN "none" ELSE call[r]]
        /\ UNCHANGED <<table, people, acts, overlapped, no, unrefused, yes>>
    BY <1>6 DEF Told
  <2>2. bridge' \in [Bridges -> BridgeType]
    BY <1>t, <1>p, <2>1, DownType, OneBridge
  <2>3. call' \in [Refs -> Stages]
    BY <1>t, <2>1 DEF Stages
  <2>4. TableType' /\ PeopleType' /\ HistType' /\ Room'
    BY <1>t, <2>1, SameRoom DEF table, people, yes, TableType, PeopleType, HistType
  <2>5. Named'
    BY <1>t, <2>1 DEF table, Named
  <2> QED BY <1>t, <2>1, <2>2, <2>3, <2>4, <2>5, TypesNext DEF Sound
<1>7. CASE Begin(b)
  <2> DEFINE r == CHOOSE r \in Free : \A q \in Free : r <= q
  <2>1. r \in Free /\ r \in Refs
    <3>1. Free \in SUBSET Refs /\ Free # {}
      BY <1>7 DEF Begin, Free
    <3> QED BY <3>1, FirstOf
  <2>2. /\ call' = [call EXCEPT ![r] = "checking"]
        /\ asker' = [asker EXCEPT ![r] = Name[b]]
        /\ bridge' = [bridge EXCEPT ![b].at = "posting", ![b].asked = r]
        /\ unrefused' = IF Name[b] \in no THEN unrefused \ {r} ELSE unrefused \cup {r}
        /\ overlapped' = IF \E q \in Refs : call[q] \in InFlight /\ asker[q] = Name[b]
                         THEN overlapped \cup {Name[b]} ELSE overlapped
        /\ made' = made \ {r} /\ twice' = twice \ {r} /\ raced' = raced \ {r}
        /\ UNCHANGED <<rows, granted, refused, aged, lapsed, people, acts, no, toldNo>>
    BY <1>7, Zenon DEF Begin
  <2> HIDE DEF r
  <2>3. call' \in [Refs -> Stages]
    BY <1>t, <2>2 DEF Stages, InFlight
  <2>4. TableType'
    BY <1>t, <2>2 DEF TableType
  <2>5. bridge' \in [Bridges -> BridgeType]
    <3>1. r \in 0..MaxRef
      BY <2>1 DEF Refs
    <3>2. [p EXCEPT !.at = "posting", !.asked = r] \in BridgeType
      BY <1>p, <3>1 DEF BridgeType
    <3>3. bridge' = [bridge EXCEPT ![b] = [p EXCEPT !.at = "posting", !.asked = r]]
      BY <2>2
    <3> HIDE DEF p
    <3> QED BY <1>t, <3>2, <3>3, OneBridge
  <2>6. HistType'
    BY <1>t, <2>1, <2>2 DEF HistType
  <2>7. PeopleType' /\ Room'
    BY <1>t, <2>2, SameRoom DEF people, PeopleType
  <2>8. Named'
    BY <1>t, <2>1, <2>2 DEF Named, TableType
  <2> QED BY <1>t, <2>2, <2>3, <2>4, <2>5, <2>6, <2>7, <2>8, TypesNext DEF Sound
<1>8. CASE Reply(b)
  <2> DEFINE r == p.asked
  <2>1. /\ call[r] = "done" /\ call' = [call EXCEPT ![r] = "none"]
        /\ bridge' = [bridge EXCEPT ![b] = [@ EXCEPT
              !.at = "polling", !.asked = 0, !.ticket = r, !.savedTicket = r]]
        /\ UNCHANGED <<table, people, acts, hist>>
    BY <1>8, Zenon DEF Reply
  <2>2. r \in 0..MaxRef
    BY <1>p
  <2> HIDE DEF r
  <2>3. [p EXCEPT !.at = "polling", !.asked = 0, !.ticket = r, !.savedTicket = r] \in BridgeType
    BY <1>p, <1>z, <2>2 DEF BridgeType
  <2>4. bridge' \in [Bridges -> BridgeType]
    BY <1>t, <2>1, <2>3, OneBridge
  <2>5. call' \in [Refs -> Stages]
    BY <1>t, <2>1 DEF Stages
  <2>6. TableType' /\ PeopleType' /\ HistType' /\ Room'
    BY <1>t, <2>1, SameRoom DEF table, people, hist, yes, TableType, PeopleType, HistType
  <2>7. Named'
    BY <1>t, <2>1 DEF table, Named
  <2> QED BY <1>t, <2>1, <2>4, <2>5, <2>6, <2>7, TypesNext DEF Sound
<1>9. CASE Unanswered(b)
  BY <1>9, <1>p, DownType, ToSound DEF Unanswered
<1>10. CASE Start(b)
  BY <1>10, <1>p, DownType, ToSound DEF Start
<1> QED BY <1>1, <1>2, <1>3, <1>4, <1>5, <1>6, <1>7, <1>8, <1>9, <1>10 DEF Step

LEMMA ServeSound ==
    ASSUME Sound, NEW r \in Refs, Serve(r)
    PROVE  Sound'
<1>t. /\ TableType /\ PeopleType /\ HistType /\ call \in [Refs -> Stages]
      /\ bridge \in [Bridges -> BridgeType] /\ acts \in Histories /\ Room /\ Named
  BY Types DEF Sound
<1>1. CASE Check(r)
  <2>1. call[r] # "none" /\ call' \in [Refs -> Stages]
    BY <1>1, <1>t DEF Check, Goes, Stages, InFlight
  <2>2. TableType' /\ PeopleType' /\ HistType' /\ Room'
    BY <1>1, <1>t, SameRoom DEF Check, table, people, hist, yes, TableType, PeopleType, HistType
  <2>3. Named'
    BY <1>1, <1>t, <2>1 DEF Check, Goes, table, Named
  <2> QED BY <1>1, <1>t, <2>1, <2>2, <2>3, TypesNext DEF Sound, Check
<1>2. CASE Clear(r)
  <2>1. call[r] = "clearing" /\ call' = [call EXCEPT ![r] = "inserting"] /\ Keep(rows \ Cleared(r))
    BY <1>2 DEF Clear, Goes
  <2>2. call' \in [Refs -> Stages]
    BY <2>1, <1>t DEF Stages, InFlight
  <2>3. TableType'
    BY <2>1, <1>t, KeepType
  <2>4. Named'
    BY <2>1, <1>t, KeepNamed
  <2>5. PeopleType' /\ HistType' /\ Room'
    BY <1>2, <1>t, SameRoom DEF Clear, people, hist, yes, PeopleType, HistType
  <2> QED BY <1>2, <1>t, <2>2, <2>3, <2>4, <2>5, TypesNext DEF Sound, Clear
<1>3. CASE Insert(r)
  <2>1. call[r] = "inserting" /\ call' \in [Refs -> Stages]
    BY <1>3, <1>t DEF Insert, Goes, Stages, InFlight
  <2>2. TableType' /\ PeopleType' /\ HistType' /\ Room'
    BY <1>3, <1>t, SameRoom DEF Insert, people, yes, TableType, PeopleType, HistType
  <2>3. Named'
    BY <1>3, <1>t, <2>1 DEF Insert, Goes, Named
  <2> QED BY <1>3, <1>t, <2>1, <2>2, <2>3, TypesNext DEF Sound, Insert
<1>4. CASE Expire(r)
  <2>1. /\ call[r] = "expiring" /\ call' = [call EXCEPT ![r] = "done"]
        /\ Keep({q \in rows : granted[q] = 0 \/ q \notin aged})
    BY <1>4 DEF Expire, Goes
  <2>2. call' \in [Refs -> Stages]
    BY <2>1, <1>t DEF Stages, InFlight
  <2>3. TableType'
    BY <2>1, <1>t, KeepType
  <2>4. Named'
    BY <2>1, <1>t, KeepNamed
  <2>5. PeopleType' /\ HistType' /\ Room'
    BY <1>4, <1>t, SameRoom DEF Expire, people, hist, yes, PeopleType, HistType
  <2> QED BY <1>4, <1>t, <2>2, <2>3, <2>4, <2>5, TypesNext DEF Sound, Expire
<1>5. CASE Dropped(r)
  <2>1. call' \in [Refs -> Stages]
    BY <1>5, <1>t DEF Dropped, Stages
  <2>2. TableType' /\ PeopleType' /\ HistType' /\ Room'
    BY <1>5, <1>t, SameRoom DEF Dropped, table, people, hist, yes, TableType, PeopleType, HistType
  <2>3. Named'
    BY <1>5, <1>t DEF Dropped, table, Named
  <2> QED BY <1>5, <1>t, <2>1, <2>2, <2>3, TypesNext DEF Sound, Dropped
<1> QED BY <1>1, <1>2, <1>3, <1>4, <1>5 DEF Serve

\* An approval in its first half leaves room for one id more.
LEMMA RoomLeft ==
    ASSUME PeopleType, Room, NEW a \in Starting
    PROVE  issued + 1 \in 1..MaxId /\ Cardinality(Starting \ {a}) = Cardinality(Starting) - 1
<1>1. Starting \in SUBSET Admins
  BY DEF Starting
<1>2. IsFiniteSet(Starting) /\ Cardinality(Starting) \in Nat
  BY <1>1, SomeAdmins
<1>3. Starting # {}
  OBVIOUS
<1>4. Cardinality(Starting) # 0
  BY <1>2, <1>3, FS_EmptySet
<1>5. Cardinality(Starting \ {a}) = Cardinality(Starting) - 1
  BY <1>2, FS_RemoveElement
<1> QED BY <1>2, <1>4, <1>5 DEF Room, PeopleType

LEMMA ConsoleSound ==
    ASSUME Sound, Console
    PROVE  Sound'
<1>t. /\ TableType /\ PeopleType /\ HistType /\ call \in [Refs -> Stages]
      /\ bridge \in [Bridges -> BridgeType] /\ acts \in Histories /\ Room /\ Named
  BY Types DEF Sound
<1>s. Starting \in SUBSET Admins /\ IsFiniteSet(Starting) /\ Cardinality(Starting) \in Nat
  BY SomeAdmins DEF Starting
<1>1. ASSUME NEW a \in Admins, NEW r \in Refs, Approve(a, r) PROVE Sound'
  <2>1. /\ approval[a] = NoApproval /\ approval' = [approval EXCEPT ![a].ref = r]
        /\ issued + Cardinality(Starting) < MaxId
        /\ raced' \subseteq raced \cup {r}
        /\ UNCHANGED <<table, workers, issued, call, bridge, acts,
                       overlapped, no, unrefused, toldNo, made, twice>>
    BY <1>1 DEF Approve, IdLeft, Starting
  <2>2. PeopleType'
    <3>1. r \in 0..MaxRef /\ approval[a] \in Approvals
      BY <1>t DEF PeopleType, Refs
    <3>2. [approval[a] EXCEPT !.ref = r] \in Approvals
      BY <3>1 DEF Approvals
    <3>3. approval' = [approval EXCEPT ![a] = [approval[a] EXCEPT !.ref = r]]
      BY <2>1
    <3>4. approval' \in [Admins -> Approvals]
      BY <1>t, <3>2, <3>3 DEF PeopleType
    <3> QED BY <1>t, <2>1, <3>4 DEF PeopleType
  <2>3. Starting' = Starting \cup {a} /\ a \notin Starting
    BY <1>t, <2>1 DEF Starting, PeopleType, Approvals, NoApproval, Refs
  <2>4. Cardinality(Starting') = Cardinality(Starting) + 1
    BY <1>s, <2>3, FS_AddElement
  <2>5. Room'
    BY <1>t, <1>s, <2>1, <2>4 DEF Room, PeopleType
  <2>6. TableType' /\ HistType' /\ Named'
    BY <1>t, <2>1, SameNamed DEF table, TableType, HistType
  <2> QED BY <1>t, <2>1, <2>2, <2>5, <2>6, TypesNext DEF Sound
<1>2. ASSUME NEW a \in Admins, AddWorker(a) PROVE Sound'
  <2>1. /\ a \in Starting /\ workers' = workers \cup {issued + 1} /\ issued' = issued + 1
        /\ approval' = [approval EXCEPT ![a].id = issued + 1]
        /\ LET r == approval[a].ref
           IN /\ made' = made \cup {r}
              /\ twice' \subseteq twice \cup {r}
        /\ UNCHANGED <<table, call, bridge, acts, overlapped, no, unrefused, toldNo, raced>>
    BY <1>2, <1>t DEF AddWorker, NewId, Starting, PeopleType
  <2>2. issued + 1 \in 1..MaxId /\ Cardinality(Starting \ {a}) = Cardinality(Starting) - 1
    BY <1>t, <2>1, RoomLeft
  <2>3. PeopleType'
    BY <1>t, <2>1, <2>2 DEF PeopleType, Approvals
  <2>4. Starting' = Starting \ {a}
    BY <1>t, <2>1, <2>2 DEF Starting, PeopleType, Approvals
  <2>5. Room'
    BY <1>t, <1>s, <2>1, <2>2, <2>4 DEF Room, PeopleType
  <2>6. TableType' /\ HistType' /\ Named'
    <3>1. approval[a].ref \in Refs
      BY <1>t, <2>1 DEF Starting, PeopleType, Approvals, Refs
    <3>2. HistType'
      BY <1>t, <2>1, <3>1 DEF HistType
    <3> QED BY <1>t, <2>1, <3>2, SameNamed DEF table, TableType
  <2> QED BY <1>t, <2>1, <2>3, <2>5, <2>6, TypesNext DEF Sound
<1>3. ASSUME NEW a \in Admins, Grant(a) PROVE Sound'
  <2> DEFINE r == approval[a].ref
             names == IF r \in rows THEN no \ {asker[r]} ELSE no
  <2>1. /\ approval[a].id # 0 /\ approval' = [approval EXCEPT ![a] = NoApproval]
        /\ granted' = IF r \in rows THEN [granted EXCEPT ![r] = approval[a].id] ELSE granted
        /\ NotRefused(names)
        /\ UNCHANGED <<rows, asker, refused, aged, lapsed, workers, issued, call, bridge, acts,
                       overlapped, toldNo, yes>>
    BY <1>3, Zenon DEF Grant
  <2>2. approval[a].id \in 0..MaxId /\ NoApproval \in Approvals
    <3>1. 0 \in 0..MaxId /\ 0 \in 0..MaxRef
      OBVIOUS
    <3> QED BY <1>t, <3>1 DEF PeopleType, Approvals, NoApproval
  <2>3. PeopleType'
    BY <1>t, <2>1, <2>2 DEF PeopleType
  <2>4. TableType'
    BY <1>t, <2>1, <2>2 DEF TableType
  <2>5. HistType'
    BY <1>t, <2>1 DEF HistType, NotRefused, yes
  <2>6. Starting' = Starting
    BY <1>t, <2>1 DEF Starting, PeopleType, NoApproval
  <2>7. Room' /\ Named'
    BY <1>t, <2>1, <2>6, SameNamed DEF Room
  <2> QED BY <1>t, <2>1, <2>3, <2>4, <2>5, <2>7, TypesNext DEF Sound
<1>4. ASSUME NEW r \in Refs, Reject(r) PROVE Sound'
  <2>1. TableType' /\ PeopleType' /\ Room' /\ Named'
    BY <1>4, <1>t, SameRoom, SameNamed DEF Reject, people, TableType, PeopleType
  <2>2. HistType'
    BY <1>4, <1>t DEF Reject, HistType, Named, yes
  <2> QED BY <1>4, <1>t, <2>1, <2>2, ActType, TypesNext DEF Sound, Reject
<1>5. ASSUME NEW w \in Ids, Remove(w) PROVE Sound'
  <2>1. PeopleType'
    BY <1>5, <1>t DEF Remove, PeopleType
  <2>2. TableType' /\ HistType' /\ Room' /\ Named'
    BY <1>5, <1>t, SameRoom, SameNamed DEF Remove, table, hist, yes, TableType, HistType
  <2> QED BY <1>5, <1>t, <2>1, <2>2, ActType, TypesNext DEF Sound, Remove
<1>6. ASSUME NEW w \in Ids, Reissue(w) PROVE Sound'
  <2>1. issued' = issued + 1 /\ issued + Cardinality(Starting) < MaxId /\ Starting' = Starting
        /\ workers' = (workers \ {w}) \cup {issued + 1} /\ UNCHANGED approval
    BY <1>6 DEF Reissue, IdLeft, NewId, Starting
  <2>2. PeopleType' /\ Room'
    <3> DEFINE n == Cardinality(Starting)
    <3>1. n \in Nat /\ issued \in Nat /\ issued + n < MaxId /\ issued' = issued + 1
      BY <1>t, <1>s, <2>1 DEF PeopleType
    <3> HIDE DEF n
    <3>2. issued' \in 0..MaxId /\ issued' + n <= MaxId
      BY <3>1
    <3>3. workers' \subseteq 1..issued'
      <4>1. 1..issued \subseteq 1..issued' /\ issued + 1 \in 1..issued'
        BY <3>1
      <4> QED BY <1>t, <2>1, <4>1 DEF PeopleType
    <3>4. Room'
      <4>1. Cardinality(Starting') = n
        BY <2>1, Zenon DEF n
      <4> QED BY <3>2, <4>1 DEF Room
    <3> QED BY <1>t, <2>1, <3>2, <3>3, <3>4 DEF PeopleType
  <2>3. TableType' /\ HistType' /\ Named'
    BY <1>6, <1>t, SameNamed DEF Reissue, table, hist, yes, TableType, HistType
  <2> QED BY <1>6, <1>t, <2>2, <2>3, ActType, TypesNext DEF Sound, Reissue
<1> QED BY <1>1, <1>2, <1>3, <1>4, <1>5, <1>6 DEF Console

LEMMA TroubleSound ==
    ASSUME Sound, Trouble
    PROVE  Sound'
<1>t. /\ TableType /\ PeopleType /\ HistType /\ call \in [Refs -> Stages] /\ TypeOK
      /\ bridge \in [Bridges -> BridgeType] /\ acts \in Histories /\ Room /\ Named
  BY Types DEF Sound
<1>1. CASE Age
  <2>1. TableType' /\ PeopleType' /\ Room' /\ Named'
    BY <1>1, <1>t, SameRoom, SameNamed DEF Age, people, TableType, PeopleType
  <2>2. HistType'
    BY <1>1, <1>t DEF Age, HistType, NotRefused, yes
  <2> QED BY <1>1, <1>t, <2>1, <2>2, ActType, TypesNext DEF Sound, Age
<1>2. CASE Restart
  <2>1. call' \in [Refs -> Stages]
    BY <1>2, <1>t DEF Restart, Stages
  <2>2. PeopleType' /\ Starting' = {}
    <3>1. NoApproval \in Approvals /\ NoApproval.ref = 0
      <4>1. 0 \in 0..MaxId /\ 0 \in 0..MaxRef
        OBVIOUS
      <4> QED BY <4>1 DEF Approvals, NoApproval
    <3> QED BY <1>2, <1>t, <3>1 DEF Restart, PeopleType, Starting
  <2>3. Room'
    <3>1. Cardinality(Starting') = 0
      BY <2>2, FS_EmptySet
    <3> QED BY <2>2, <3>1 DEF Room, PeopleType
  <2>4. TableType' /\ HistType'
    <3>1. raced' \subseteq Refs
      BY <1>2, <1>t DEF Restart, HistType
    <3> QED BY <1>2, <1>t, <3>1 DEF Restart, table, TableType, HistType
  <2>5. Named'
    BY <1>2, <1>t DEF Restart, table, Named
  <2> QED BY <1>2, <1>t, <2>1, <2>2, <2>3, <2>4, <2>5, ActType, TypesNext DEF Sound, Restart
<1>3. ASSUME NEW b \in Bridges, NEW q \in BridgeType,
             bridge' = [bridge EXCEPT ![b] = q], acts' \in Histories,
             UNCHANGED <<table, people, call, hist>>
      PROVE  Sound'
  <2>1. bridge' \in [Bridges -> BridgeType]
    BY <1>3, <1>t, OneBridge
  <2>2. TableType' /\ PeopleType' /\ HistType'
    BY <1>3, <1>t DEF table, people, hist, yes, TableType, PeopleType, HistType
  <2>3. Room' /\ Named'
    BY <1>3, <1>t, SameRoom, SameNamed DEF table, people
  <2> QED BY <1>3, <1>t, <2>1, <2>2, <2>3, TypesNext DEF Sound
<1>4. ASSUME NEW b \in Bridges, Crash(b) PROVE Sound'
  <2>1. bridge[b] \in BridgeType
    BY <1>t
  <2> QED BY <1>3, <1>4, <2>1, DownType, ActType DEF Crash
<1>5. ASSUME NEW b \in Bridges, Redeploy(b) PROVE Sound'
  <2>1. [Idle EXCEPT !.at = "down"] \in BridgeType
    BY IdleType DEF BridgeType
  <2> QED BY <1>3, <1>5, <2>1, ActType DEF Redeploy
<1>6. ASSUME NEW b \in Bridges, AnswerOther(b) PROVE Sound'
  <2>1. bridge[b] \in BridgeType
    BY <1>t
  <2> QED BY <1>3, <1>6, <2>1, AfreshType, ActType DEF AnswerOther
<1> QED BY <1>1, <1>2, <1>4, <1>5, <1>6 DEF Trouble

LEMMA Stutters ==
    ASSUME Sound, UNCHANGED vars
    PROVE  Sound'
<1>1. /\ TableType /\ PeopleType /\ HistType /\ call \in [Refs -> Stages]
      /\ bridge \in [Bridges -> BridgeType] /\ acts \in Histories /\ Room /\ Named
  BY Types DEF Sound
<1>2. TableType' /\ PeopleType' /\ HistType' /\ Room' /\ Named'
  BY <1>1, SameRoom, SameNamed DEF vars, table, people, hist, yes, TableType, PeopleType, HistType
<1> QED BY <1>1, <1>2, TypesNext DEF Sound, vars

LEMMA SoundAlways == Spec => []Sound
<1>1. Init => Sound
  <2> SUFFICES ASSUME Init PROVE Sound
    OBVIOUS
  <2>1. 0 \in 0..MaxId /\ 0 \in 0..MaxRef
    OBVIOUS
  <2>2. TableType /\ PeopleType /\ HistType /\ call \in [Refs -> Stages] /\ acts \in Histories
    BY <2>1 DEF Init, TableType, PeopleType, HistType, Stages, Approvals, NoApproval
  <2>3. bridge \in [Bridges -> BridgeType]
    BY IdleType DEF Init
  <2>4. Starting = {}
    BY DEF Init, Starting, NoApproval
  <2>5. Room
    <3>1. Cardinality(Starting) = 0
      BY <2>4, FS_EmptySet
    <3>2. issued = 0
      BY DEF Init
    <3> QED BY <3>1, <3>2 DEF Room
  <2>6. Named
    BY DEF Named, Init
  <2> QED BY <2>2, <2>3, <2>5, <2>6, Types DEF Sound
<1>2. Sound /\ [Next]_vars => Sound'
  BY BridgeSound, ServeSound, ConsoleSound, TroubleSound, Stutters DEF Next
<1> QED BY <1>1, <1>2, PTL DEF Spec

\* Type correctness of enrolment: what waits has a name, an approval that began
\* finds an id, and every bridge holds an id and a ticket there could be.
THEOREM EnrolTypeCorrect == Spec => []TypeOK
<1>1. Sound => TypeOK
  BY DEF Sound
<1> QED BY <1>1, SoundAlways, PTL

(***************************************************************************)
(* How often a name waits.                                                 *)
(***************************************************************************)

\* Under a name that never had two requests at once, there is one at most, and
\* when it is about to insert its row it has cleared the others away.
OneInv ==
    \A n \in Names \ overlapped :
        /\ \A r, q \in Refs : (/\ call[r] \in InFlight /\ call[q] \in InFlight
                              /\ asker[r] = n /\ asker[q] = n) => r = q
        /\ \A r \in Refs : (call[r] = "inserting" /\ asker[r] = n) => Pending(n) = {}
        /\ \A r, q \in Pending(n) : r = q

\* Rows go, are granted or refused, and keep their names: fewer wait.
LEMMA FewerWait ==
    ASSUME rows' \subseteq rows,
           \A r \in rows' : /\ asker'[r] = asker[r]
                            /\ granted'[r] = 0 => granted[r] = 0
                            /\ r \in refused => r \in refused'
    PROVE  \A n : Pending(n)' \subseteq Pending(n)
BY DEF Pending, Waiting

LEMMA KeepFewer ==
    ASSUME Sound, NEW S \in SUBSET rows, Keep(S)
    PROVE  /\ rows' = S
           /\ \A r \in S : /\ asker'[r] = asker[r] /\ granted'[r] = granted[r]
                          /\ (r \in refused <=> r \in refused') /\ (r \in lapsed <=> r \in lapsed')
           /\ \A r \in Refs : call[r] # "none" => asker'[r] = asker[r]
           /\ \A n : Pending(n)' \subseteq Pending(n)
<1>1. S \subseteq Refs
  BY Types DEF Sound, TableType
<1>2. /\ rows' = S
      /\ \A r \in S : /\ asker'[r] = asker[r] /\ granted'[r] = granted[r]
                     /\ (r \in refused <=> r \in refused') /\ (r \in lapsed <=> r \in lapsed')
      /\ \A r \in Refs : call[r] # "none" => asker'[r] = asker[r]
  BY <1>1 DEF Keep
<1> QED BY <1>2, FewerWait

\* No request goes further than before, and no more wait.
LEMMA OneLess ==
    ASSUME OneInv, overlapped \subseteq overlapped',
           \A r \in Refs : call'[r] \in InFlight => call[r] \in InFlight /\ asker'[r] = asker[r],
           \A r \in Refs : call'[r] = "inserting" => call[r] = "inserting",
           \A n : Pending(n)' \subseteq Pending(n)
    PROVE  OneInv'
<1> SUFFICES ASSUME NEW n \in Names \ overlapped'
             PROVE  /\ \A r, q \in Refs : (/\ call'[r] \in InFlight /\ call'[q] \in InFlight
                                          /\ asker'[r] = n /\ asker'[q] = n) => r = q
                    /\ \A r \in Refs : (call'[r] = "inserting" /\ asker'[r] = n) => Pending(n)' = {}
                    /\ \A r, q \in Pending(n)' : r = q
  BY DEF OneInv
<1>1. n \in Names \ overlapped /\ Pending(n)' \subseteq Pending(n)
  OBVIOUS
<1>2. \A r, q \in Refs : (/\ call'[r] \in InFlight /\ call'[q] \in InFlight
                          /\ asker'[r] = n /\ asker'[q] = n) => r = q
  BY <1>1 DEF OneInv
<1>3. ASSUME NEW r \in Refs, call'[r] = "inserting", asker'[r] = n PROVE Pending(n)' = {}
  <2>1. call[r] = "inserting" /\ asker[r] = n
    BY <1>3 DEF InFlight
  <2>2. Pending(n) = {}
    BY <1>1, <2>1 DEF OneInv
  <2> QED BY <1>1, <2>2
<1>4. \A r, q \in Pending(n)' : r = q
  BY <1>1 DEF OneInv
<1> QED BY <1>2, <1>3, <1>4

\* The table is as it was but for refusals, and requests end or none begins.
LEMMA OneSame ==
    ASSUME OneInv, UNCHANGED <<overlapped, rows, asker, granted>>, refused \subseteq refused',
           \A r \in Refs : call'[r] \in {call[r], "none", "done", "refused"}
    PROVE  OneInv'
<1>1. \A n : Pending(n)' \subseteq Pending(n)
  BY FewerWait
<1>2. \A r \in Refs : /\ call'[r] \in InFlight => call[r] \in InFlight
                      /\ call'[r] = "inserting" => call[r] = "inserting"
  BY DEF InFlight
<1> QED BY <1>1, <1>2, OneLess

\* "One row per name waiting": it takes two requests at once to have two.
THEOREM PendingOnceAlways == Spec => []PendingOnce
<1>1. Init => OneInv
  BY DEF Init, OneInv, Pending, Waiting, InFlight
<1>2. ASSUME Sound, OneInv, [Next]_vars PROVE OneInv'
  <2>t. TableType /\ call \in [Refs -> Stages] /\ bridge \in [Bridges -> BridgeType]
    BY <1>2, Types DEF Sound
  <2>1. ASSUME NEW b \in Bridges, AnswerGone(b) PROVE OneInv'
    <3>1. PICK S \in SUBSET rows : Keep(S)
      <4>1. (IF Dead(bridge[b]) THEN rows \ {bridge[b].ticket} ELSE rows) \in SUBSET rows
        OBVIOUS
      <4> QED BY <2>1, <4>1, Zenon DEF AnswerGone
    <3>2. UNCHANGED <<call, overlapped>>
      BY <2>1 DEF AnswerGone, hist
    <3>3. \A r \in Refs : call'[r] \in InFlight => call[r] \in InFlight /\ asker'[r] = asker[r]
      BY <1>2, <3>1, <3>2, KeepFewer DEF InFlight
    <3> QED BY <1>2, <3>1, <3>2, <3>3, KeepFewer, OneLess
  <2>2. ASSUME NEW b \in Bridges, Begin(b) PROVE OneInv'
    <3> DEFINE f == CHOOSE r \in Free : \A q \in Free : r <= q
               n == Name[b]
    <3>1. f \in Free /\ f \in Refs /\ f \notin rows /\ call[f] = "none"
      <4>1. Free \in SUBSET Refs /\ Free # {}
        BY <2>2 DEF Begin, Free
      <4>2. f \in Free
        BY <4>1, FirstOf
      <4> HIDE DEF f
      <4> QED BY <4>1, <4>2 DEF Free, Held
    <3>2. /\ call' = [call EXCEPT ![f] = "checking"] /\ asker' = [asker EXCEPT ![f] = n]
          /\ overlapped' = IF \E q \in Refs : call[q] \in InFlight /\ asker[q] = n
                           THEN overlapped \cup {n} ELSE overlapped
          /\ UNCHANGED <<rows, granted, refused>>
      BY <2>2, Zenon DEF Begin
    <3> HIDE DEF f
    <3> SUFFICES ASSUME NEW m \in Names \ overlapped'
                 PROVE  /\ \A r, q \in Refs : (/\ call'[r] \in InFlight /\ call'[q] \in InFlight
                                              /\ asker'[r] = m /\ asker'[q] = m) => r = q
                        /\ \A r \in Refs : (call'[r] = "inserting" /\ asker'[r] = m)
                                              => Pending(m)' = {}
                        /\ \A r, q \in Pending(m)' : r = q
      BY DEF OneInv
    <3>3. m \in Names \ overlapped
      BY <3>2
    <3>4. Pending(m)' \subseteq Pending(m)
      <4>1. \A r \in rows : asker'[r] = asker[r]
        BY <2>t, <3>1, <3>2 DEF TableType
      <4> QED BY <3>2, <4>1, FewerWait
    <3>5. \A r \in Refs \ {f} : call'[r] = call[r] /\ asker'[r] = asker[r]
      BY <2>t, <3>2 DEF TableType
    <3>6. call'[f] = "checking" /\ asker'[f] = n
      BY <2>t, <3>1, <3>2 DEF TableType
    <3>7. \A r, q \in Refs : (/\ call'[r] \in InFlight /\ call'[q] \in InFlight
                              /\ asker'[r] = m /\ asker'[q] = m) => r = q
      <4>1. CASE m = n
        <5>1. \A q \in Refs : ~ (call[q] \in InFlight /\ asker[q] = n)
          BY <3>2, <4>1
        <5> QED BY <3>5, <4>1, <5>1
      <4>2. CASE m # n
        BY <1>2, <3>3, <3>5, <3>6, <4>2 DEF OneInv
      <4> QED BY <4>1, <4>2
    <3>8. \A r \in Refs : (call'[r] = "inserting" /\ asker'[r] = m) => Pending(m)' = {}
      <4> SUFFICES ASSUME NEW r \in Refs, call'[r] = "inserting", asker'[r] = m
                   PROVE  Pending(m)' = {}
        OBVIOUS
      <4>1. call[r] = "inserting" /\ asker[r] = m
        BY <3>5, <3>6
      <4>2. Pending(m) = {}
        BY <1>2, <3>3, <4>1 DEF OneInv
      <4> QED BY <3>4, <4>2
    <3>9. \A r, q \in Pending(m)' : r = q
      BY <1>2, <3>3, <3>4 DEF OneInv
    <3> QED BY <3>7, <3>8, <3>9
  <2>3. ASSUME NEW b \in Bridges, Step(b), ~ AnswerGone(b), ~ Begin(b) PROVE OneInv'
    <3>1. UNCHANGED <<table, overlapped>>
      BY <2>3 DEF Step, Poll, Ask, AnswerPending, Collect, Told, Reply, Unanswered, Start, To, hist
    <3>2. \A r \in Refs : call'[r] \in {call[r], "none", "done", "refused"}
      BY <2>3, <2>t DEF Step, Poll, Ask, AnswerPending, Collect, Told, Reply, Unanswered, Start, To
    <3> QED BY <1>2, <3>1, <3>2, OneSame DEF table
  <2>4. ASSUME NEW r \in Refs, Check(r) PROVE OneInv'
    <3>1. UNCHANGED <<table, overlapped>> /\ call[r] = "checking"
          /\ \A q \in Refs : call'[q] = IF q = r THEN IF Stands(asker[r]) THEN "refused" ELSE "clearing"
                              ELSE call[q]
      BY <2>4, <2>t DEF Check, Goes, hist
    <3>2. \A q \in Refs : /\ call'[q] \in InFlight => call[q] \in InFlight
                          /\ call'[q] = "inserting" => call[q] = "inserting"
      BY <3>1 DEF InFlight
    <3>3. \A n : Pending(n)' \subseteq Pending(n)
      BY <3>1, FewerWait DEF table
    <3> QED BY <1>2, <3>1, <3>2, <3>3, OneLess DEF table
  <2>5. ASSUME NEW r \in Refs, Clear(r) PROVE OneInv'
    <3>1. /\ call[r] = "clearing" /\ call' = [call EXCEPT ![r] = "inserting"]
          /\ Keep(rows \ Pending(asker[r])) /\ UNCHANGED overlapped
      BY <2>5 DEF Clear, Goes, Cleared, hist
    <3>2. /\ rows' = rows \ Pending(asker[r])
          /\ \A q \in Refs : call[q] # "none" => asker'[q] = asker[q]
          /\ \A n : Pending(n)' \subseteq Pending(n)
      BY <1>2, <3>1, KeepFewer
    <3>3. ASSUME NEW n, n = asker[r] PROVE Pending(n)' = {}
      <4>1. Pending(n)' \subseteq Pending(n) /\ rows' \cap Pending(n) = {}
        BY <3>2, <3>3
      <4>2. Pending(n)' \subseteq rows'
        BY DEF Pending
      <4> QED BY <4>1, <4>2
    <3>4. \A q \in Refs : call'[q] = IF q = r THEN "inserting" ELSE call[q]
      BY <2>t, <3>1
    <3>5. \A q \in Refs : call'[q] \in InFlight => call[q] \in InFlight /\ asker'[q] = asker[q]
      BY <3>1, <3>2, <3>4 DEF InFlight
    <3> SUFFICES ASSUME NEW n \in Names \ overlapped
                 PROVE  /\ \A p, q \in Refs : (/\ call'[p] \in InFlight /\ call'[q] \in InFlight
                                              /\ asker'[p] = n /\ asker'[q] = n) => p = q
                        /\ \A q \in Refs : (call'[q] = "inserting" /\ asker'[q] = n)
                                              => Pending(n)' = {}
                        /\ \A p, q \in Pending(n)' : p = q
      BY <3>1 DEF OneInv
    <3>6. \A p, q \in Refs : (/\ call'[p] \in InFlight /\ call'[q] \in InFlight
                              /\ asker'[p] = n /\ asker'[q] = n) => p = q
      BY <1>2, <3>5 DEF OneInv
    <3>7. ASSUME NEW q \in Refs, call'[q] = "inserting", asker'[q] = n PROVE Pending(n)' = {}
      <4>1. asker[q] = n
        BY <3>5, <3>7 DEF InFlight
      <4>2. CASE q = r
        BY <3>3, <4>1, <4>2
      <4>3. CASE q # r
        <5>1. call[q] = "inserting"
          BY <3>4, <3>7, <4>3
        <5>2. Pending(n) = {}
          BY <1>2, <4>1, <5>1 DEF OneInv
        <5> QED BY <3>2, <5>2
      <4> QED BY <4>2, <4>3
    <3>8. \A p, q \in Pending(n)' : p = q
      BY <1>2, <3>2 DEF OneInv
    <3> QED BY <3>6, <3>7, <3>8
  <2>6. ASSUME NEW r \in Refs, Insert(r) PROVE OneInv'
    <3>1. /\ call[r] = "inserting" /\ rows' = rows \cup {r}
          /\ UNCHANGED <<asker, granted, refused, overlapped>>
      BY <2>6 DEF Insert, Goes
    <3>2. \A q \in Refs : call'[q] = IF q = r THEN "expiring" ELSE call[q]
      BY <2>6, <2>t DEF Insert, Goes
    <3>3. \A n : Pending(n)' \subseteq Pending(n) \cup (IF n = asker[r] THEN {r} ELSE {})
      BY <3>1 DEF Pending, Waiting
    <3> SUFFICES ASSUME NEW n \in Names \ overlapped
                 PROVE  /\ \A p, q \in Refs : (/\ call'[p] \in InFlight /\ call'[q] \in InFlight
                                              /\ asker'[p] = n /\ asker'[q] = n) => p = q
                        /\ \A q \in Refs : (call'[q] = "inserting" /\ asker'[q] = n)
                                              => Pending(n)' = {}
                        /\ \A p, q \in Pending(n)' : p = q
      BY <3>1 DEF OneInv
    <3>4. call[r] \in InFlight /\ \A q \in Refs : call'[q] \in InFlight => call[q] \in InFlight
      BY <3>1, <3>2 DEF InFlight
    <3>5. \A p, q \in Refs : (/\ call'[p] \in InFlight /\ call'[q] \in InFlight
                              /\ asker'[p] = n /\ asker'[q] = n) => p = q
      BY <1>2, <3>1, <3>4 DEF OneInv
    <3>6. ASSUME NEW q \in Refs, call'[q] = "inserting", asker'[q] = n PROVE Pending(n)' = {}
      <4>1. call[q] = "inserting" /\ asker[q] = n /\ q # r
        BY <3>1, <3>2, <3>6
      <4>2. call[q] \in InFlight
        BY <4>1 DEF InFlight
      <4>3. asker[r] # n /\ Pending(n) = {}
        BY <1>2, <3>4, <4>1, <4>2 DEF OneInv
      <4> QED BY <3>3, <4>3
    <3>7. \A p, q \in Pending(n)' : p = q
      <4>1. CASE asker[r] = n
        <5>1. Pending(n) = {}
          BY <1>2, <3>1, <4>1 DEF OneInv
        <5> QED BY <3>3, <5>1
      <4>2. CASE asker[r] # n
        BY <1>2, <3>3, <4>2 DEF OneInv
      <4> QED BY <4>1, <4>2
    <3> QED BY <3>5, <3>6, <3>7
  <2>7. ASSUME NEW r \in Refs, Expire(r) PROVE OneInv'
    <3>1. /\ call[r] = "expiring" /\ call' = [call EXCEPT ![r] = "done"]
          /\ UNCHANGED overlapped
      BY <2>7 DEF Expire, Goes, hist
    <3>2. PICK S \in SUBSET rows : Keep(S)
      BY <2>7 DEF Expire
    <3>3. \A q \in Refs : call'[q] = IF q = r THEN "done" ELSE call[q]
      BY <2>t, <3>1
    <3>4. \A q \in Refs : /\ call'[q] \in InFlight => call[q] \in InFlight /\ asker'[q] = asker[q]
                          /\ call'[q] = "inserting" => call[q] = "inserting"
      BY <1>2, <3>2, <3>3, KeepFewer DEF InFlight
    <3> QED BY <1>2, <3>1, <3>2, <3>4, KeepFewer, OneLess
  <2>8. ASSUME NEW r \in Refs, Dropped(r) PROVE OneInv'
    <3>1. UNCHANGED <<table, overlapped>>
      BY <2>8 DEF Dropped, hist
    <3>2. \A q \in Refs : call'[q] \in {call[q], "none", "done", "refused"}
      BY <2>8, <2>t DEF Dropped
    <3> QED BY <1>2, <3>1, <3>2, OneSame DEF table
  <2>9. ASSUME NEW a \in Admins, Grant(a) PROVE OneInv'
    <3>1. UNCHANGED <<rows, asker, refused, call, overlapped>>
      BY <2>9 DEF Grant
    <3>2. \A r \in rows : granted'[r] = 0 => granted[r] = 0
      BY <2>9, <2>t DEF Grant, TableType
    <3>3. \A n : Pending(n)' \subseteq Pending(n)
      BY <3>1, <3>2, FewerWait
    <3> QED BY <1>2, <3>1, <3>3, OneLess
  <2>10. ASSUME Console, ~ \E a \in Admins : Grant(a) PROVE OneInv'
    <3>1. UNCHANGED <<rows, asker, granted, call, overlapped>> /\ refused \subseteq refused'
      BY <2>10 DEF Console, Approve, AddWorker, Reject, Remove, Reissue, table, hist
    <3> QED BY <1>2, <3>1, OneSame
  <2>11. CASE Trouble
    <3>1. UNCHANGED <<rows, asker, granted, refused, overlapped>>
      BY <2>11 DEF Trouble, Age, Restart, Crash, Redeploy, AnswerOther, table, hist
    <3>2. \A r \in Refs : call'[r] \in {call[r], "none", "done", "refused"}
      BY <2>11, <2>t DEF Trouble, Age, Restart, Crash, Redeploy, AnswerOther
    <3> QED BY <1>2, <3>1, <3>2, OneSame
  <2>12. CASE UNCHANGED vars
    <3>1. UNCHANGED <<rows, asker, granted, refused, call, overlapped>>
      BY <2>12 DEF vars, table, hist
    <3> QED BY <1>2, <3>1, OneSame
  <2> QED BY <1>2, <2>1, <2>2, <2>3, <2>4, <2>5, <2>6, <2>7, <2>8, <2>9, <2>10, <2>11, <2>12
          DEF Next, Serve
<1>3. Sound /\ OneInv /\ [Next]_vars => OneInv'
  BY <1>2
<1>4. OneInv => PendingOnce
  BY DEF OneInv, PendingOnce
<1> QED BY <1>1, <1>3, <1>4, SoundAlways, PTL DEF Spec

(***************************************************************************)
(* How many workers a request makes.                                       *)
(***************************************************************************)

Early == {"checking", "clearing", "inserting"}

\* A request that has no row yet was not approved.  But for what was approved
\* twice at once, or cut off: one approval at most is under way, it has made no
\* worker before its id, and a row whose worker was made is granted or about to be.
YesInv ==
    /\ \A r \in Refs : call[r] \in Early =>
           r \notin rows /\ r \notin made /\ \A a \in Admins : approval[a].ref # r
    /\ \A r \in Refs \ raced : \A a, c \in Admins :
           (approval[a].ref = r /\ approval[c].ref = r) => a = c
    /\ \A r \in Refs \ raced : \A a \in Admins :
           (approval[a].ref = r /\ approval[a].id = 0) => r \notin made
    /\ \A r \in (made \cap rows) \ raced :
           granted[r] # 0 \/ \E a \in Admins : approval[a].ref = r /\ approval[a].id # 0
    /\ twice \subseteq raced

\* Rows go, requests end, and no approval does anything.
LEMMA YesSame ==
    ASSUME YesInv, rows' \subseteq rows, \A r \in rows' : granted'[r] = granted[r],
           \A r \in Refs : call'[r] \in Early => call[r] \in Early,
           UNCHANGED <<approval, made, twice, raced>>
    PROVE  YesInv'
<1>1. \A r \in Refs : call'[r] \in Early =>
          r \notin rows' /\ r \notin made /\ \A a \in Admins : approval[a].ref # r
  BY DEF YesInv
<1>2. \A r \in (made \cap rows') \ raced :
          granted'[r] # 0 \/ \E a \in Admins : approval[a].ref = r /\ approval[a].id # 0
  BY DEF YesInv
<1>3. /\ \A r \in Refs \ raced : \A a, c \in Admins :
             (approval[a].ref = r /\ approval[c].ref = r) => a = c
      /\ \A r \in Refs \ raced : \A a \in Admins :
             (approval[a].ref = r /\ approval[a].id = 0) => r \notin made
      /\ twice \subseteq raced
  BY DEF YesInv
<1> QED BY <1>1, <1>2, <1>3 DEF YesInv, Early

\* "Approving twice gives the same id rather than a second worker": to make two
\* it takes two approvals at once, or one cut off by a restart after its INSERT.
THEOREM OneWorkerAlways == Spec => []OneWorker
<1>1. Init => YesInv
  <2> SUFFICES ASSUME Init PROVE YesInv
    OBVIOUS
  <2>1. made = {} /\ twice = {} /\ \A r \in Refs : call[r] \notin Early
    BY DEF Init, Early
  <2>2. \A r \in Refs, a \in Admins : approval[a].ref # r
    <3>1. \A r \in Refs : r # 0
      BY DEF Refs
    <3> QED BY <3>1 DEF Init, NoApproval
  <2> QED BY <2>1, <2>2 DEF YesInv
<1>2. ASSUME Sound, YesInv, [Next]_vars PROVE YesInv'
  <2>t. /\ TableType /\ PeopleType /\ HistType /\ call \in [Refs -> Stages]
        /\ bridge \in [Bridges -> BridgeType]
    BY <1>2, Types DEF Sound
  <2>r. /\ \A r \in Refs : r # 0
        /\ \A a \in Admins : approval[a] \in Approvals
    BY <2>t DEF Refs, PeopleType
  <2>1. ASSUME NEW b \in Bridges, AnswerGone(b) PROVE YesInv'
    <3>1. PICK S \in SUBSET rows : Keep(S)
      <4>1. (IF Dead(bridge[b]) THEN rows \ {bridge[b].ticket} ELSE rows) \in SUBSET rows
        OBVIOUS
      <4> QED BY <2>1, <4>1, Zenon DEF AnswerGone
    <3>2. UNCHANGED <<call, approval, made, twice, raced>>
      BY <2>1 DEF AnswerGone, people, hist, yes
    <3>3. rows' \subseteq rows /\ \A r \in rows' : granted'[r] = granted[r]
      BY <1>2, <3>1, KeepFewer
    <3> QED BY <1>2, <3>2, <3>3, YesSame
  <2>2. ASSUME NEW b \in Bridges, Begin(b) PROVE YesInv'
    <3> DEFINE f == CHOOSE r \in Free : \A q \in Free : r <= q
    <3>1. f \in Refs /\ f \notin rows /\ \A a \in Admins : approval[a].ref # f
      <4>1. Free \in SUBSET Refs /\ Free # {}
        BY <2>2 DEF Begin, Free
      <4>2. f \in Free
        BY <4>1, FirstOf
      <4> HIDE DEF f
      <4> QED BY <4>1, <4>2 DEF Free, Held
    <3>2. /\ call' = [call EXCEPT ![f] = "checking"]
          /\ made' = made \ {f} /\ twice' = twice \ {f} /\ raced' = raced \ {f}
          /\ UNCHANGED <<rows, granted, approval>>
      BY <2>2, Zenon DEF Begin, people
    <3> HIDE DEF f
    <3>3. \A q \in Refs \ {f} : call'[q] = call[q]
      BY <2>t, <3>2
    <3>4. \A r \in Refs : call'[r] \in Early =>
              r \notin rows' /\ r \notin made' /\ \A a \in Admins : approval'[a].ref # r
      BY <1>2, <3>1, <3>2, <3>3 DEF YesInv
    <3>5. \A r \in Refs \ raced' : \A a, c \in Admins :
              (approval'[a].ref = r /\ approval'[c].ref = r) => a = c
      BY <1>2, <3>1, <3>2 DEF YesInv
    <3>6. \A r \in Refs \ raced' : \A a \in Admins :
              (approval'[a].ref = r /\ approval'[a].id = 0) => r \notin made'
      BY <1>2, <3>1, <3>2 DEF YesInv
    <3>7. \A r \in (made' \cap rows') \ raced' : granted'[r] # 0
              \/ \E a \in Admins : approval'[a].ref = r /\ approval'[a].id # 0
      BY <1>2, <3>2 DEF YesInv
    <3>8. twice' \subseteq raced'
      BY <1>2, <3>2 DEF YesInv
    <3> QED BY <3>4, <3>5, <3>6, <3>7, <3>8 DEF YesInv, Early
  <2>3. ASSUME NEW b \in Bridges, Step(b), ~ AnswerGone(b), ~ Begin(b) PROVE YesInv'
    <3>1. UNCHANGED <<table, approval, made, twice, raced>>
      BY <2>3 DEF Step, Poll, Ask, AnswerPending, Collect, Told, Reply, Unanswered, Start, To,
                  people, hist, yes
    <3>2. \A r \in Refs : call'[r] \in Early => call[r] \in Early
      BY <2>3, <2>t DEF Step, Poll, Ask, AnswerPending, Collect, Told, Reply, Unanswered, Start, To,
                        Early
    <3> QED BY <1>2, <3>1, <3>2, YesSame DEF table
  <2>4. ASSUME NEW r \in Refs, Serve(r), ~ Insert(r) PROVE YesInv'
    <3>1. UNCHANGED <<approval, made, twice, raced>>
          /\ (UNCHANGED <<rows, granted>> \/ \E S \in SUBSET rows : Keep(S))
      BY <2>4 DEF Serve, Check, Clear, Expire, Dropped, table, people, hist, yes
    <3>2. rows' \subseteq rows /\ \A q \in rows' : granted'[q] = granted[q]
      BY <1>2, <3>1, KeepFewer
    <3>3. \A q \in Refs : call'[q] \in Early => call[q] \in Early
      BY <2>4, <2>t DEF Serve, Check, Clear, Expire, Dropped, Goes, Early
    <3> QED BY <1>2, <3>1, <3>2, <3>3, YesSame
  <2>5. ASSUME NEW r \in Refs, Insert(r) PROVE YesInv'
    <3>1. /\ call[r] = "inserting" /\ rows' = rows \cup {r}
          /\ UNCHANGED <<granted, approval, made, twice, raced>>
      BY <2>5 DEF Insert, Goes, people, yes
    <3>2. \A q \in Refs : call'[q] = IF q = r THEN "expiring" ELSE call[q]
      BY <2>5, <2>t DEF Insert, Goes
    <3>3. r \notin made
      BY <1>2, <3>1 DEF YesInv, Early
    <3>4. \A q \in Refs : call'[q] \in Early =>
              q \notin rows' /\ q \notin made' /\ \A a \in Admins : approval'[a].ref # q
      BY <1>2, <3>1, <3>2 DEF YesInv, Early
    <3>5. /\ \A q \in Refs \ raced' : \A a, c \in Admins :
                 (approval'[a].ref = q /\ approval'[c].ref = q) => a = c
          /\ \A q \in Refs \ raced' : \A a \in Admins :
                 (approval'[a].ref = q /\ approval'[a].id = 0) => q \notin made'
          /\ twice' \subseteq raced'
      BY <1>2, <3>1 DEF YesInv
    <3>6. \A q \in (made' \cap rows') \ raced' : granted'[q] # 0
              \/ \E a \in Admins : approval'[a].ref = q /\ approval'[a].id # 0
      BY <1>2, <3>1, <3>3 DEF YesInv
    <3> QED BY <3>4, <3>5, <3>6 DEF YesInv, Early
  <2>6. ASSUME NEW a \in Admins, NEW r \in Refs, Approve(a, r) PROVE YesInv'
    <3>1. /\ approval[a] = NoApproval /\ r \in rows /\ granted[r] = 0
          /\ raced' = IF \E c \in Admins : approval[c].ref = r THEN raced \cup {r} ELSE raced
          /\ UNCHANGED <<rows, granted, call, made, twice>>
      BY <2>6 DEF Approve, table
    <3>2. \A c \in Admins : /\ approval'[c].ref = IF c = a THEN r ELSE approval[c].ref
                            /\ approval'[c].id = approval[c].id
      BY <2>6, <2>t, <2>r DEF Approve, PeopleType, Approvals
    <3>3. approval[a].ref = 0 /\ approval[a].id = 0
      BY <3>1 DEF NoApproval
    <3>4. r \notin raced' => /\ r \notin made /\ r \notin raced
                             /\ \A c \in Admins : approval[c].ref # r
      BY <1>2, <3>1 DEF YesInv
    <3>5. \A q \in Refs : call'[q] \in Early =>
              q \notin rows' /\ q \notin made' /\ \A c \in Admins : approval'[c].ref # q
      BY <1>2, <3>1, <3>2 DEF YesInv
    <3>6. \A q \in Refs \ raced' : \A c, d \in Admins :
              (approval'[c].ref = q /\ approval'[d].ref = q) => c = d
      <4> SUFFICES ASSUME NEW q \in Refs \ raced', NEW c \in Admins, NEW d \in Admins,
                          approval'[c].ref = q, approval'[d].ref = q
                   PROVE  c = d
        OBVIOUS
      <4>1. CASE q = r
        BY <3>2, <3>4, <4>1
      <4>2. CASE q # r
        <5>1. approval[c].ref = q /\ approval[d].ref = q /\ q \notin raced
          BY <3>1, <3>2, <4>2
        <5> QED BY <1>2, <5>1 DEF YesInv
      <4> QED BY <4>1, <4>2
    <3>7. \A q \in Refs \ raced' : \A c \in Admins :
              (approval'[c].ref = q /\ approval'[c].id = 0) => q \notin made'
      <4> SUFFICES ASSUME NEW q \in Refs \ raced', NEW c \in Admins,
                          approval'[c].ref = q, approval'[c].id = 0
                   PROVE  q \notin made
        BY <3>1
      <4>1. CASE q = r
        BY <3>4, <4>1
      <4>2. CASE q # r
        <5>1. approval[c].ref = q /\ approval[c].id = 0 /\ q \notin raced
          BY <3>1, <3>2, <4>2
        <5> QED BY <1>2, <5>1 DEF YesInv
      <4> QED BY <4>1, <4>2
    <3>8. \A q \in (made' \cap rows') \ raced' : granted'[q] # 0
              \/ \E c \in Admins : approval'[c].ref = q /\ approval'[c].id # 0
      <4> SUFFICES ASSUME NEW q \in (made \cap rows) \ raced', granted[q] = 0
                   PROVE  \E c \in Admins : approval'[c].ref = q /\ approval'[c].id # 0
        BY <3>1
      <4>1. PICK c \in Admins : approval[c].ref = q /\ approval[c].id # 0
        BY <1>2, <3>1 DEF YesInv
      <4>2. c # a
        BY <3>3, <4>1
      <4> QED BY <3>2, <4>1, <4>2
    <3>9. twice' \subseteq raced'
      BY <1>2, <3>1 DEF YesInv
    <3> QED BY <3>5, <3>6, <3>7, <3>8, <3>9 DEF YesInv, Early
  <2>7. ASSUME NEW a \in Admins, AddWorker(a) PROVE YesInv'
    <3> DEFINE r == approval[a].ref
    <3>1. /\ r # 0 /\ approval[a].id = 0 /\ made' = made \cup {r}
          /\ twice' = IF r \in made THEN twice \cup {r} ELSE twice
          /\ UNCHANGED <<rows, granted, call, raced>>
      BY <2>7, Zenon DEF AddWorker, table
    <3>2. r \in Refs
      BY <2>r, <3>1 DEF Approvals, Refs
    <3>3. \A c \in Admins : /\ approval'[c].ref = approval[c].ref
                            /\ approval'[c].id = IF c = a THEN issued + 1 ELSE approval[c].id
      BY <2>7, <2>t, <2>r DEF AddWorker, NewId, PeopleType, Approvals
    <3>4. issued + 1 # 0
      BY <2>t DEF PeopleType
    <3>5. r \in made => r \in raced
      BY <1>2, <3>1, <3>2 DEF YesInv
    <3>6. \A c \in Admins : (r \notin raced /\ approval[c].ref = r) => c = a
      BY <1>2, <3>2 DEF YesInv
    <3>7. \A q \in Refs : call'[q] \in Early => q # r
      BY <1>2, <3>1 DEF YesInv
    <3> HIDE DEF r
    <3>8. \A q \in Refs : call'[q] \in Early =>
              q \notin rows' /\ q \notin made' /\ \A c \in Admins : approval'[c].ref # q
      BY <1>2, <3>1, <3>3, <3>7 DEF YesInv
    <3>9. \A q \in Refs \ raced' : \A c, d \in Admins :
              (approval'[c].ref = q /\ approval'[d].ref = q) => c = d
      BY <1>2, <3>1, <3>3 DEF YesInv
    <3>10. \A q \in Refs \ raced' : \A c \in Admins :
               (approval'[c].ref = q /\ approval'[c].id = 0) => q \notin made'
      <4> SUFFICES ASSUME NEW q \in Refs \ raced, NEW c \in Admins,
                          approval'[c].ref = q, approval'[c].id = 0
                   PROVE  q \notin made'
        BY <3>1
      <4>1. c # a /\ approval[c].ref = q /\ approval[c].id = 0
        BY <3>3, <3>4
      <4>2. q # r /\ q \notin made
        BY <1>2, <3>6, <4>1 DEF YesInv
      <4> QED BY <3>1, <4>2
    <3>11. \A q \in (made' \cap rows') \ raced' : granted'[q] # 0
               \/ \E c \in Admins : approval'[c].ref = q /\ approval'[c].id # 0
      <4> SUFFICES ASSUME NEW q \in (made' \cap rows) \ raced, granted[q] = 0
                   PROVE  \E c \in Admins : approval'[c].ref = q /\ approval'[c].id # 0
        BY <3>1
      <4>1. CASE q = r
        BY <3>3, <3>4, <4>1 DEF r
      <4>2. CASE q # r
        <5>1. PICK c \in Admins : approval[c].ref = q /\ approval[c].id # 0
          BY <1>2, <3>1, <4>2 DEF YesInv
        <5> QED BY <3>1, <3>3, <5>1
      <4> QED BY <4>1, <4>2
    <3>12. twice' \subseteq raced'
      BY <1>2, <3>1, <3>5 DEF YesInv
    <3> QED BY <3>8, <3>9, <3>10, <3>11, <3>12 DEF YesInv, Early
  <2>8. ASSUME NEW a \in Admins, Grant(a) PROVE YesInv'
    <3> DEFINE r == approval[a].ref
    <3>1. /\ approval[a].id # 0 /\ approval' = [approval EXCEPT ![a] = NoApproval]
          /\ granted' = IF r \in rows THEN [granted EXCEPT ![r] = approval[a].id] ELSE granted
          /\ UNCHANGED <<rows, call, made, twice, raced>>
      BY <2>8, Zenon DEF Grant, yes
    <3>2. \A c \in Admins \ {a} : approval'[c] = approval[c]
      BY <3>1, <2>t DEF PeopleType
    <3>3. approval'[a].ref = 0
      BY <3>1, <2>t DEF NoApproval, PeopleType
    <3>4. \A q \in rows : granted'[q] = IF q = r THEN approval[a].id ELSE granted[q]
      BY <3>1, <2>t DEF TableType
    <3>5. \A q \in Refs, c \in Admins : approval'[c].ref = q => c # a /\ approval'[c] = approval[c]
      BY <2>r, <3>2, <3>3
    <3>6. \A q \in Refs : call'[q] \in Early =>
              q \notin rows' /\ q \notin made' /\ \A c \in Admins : approval'[c].ref # q
      <4> SUFFICES ASSUME NEW q \in Refs, call[q] \in Early
                   PROVE  q \notin rows /\ q \notin made /\ \A c \in Admins : approval'[c].ref # q
        BY <3>1
      <4>1. q \notin rows /\ q \notin made /\ \A c \in Admins : approval[c].ref # q
        BY <1>2 DEF YesInv
      <4> QED BY <3>5, <4>1
    <3>7. \A q \in Refs \ raced' : \A c, d \in Admins :
              (approval'[c].ref = q /\ approval'[d].ref = q) => c = d
      <4> SUFFICES ASSUME NEW q \in Refs \ raced, NEW c \in Admins, NEW d \in Admins,
                          approval'[c].ref = q, approval'[d].ref = q
                   PROVE  c = d
        BY <3>1
      <4>1. approval[c].ref = q /\ approval[d].ref = q
        BY <3>5
      <4> QED BY <1>2, <4>1 DEF YesInv
    <3>8. \A q \in Refs \ raced' : \A c \in Admins :
              (approval'[c].ref = q /\ approval'[c].id = 0) => q \notin made'
      <4> SUFFICES ASSUME NEW q \in Refs \ raced, NEW c \in Admins,
                          approval'[c].ref = q, approval'[c].id = 0
                   PROVE  q \notin made
        BY <3>1
      <4>1. approval[c].ref = q /\ approval[c].id = 0
        BY <3>5
      <4> QED BY <1>2, <4>1 DEF YesInv
    <3>9. \A q \in (made' \cap rows') \ raced' : granted'[q] # 0
              \/ \E c \in Admins : approval'[c].ref = q /\ approval'[c].id # 0
      <4> SUFFICES ASSUME NEW q \in (made \cap rows) \ raced, granted'[q] = 0
                   PROVE  \E c \in Admins : approval'[c].ref = q /\ approval'[c].id # 0
        BY <3>1
      <4>1. q # r /\ granted[q] = 0
        BY <3>1, <3>4
      <4>2. PICK c \in Admins : approval[c].ref = q /\ approval[c].id # 0
        BY <1>2, <4>1 DEF YesInv
      <4> QED BY <3>2, <4>1, <4>2
    <3>10. twice' \subseteq raced'
      BY <1>2, <3>1 DEF YesInv
    <3> HIDE DEF r
    <3> QED BY <3>6, <3>7, <3>8, <3>9, <3>10 DEF YesInv, Early
  <2>9. CASE Restart
    <3>1. /\ raced' = raced \cup {r \in Refs : \E a \in Admins :
                                      approval[a].ref = r /\ approval[a].id # 0}
          /\ UNCHANGED <<rows, granted, made, twice>>
      BY <2>9 DEF Restart, table
    <3>2. \A a \in Admins : approval'[a].ref = 0
      BY <2>9 DEF Restart, NoApproval
    <3>3. \A r \in Refs : call'[r] \notin Early
      BY <2>9, <2>t DEF Restart, Early, InFlight
    <3>4. \A r \in (made' \cap rows') \ raced' : granted'[r] # 0
      BY <1>2, <2>t, <3>1 DEF YesInv, HistType
    <3>5. twice' \subseteq raced'
      BY <1>2, <3>1 DEF YesInv
    <3> QED BY <2>r, <3>2, <3>3, <3>4, <3>5 DEF YesInv, Early
  <2>10. ASSUME NEW r \in Refs, Reject(r) PROVE YesInv'
    BY <1>2, <2>10, YesSame DEF Reject, people, yes
  <2>11. ASSUME NEW w \in Ids, Remove(w) \/ Reissue(w) PROVE YesInv'
    BY <1>2, <2>11, YesSame DEF Remove, Reissue, table, hist, yes
  <2>12. CASE Age
    BY <1>2, <2>12, YesSame DEF Age, people, yes
  <2>13. ASSUME NEW b \in Bridges, Crash(b) \/ Redeploy(b) \/ AnswerOther(b) PROVE YesInv'
    <3>1. UNCHANGED <<rows, granted, call, approval, made, twice, raced>>
      BY <2>13 DEF Crash, Redeploy, AnswerOther, table, people, hist, yes
    <3> QED BY <1>2, <3>1, YesSame
  <2>14. CASE UNCHANGED vars
    BY <1>2, <2>14, YesSame DEF vars, table, people, hist, yes
  <2> QED BY <1>2, <2>1, <2>2, <2>3, <2>4, <2>5, <2>6, <2>7, <2>8, <2>9, <2>10, <2>11, <2>12, <2>13,
             <2>14 DEF Next, Serve, Console, Trouble
<1>3. Sound /\ YesInv /\ [Next]_vars => YesInv'
  BY <1>2
<1>4. YesInv => OneWorker
  BY DEF YesInv, OneWorker
<1> QED BY <1>1, <1>3, <1>4, SoundAlways, PTL DEF Spec

(***************************************************************************)
(* How long a refusal stands.                                              *)
(***************************************************************************)

\* The request a bridge has a ticket for has been answered, so that its number
\* is not taken by another.
TicketInv ==
    \A b \in Bridges : \A t \in {bridge[b].ticket, bridge[b].savedTicket} :
        t # 0 => call[t] = "none"

\* What a bridge read of a request stays granted while the row is there.
AnswerInv ==
    \A b \in Bridges :
        (bridge[b].at = "reading" /\ bridge[b].answer # 0 /\ bridge[b].ticket \in rows)
            => granted[bridge[b].ticket] # 0

\* A name is refused by a row that nothing but time takes away ...
NoInv == \A n \in no : \E r \in refused \ lapsed : asker[r] = n /\ granted[r] = 0

\* ... and a request under it gets no further than to find that row.
CallInv ==
    \A r \in Refs :
        /\ call[r] \in {"clearing", "inserting"} => r \in unrefused
        /\ call[r] = "checking" => r \in unrefused \/ asker[r] \in no

\* The tickets were held before, and no request begins.
LEMMA TicketSame ==
    ASSUME TicketInv,
           \A b \in Bridges : {bridge'[b].ticket, bridge'[b].savedTicket}
               \subseteq {bridge[b].ticket, bridge[b].savedTicket, 0},
           \A t \in Refs : call[t] = "none" => call'[t] = "none",
           \A b \in Bridges : {bridge[b].ticket, bridge[b].savedTicket} \subseteq Refs \cup {0}
    PROVE  TicketInv'
BY DEF TicketInv

\* The rows that refuse a name stay as they are.
LEMMA NoSame ==
    ASSUME NoInv, no' \subseteq no,
           \A r \in refused \ lapsed : (granted[r] = 0 /\ asker[r] \in no')
               => /\ r \in refused' \ lapsed'
                  /\ asker'[r] = asker[r] /\ granted'[r] = 0
    PROVE  NoInv'
<1> SUFFICES ASSUME NEW n \in no' PROVE \E r \in refused' \ lapsed' : asker'[r] = n /\ granted'[r] = 0
  BY DEF NoInv
<1>1. PICK r \in refused \ lapsed : asker[r] = n /\ granted[r] = 0
  BY DEF NoInv
<1> QED BY <1>1

\* No request goes further than before.
LEMMA CallSame ==
    ASSUME CallInv, unrefused \subseteq unrefused',
           \A r \in Refs : call'[r] \in {"checking", "clearing", "inserting"}
               => call'[r] = call[r] /\ asker'[r] = asker[r],
           \A r \in Refs : (call[r] = "checking" /\ asker[r] \in no)
               => r \in unrefused' \/ asker[r] \in no'
    PROVE  CallInv'
<1> SUFFICES ASSUME NEW r \in Refs
             PROVE  /\ call'[r] \in {"clearing", "inserting"} => r \in unrefused'
                    /\ call'[r] = "checking" => r \in unrefused' \/ asker'[r] \in no'
  BY DEF CallInv
<1>1. call'[r] \in {"clearing", "inserting"} => r \in unrefused'
  BY DEF CallInv
<1>2. call'[r] = "checking" => r \in unrefused' \/ asker'[r] \in no'
  BY DEF CallInv
<1> QED BY <1>1, <1>2

LEMMA TicketType ==
    ASSUME Sound, NEW b \in Bridges
    PROVE  /\ bridge[b] \in BridgeType
           /\ {bridge[b].ticket, bridge[b].savedTicket} \subseteq Refs \cup {0}
<1>1. bridge[b] \in BridgeType
  BY Types DEF Sound
<1>2. 0..MaxRef = Refs \cup {0}
  BY DEF Refs
<1>3. bridge[b].ticket \in 0..MaxRef /\ bridge[b].savedTicket \in 0..MaxRef
  BY <1>1 DEF BridgeType
<1> QED BY <1>1, <1>2, <1>3

LEMMA StrangerType == [Idle EXCEPT !.at = "down"] \in BridgeType
BY IdleType DEF BridgeType

\* A ticket is one that was answered, whatever the bridge does with it.
LEMMA TicketStep ==
    ASSUME Sound, TicketInv, [Next]_vars
    PROVE  TicketInv'
<1>t. /\ call \in [Refs -> Stages] /\ bridge \in [Bridges -> BridgeType]
      /\ \A b \in Bridges : {bridge[b].ticket, bridge[b].savedTicket} \subseteq Refs \cup {0}
  BY Types, TicketType DEF Sound
<1>b. ASSUME NEW b \in Bridges, NEW p \in BridgeType, bridge' = [bridge EXCEPT ![b] = p],
             {p.ticket, p.savedTicket} \subseteq {bridge[b].ticket, bridge[b].savedTicket, 0}
      PROVE  \A c \in Bridges : {bridge'[c].ticket, bridge'[c].savedTicket}
                 \subseteq {bridge[c].ticket, bridge[c].savedTicket, 0}
  <2> TAKE c \in Bridges
  <2>1. CASE c = b
    BY <1>t, <1>b, <2>1
  <2>2. CASE c # b
    BY <1>t, <1>b, <2>2
  <2> QED BY <2>1, <2>2
<1>1. ASSUME NEW b \in Bridges, Begin(b) PROVE TicketInv'
  <2> DEFINE f == CHOOSE r \in Free : \A q \in Free : r <= q
  <2>1. f \in Free
    <3>1. Free \in SUBSET Refs /\ Free # {}
      BY <1>1 DEF Begin, Free
    <3> QED BY <3>1, FirstOf
  <2>2. call' = [call EXCEPT ![f] = "checking"]
        /\ bridge' = [bridge EXCEPT ![b].at = "posting", ![b].asked = f]
    BY <1>1, Zenon DEF Begin
  <2> HIDE DEF f
  <2>3. \A c \in Bridges : f \notin {bridge[c].ticket, bridge[c].savedTicket}
    BY <2>1 DEF Free, Held
  <2>4. \A c \in Bridges : /\ bridge'[c].ticket = bridge[c].ticket
                           /\ bridge'[c].savedTicket = bridge[c].savedTicket
    BY <1>t, <2>2 DEF BridgeType
  <2>5. \A t \in Refs : t # f => call'[t] = call[t]
    BY <1>t, <2>2
  <2> QED BY <1>t, <2>3, <2>4, <2>5 DEF TicketInv
<1>2. ASSUME NEW b \in Bridges, Reply(b) PROVE TicketInv'
  <2> DEFINE r == bridge[b].asked
             p == [bridge[b] EXCEPT !.at = "polling", !.asked = 0, !.ticket = r, !.savedTicket = r]
  <2>1. call' = [call EXCEPT ![r] = "none"] /\ bridge' = [bridge EXCEPT ![b] = p]
    BY <1>2, Zenon DEF Reply
  <2>2. p.ticket = r /\ p.savedTicket = r /\ r \in 0..MaxRef
    BY <1>t DEF BridgeType
  <2>3. \A t \in Refs : call'[t] = IF t = r THEN "none" ELSE call[t]
    BY <1>t, <2>1
  <2>4. \A c \in Bridges : bridge'[c] = IF c = b THEN p ELSE bridge[c]
    BY <1>t, <2>1
  <2>5. r # 0 => r \in Refs
    BY <2>2 DEF Refs
  <2> HIDE DEF r, p
  <2> SUFFICES ASSUME NEW c \in Bridges,
                      NEW t \in {bridge'[c].ticket, bridge'[c].savedTicket}, t # 0
               PROVE  call'[t] = "none"
    BY DEF TicketInv
  <2>6. CASE c = b
    BY <2>2, <2>3, <2>4, <2>5, <2>6
  <2>7. CASE c # b
    <3>1. t \in {bridge[c].ticket, bridge[c].savedTicket} /\ t \in Refs
      BY <1>t, <2>4, <2>7
    <3>2. call[t] = "none"
      BY <3>1 DEF TicketInv
    <3> QED BY <2>3, <3>1, <3>2
  <2> QED BY <2>6, <2>7
<1>3. ASSUME NEW b \in Bridges, Step(b), ~ Begin(b), ~ Reply(b) PROVE TicketInv'
  <2> DEFINE p == bridge[b]
  <2>1. \A t \in Refs : call[t] = "none" => call'[t] = "none"
    BY <1>3, <1>t DEF Step, Poll, Ask, AnswerGone, AnswerPending, Collect, Told, Unanswered, Start, To
  <2>2. p \in BridgeType
    BY <1>t
  <2>3. ASSUME NEW q \in BridgeType, bridge' = [bridge EXCEPT ![b] = q],
               {q.ticket, q.savedTicket} \subseteq {p.ticket, p.savedTicket, 0}
        PROVE  TicketInv'
    BY <1>b, <1>t, <2>1, <2>3, TicketSame
  <2> HIDE DEF p
  <2>4. CASE Poll(b)
    <3>1. bridge' = [bridge EXCEPT ![b] = [p EXCEPT !.at = "enrolling"]]
      BY <2>4 DEF Poll, To, p
    <3>2. [p EXCEPT !.at = "enrolling"] \in BridgeType
      BY <2>2 DEF BridgeType
    <3>3. {[p EXCEPT !.at = "enrolling"].ticket, [p EXCEPT !.at = "enrolling"].savedTicket}
            \subseteq {p.ticket, p.savedTicket, 0}
      BY <2>2 DEF BridgeType
    <3> QED BY <2>3, <3>1, <3>2, <3>3
  <2>5. CASE Ask(b)
    <3> DEFINE i == p.ticket \in rows
               w == IF p.ticket \in rows THEN granted[p.ticket] ELSE 0
               j == p.ticket \in refused
               q == [p EXCEPT !.at = "reading", !.found = i, !.answer = w, !.refusal = j]
    <3>1. bridge' = [bridge EXCEPT ![b] = q]
      BY <2>5, Zenon DEF Ask, To, p
    <3>2. i \in BOOLEAN /\ j \in BOOLEAN /\ w \in 0..MaxId
      <4>1. 0 \in 0..MaxId /\ TableType
        BY Types DEF Sound
      <4>2. p.ticket \in rows => granted[p.ticket] \in 0..MaxId
        BY <4>1 DEF TableType
      <4>3. w \in 0..MaxId
        BY <4>1, <4>2
      <4>4. i \in BOOLEAN /\ j \in BOOLEAN
        OBVIOUS
      <4> QED BY <4>3, <4>4
    <3> HIDE DEF i, w, j
    <3>3. q \in BridgeType /\ q.ticket = p.ticket /\ q.savedTicket = p.savedTicket
      BY <2>2, <3>2 DEF BridgeType
    <3> HIDE DEF q
    <3> QED BY <2>3, <3>1, <3>3
  <2>6. CASE AnswerGone(b)
    <3>1. bridge' = [bridge EXCEPT ![b] = AskAfresh(p)]
      BY <2>6 DEF AnswerGone, p
    <3>2. AskAfresh(p).ticket = 0 /\ AskAfresh(p).savedTicket = p.savedTicket
      BY <2>2 DEF BridgeType, AskAfresh
    <3> QED BY <2>2, <2>3, <3>1, <3>2, AfreshType
  <2>7. CASE AnswerPending(b)
    <3>1. bridge' = [bridge EXCEPT ![b] = [p EXCEPT !.at = "polling"]]
      BY <2>7 DEF AnswerPending, To, p
    <3>2. [p EXCEPT !.at = "polling"] \in BridgeType
      BY <2>2 DEF BridgeType
    <3>3. {[p EXCEPT !.at = "polling"].ticket, [p EXCEPT !.at = "polling"].savedTicket}
            \subseteq {p.ticket, p.savedTicket, 0}
      BY <2>2 DEF BridgeType
    <3> QED BY <2>3, <3>1, <3>2, <3>3
  <2>8. CASE Collect(b)
    <3> DEFINE q == [Idle EXCEPT !.id = p.answer, !.savedId = p.answer]
    <3>1. bridge' = [bridge EXCEPT ![b] = q]
      BY <2>8 DEF Collect, To, p
    <3>2. q \in BridgeType
      <4>1. p.answer \in 0..MaxId
        BY <2>2 DEF BridgeType
      <4> QED BY <4>1, IdleType DEF BridgeType
    <3>3. q.ticket = 0 /\ q.savedTicket = 0
      BY DEF Idle
    <3> HIDE DEF q
    <3> QED BY <2>3, <3>1, <3>2, <3>3
  <2>9. CASE Told(b) \/ Unanswered(b)
    <3>1. bridge' = [bridge EXCEPT ![b] = Down(p)]
      BY <2>9 DEF Told, Unanswered, To, p
    <3>2. Down(p).ticket = p.savedTicket /\ Down(p).savedTicket = p.savedTicket
      BY DEF Down, Restarted, Idle
    <3> QED BY <2>2, <2>3, <3>1, <3>2, DownType
  <2>10. CASE Start(b)
    <3>1. bridge' = [bridge EXCEPT ![b] = Restarted(p)]
      BY <2>10 DEF Start, To, p
    <3>2. Restarted(p).ticket = p.savedTicket /\ Restarted(p).savedTicket = p.savedTicket
      BY DEF Restarted, Idle
    <3> QED BY <2>2, <2>3, <3>1, <3>2, DownType
  <2> QED BY <1>3, <2>4, <2>5, <2>6, <2>7, <2>8, <2>9, <2>10 DEF Step
<1>4. ASSUME UNCHANGED bridge, \A t \in Refs : call[t] = "none" => call'[t] = "none"
      PROVE  TicketInv'
  BY <1>t, <1>4, TicketSame
<1>5. ASSUME NEW r \in Refs, Serve(r) PROVE TicketInv'
  <2>1. UNCHANGED bridge /\ \A t \in Refs : call[t] = "none" => call'[t] = "none"
    BY <1>5, <1>t DEF Serve, Check, Clear, Insert, Expire, Dropped, Goes
  <2> QED BY <1>4, <2>1
<1>6. CASE Console \/ UNCHANGED vars
  <2>1. UNCHANGED <<bridge, call>>
    BY <1>6 DEF Console, Approve, AddWorker, Grant, Reject, Remove, Reissue, vars
  <2> QED BY <1>4, <2>1
<1>7. CASE Age \/ Restart
  <2>1. UNCHANGED bridge /\ \A t \in Refs : call[t] = "none" => call'[t] = "none"
    BY <1>7, <1>t DEF Age, Restart
  <2> QED BY <1>4, <2>1
<1>8. ASSUME NEW b \in Bridges, Crash(b) \/ Redeploy(b) \/ AnswerOther(b) PROVE TicketInv'
  <2> DEFINE p == bridge[b]
             q == [Idle EXCEPT !.at = "down"]
  <2>1. p \in BridgeType /\ UNCHANGED call
    BY <1>8, <1>t DEF Crash, Redeploy, AnswerOther
  <2>2. bridge' \in {[bridge EXCEPT ![b] = Down(p)], [bridge EXCEPT ![b] = AskAfresh(p)],
                    [bridge EXCEPT ![b] = q]}
    BY <1>8 DEF Crash, Redeploy, AnswerOther
  <2>3. /\ Down(p).ticket = p.savedTicket /\ Down(p).savedTicket = p.savedTicket
        /\ AskAfresh(p).ticket = 0 /\ AskAfresh(p).savedTicket = p.savedTicket
        /\ q.ticket = 0 /\ q.savedTicket = 0
    BY <2>1 DEF Down, Restarted, Idle, AskAfresh, BridgeType
  <2>4. q \in BridgeType /\ Down(p) \in BridgeType /\ AskAfresh(p) \in BridgeType
    <3>1. q \in BridgeType
      BY StrangerType
    <3> QED BY <2>1, <3>1, DownType, AfreshType
  <2> HIDE DEF p, q
  <2>5. PICK n \in {Down(p), AskAfresh(p), q} : bridge' = [bridge EXCEPT ![b] = n]
    BY <2>2
  <2>6. n \in BridgeType /\ {n.ticket, n.savedTicket} \subseteq {p.ticket, p.savedTicket, 0}
    BY <2>3, <2>4
  <2> QED BY <1>b, <1>t, <2>1, <2>5, <2>6, TicketSame DEF p
<1> QED BY <1>1, <1>2, <1>3, <1>5, <1>6, <1>7, <1>8 DEF Next, Trouble

\* What was read stays granted while its row is there.
LEMMA AnswerSame ==
    ASSUME AnswerInv, \A b \in Bridges : bridge'[b] = bridge[b] \/ bridge'[b].at # "reading",
           \A b \in Bridges : (bridge[b].ticket \in rows' /\ bridge[b].at = "reading")
               => bridge[b].ticket \in rows,
           \A r \in rows \cap rows' : granted[r] # 0 => granted'[r] # 0
    PROVE  AnswerInv'
BY DEF AnswerInv

LEMMA AnswerStep ==
    ASSUME Sound, TicketInv, AnswerInv, [Next]_vars
    PROVE  AnswerInv'
<1>t. /\ TableType /\ call \in [Refs -> Stages] /\ bridge \in [Bridges -> BridgeType]
  BY Types DEF Sound
<1>k. ASSUME NEW S \in SUBSET rows, Keep(S)
      PROVE  /\ rows' \subseteq rows
             /\ \A r \in rows \cap rows' : granted[r] # 0 => granted'[r] # 0
  BY <1>k, KeepFewer
<1>1. ASSUME NEW b \in Bridges, Ask(b) PROVE AnswerInv'
  <2> DEFINE t == bridge[b].ticket
             q == [bridge[b] EXCEPT !.at = "reading", !.found = t \in rows,
                      !.answer = IF t \in rows THEN granted[t] ELSE 0, !.refusal = t \in refused]
  <2>1. bridge' = [bridge EXCEPT ![b] = q] /\ UNCHANGED <<rows, granted>>
    BY <1>1, Zenon DEF Ask, To, table
  <2>2. bridge[b] \in BridgeType
    BY <1>t
  <2>3. q.ticket = t /\ q.answer = IF t \in rows THEN granted[t] ELSE 0
    BY <2>2 DEF BridgeType
  <2> HIDE DEF t, q
  <2>4. \A c \in Bridges : bridge'[c] = IF c = b THEN q ELSE bridge[c]
    BY <1>t, <2>1
  <2> QED BY <2>1, <2>3, <2>4 DEF AnswerInv
<1>2. ASSUME NEW b \in Bridges, AnswerGone(b) PROVE AnswerInv'
  <2>1. PICK S \in SUBSET rows : Keep(S)
    <3>1. (IF Dead(bridge[b]) THEN rows \ {bridge[b].ticket} ELSE rows) \in SUBSET rows
      OBVIOUS
    <3> QED BY <1>2, <3>1, Zenon DEF AnswerGone
  <2>2. bridge' = [bridge EXCEPT ![b] = AskAfresh(bridge[b])]
    BY <1>2 DEF AnswerGone
  <2>3. AskAfresh(bridge[b]).at # "reading"
    BY <1>t DEF AskAfresh, BridgeType
  <2>4. \A c \in Bridges : bridge'[c] = bridge[c] \/ bridge'[c].at # "reading"
    BY <1>t, <2>2, <2>3
  <2> QED BY <1>k, <2>1, <2>4, AnswerSame
<1>3. ASSUME NEW b \in Bridges, Step(b), ~ Ask(b), ~ AnswerGone(b) PROVE AnswerInv'
  <2>1. UNCHANGED <<rows, granted>>
    BY <1>3 DEF Step, Poll, AnswerPending, Collect, Told, Begin, Reply, Unanswered, Start, To, table
  <2>2. \A c \in Bridges \ {b} : bridge'[c] = bridge[c]
    BY <1>3, <1>t DEF Step, Poll, AnswerPending, Collect, Told, Begin, Reply, Unanswered, Start, To
  <2>3. bridge'[b].at # "reading"
    <3>1. bridge[b] \in BridgeType
      BY <1>t
    <3>2. Idle.at # "reading" /\ Down(bridge[b]).at # "reading" /\ Restarted(bridge[b]).at # "reading"
      BY <3>1, DownType DEF Idle, Down, Restarted, BridgeType
    <3>3. CASE Poll(b)
      BY <1>t, <3>1, <3>3 DEF Poll, To, BridgeType
    <3>4. CASE AnswerPending(b)
      BY <1>t, <3>1, <3>4 DEF AnswerPending, To, BridgeType
    <3>5. CASE Collect(b)
      BY <1>t, <3>1, <3>5 DEF Collect, To, Idle
    <3>6. CASE Told(b) \/ Unanswered(b)
      BY <1>t, <3>2, <3>6 DEF Told, Unanswered, To
    <3>7. CASE Begin(b)
      <4>1. bridge' = [bridge EXCEPT ![b].at = "posting",
                          ![b].asked = CHOOSE r \in Free : \A q \in Free : r <= q]
        BY <3>7, Zenon DEF Begin
      <4> QED BY <1>t, <3>1, <4>1 DEF BridgeType
    <3>8. CASE Reply(b)
      BY <1>t, <3>1, <3>8 DEF Reply, BridgeType
    <3>9. CASE Start(b)
      BY <1>t, <3>2, <3>9 DEF Start, To
    <3> QED BY <1>3, <3>3, <3>4, <3>5, <3>6, <3>7, <3>8, <3>9 DEF Step
  <2> QED BY <2>1, <2>2, <2>3, AnswerSame
<1>4. ASSUME NEW r \in Refs, Serve(r), ~ Insert(r) PROVE AnswerInv'
  <2>1. UNCHANGED bridge /\ (UNCHANGED <<rows, granted>> \/ \E S \in SUBSET rows : Keep(S))
    BY <1>4 DEF Serve, Check, Clear, Expire, Dropped, table
  <2> QED BY <1>k, <2>1, AnswerSame
<1>5. ASSUME NEW r \in Refs, Insert(r) PROVE AnswerInv'
  <2>1. call[r] = "inserting" /\ rows' = rows \cup {r} /\ UNCHANGED <<bridge, granted>>
    BY <1>5 DEF Insert, Goes
  <2>2. \A b \in Bridges : bridge[b].ticket # r
    <3> SUFFICES ASSUME NEW b \in Bridges, bridge[b].ticket = r PROVE FALSE
      OBVIOUS
    <3>1. r # 0
      BY DEF Refs
    <3> QED BY <2>1, <3>1 DEF TicketInv
  <2> QED BY <2>1, <2>2, AnswerSame
<1>6. ASSUME NEW a \in Admins, Grant(a) PROVE AnswerInv'
  <2>1. UNCHANGED <<bridge, rows>> /\ \A r \in rows : granted[r] # 0 => granted'[r] # 0
    BY <1>6, <1>t DEF Grant, TableType
  <2> QED BY <2>1, AnswerSame
<1>7. ASSUME Console, ~ \E a \in Admins : Grant(a) PROVE AnswerInv'
  <2>1. UNCHANGED <<bridge, rows, granted>>
    BY <1>7 DEF Console, Approve, AddWorker, Reject, Remove, Reissue, table
  <2> QED BY <2>1, AnswerSame
<1>8. CASE Age \/ Restart \/ UNCHANGED vars
  <2>1. UNCHANGED <<bridge, rows, granted>>
    BY <1>8 DEF Age, Restart, vars, table
  <2> QED BY <2>1, AnswerSame
<1>9. ASSUME NEW b \in Bridges, Crash(b) \/ Redeploy(b) \/ AnswerOther(b) PROVE AnswerInv'
  <2>1. UNCHANGED <<rows, granted>>
    BY <1>9 DEF Crash, Redeploy, AnswerOther, table
  <2>2. bridge[b] \in BridgeType
    BY <1>t
  <2>3. Down(bridge[b]).at # "reading" /\ AskAfresh(bridge[b]).at # "reading"
        /\ [Idle EXCEPT !.at = "down"].at # "reading"
    BY <2>2, DownType DEF Idle, Down, AskAfresh, BridgeType
  <2>4. \A c \in Bridges : bridge'[c] = bridge[c] \/ bridge'[c].at # "reading"
    BY <1>9, <1>t, <2>3 DEF Crash, Redeploy, AnswerOther
  <2> QED BY <2>1, <2>4, AnswerSame
<1> QED BY <1>1, <1>2, <1>3, <1>4, <1>5, <1>6, <1>7, <1>8, <1>9 DEF Next, Trouble

RefusedInv == TicketInv /\ AnswerInv /\ NoInv /\ CallInv

\* A refused name stays refused until it is granted or its day is over, and
\* what asks under it meanwhile does not pass the first look.
LEMMA NoStep ==
    ASSUME Sound, RefusedInv, [Next]_vars
    PROVE  NoInv' /\ CallInv'
<1>t. /\ TableType /\ HistType /\ call \in [Refs -> Stages] /\ NoInv /\ CallInv /\ AnswerInv
  BY Types DEF Sound, RefusedInv
<1>r. refused \subseteq rows /\ rows \subseteq Refs /\ lapsed \subseteq refused
  BY <1>t DEF TableType
\* Rows are left out, but none that refuses a name.
<1>k. ASSUME NEW S \in SUBSET rows, Keep(S), UNCHANGED no,
             \A r \in refused : granted[r] = 0 => r \in S
      PROVE  NoInv' /\ \A q \in Refs : call[q] # "none" => asker'[q] = asker[q]
  <2>1. \A r \in refused \ lapsed : granted[r] = 0 =>
            r \in refused' \ lapsed' /\ asker'[r] = asker[r] /\ granted'[r] = 0
    BY <1>k, KeepFewer
  <2> QED BY <1>t, <1>k, <2>1, KeepFewer, NoSame
\* The table, the requests and who is refused stay as they are.
<1>s. ASSUME UNCHANGED <<asker, granted, refused, lapsed, no, unrefused>>,
             \A r \in Refs : call'[r] \in {"checking", "clearing", "inserting"} => call'[r] = call[r]
      PROVE  NoInv' /\ CallInv'
  BY <1>t, <1>s, NoSame, CallSame
<1>1. ASSUME NEW b \in Bridges, AnswerGone(b) PROVE NoInv' /\ CallInv'
  <2> DEFINE t == bridge[b].ticket
             S == IF Dead(bridge[b]) THEN rows \ {t} ELSE rows
  <2>1. S \in SUBSET rows /\ Keep(S) /\ UNCHANGED <<call, no, unrefused>>
    BY <1>1, Zenon DEF AnswerGone, hist
  <2>2. \A r \in refused : granted[r] = 0 => r \in S
    <3>1. (Dead(bridge[b]) /\ t \in rows) => granted[t] # 0
      BY <1>1, <1>t DEF AnswerGone, Dead, AnswerInv
    <3> QED BY <1>r, <3>1
  <2> HIDE DEF S
  <2>3. NoInv' /\ \A q \in Refs : call[q] # "none" => asker'[q] = asker[q]
    BY <1>k, <2>1, <2>2
  <2>4. CallInv'
    BY <1>t, <2>1, <2>3, CallSame
  <2> QED BY <2>3, <2>4
<1>2. ASSUME NEW b \in Bridges, Begin(b) PROVE NoInv' /\ CallInv'
  <2> DEFINE f == CHOOSE r \in Free : \A q \in Free : r <= q
             n == Name[b]
  <2>1. f \in Refs /\ f \notin rows
    <3>1. Free \in SUBSET Refs /\ Free # {}
      BY <1>2 DEF Begin, Free
    <3>2. f \in Free
      BY <3>1, FirstOf
    <3> HIDE DEF f
    <3> QED BY <3>1, <3>2 DEF Free, Held
  <2>2. /\ call' = [call EXCEPT ![f] = "checking"] /\ asker' = [asker EXCEPT ![f] = n]
        /\ unrefused' = IF n \in no THEN unrefused \ {f} ELSE unrefused \cup {f}
        /\ UNCHANGED <<rows, granted, refused, lapsed, no>>
    BY <1>2, Zenon DEF Begin
  <2> HIDE DEF f
  <2>3. \A q \in Refs \ {f} : call'[q] = call[q] /\ asker'[q] = asker[q]
    BY <1>t, <2>2 DEF TableType
  <2>4. call'[f] = "checking" /\ asker'[f] = n
    BY <1>t, <2>1, <2>2 DEF TableType
  <2>5. NoInv'
    <3>1. \A r \in refused : r \in Refs \ {f}
      BY <1>r, <2>1
    <3> QED BY <1>t, <2>2, <2>3, <3>1, NoSame
  <2>6. CallInv'
    <3> SUFFICES ASSUME NEW r \in Refs
                 PROVE  /\ call'[r] \in {"clearing", "inserting"} => r \in unrefused'
                        /\ call'[r] = "checking" => r \in unrefused' \/ asker'[r] \in no'
      BY DEF CallInv
    <3>1. CASE r = f
      BY <2>2, <2>4, <3>1
    <3>2. CASE r # f
      <4>1. call'[r] = call[r] /\ asker'[r] = asker[r] /\ (r \in unrefused <=> r \in unrefused')
        BY <2>2, <2>3, <3>2
      <4> QED BY <1>t, <2>2, <4>1 DEF CallInv
    <3> QED BY <3>1, <3>2
  <2> QED BY <2>5, <2>6
<1>3. ASSUME NEW b \in Bridges, Step(b), ~ AnswerGone(b), ~ Begin(b) PROVE NoInv' /\ CallInv'
  <2>1. UNCHANGED <<table, no, unrefused>>
    BY <1>3 DEF Step, Poll, Ask, AnswerPending, Collect, Told, Reply, Unanswered, Start, To, hist
  <2>2. \A r \in Refs : call'[r] \in {"checking", "clearing", "inserting"} => call'[r] = call[r]
    BY <1>3, <1>t DEF Step, Poll, Ask, AnswerPending, Collect, Told, Reply, Unanswered, Start, To
  <2> QED BY <1>s, <2>1, <2>2 DEF table
<1>4. ASSUME NEW r \in Refs, Check(r) PROVE NoInv' /\ CallInv'
  <2>1. UNCHANGED <<table, no, unrefused>> /\ call[r] = "checking"
    BY <1>4 DEF Check, Goes, hist
  <2>2. \A q \in Refs : call'[q] = IF q = r THEN IF Stands(asker[r]) THEN "refused" ELSE "clearing"
                                   ELSE call[q]
    BY <1>4, <1>t DEF Check, Goes
  <2>3. NoInv'
    BY <1>t, <2>1, NoSame DEF table
  <2>4. asker[r] \in no => Stands(asker[r])
    BY <1>t DEF NoInv, Stands
  <2> SUFFICES ASSUME NEW q \in Refs
               PROVE  /\ call'[q] \in {"clearing", "inserting"} => q \in unrefused'
                      /\ call'[q] = "checking" => q \in unrefused' \/ asker'[q] \in no'
    BY <2>3 DEF CallInv
  <2>5. CASE q = r
    BY <1>t, <2>1, <2>2, <2>4, <2>5 DEF CallInv
  <2>6. CASE q # r
    BY <1>t, <2>1, <2>2, <2>6 DEF CallInv, table
  <2> QED BY <2>5, <2>6
<1>5. ASSUME NEW r \in Refs, Clear(r) PROVE NoInv' /\ CallInv'
  <2>1. /\ call[r] = "clearing" /\ Keep(rows \ Pending(asker[r])) /\ UNCHANGED <<no, unrefused>>
        /\ call' = [call EXCEPT ![r] = "inserting"]
    BY <1>5 DEF Clear, Goes, Cleared, hist
  <2>2. \A q \in refused : q \in rows \ Pending(asker[r])
    BY <1>r DEF Pending, Waiting
  <2>3. NoInv' /\ \A q \in Refs : call[q] # "none" => asker'[q] = asker[q]
    <3> DEFINE S == rows \ Pending(asker[r])
    <3>1. S \in SUBSET rows /\ Keep(S) /\ \A q \in refused : q \in S
      BY <2>1, <2>2
    <3> HIDE DEF S
    <3> QED BY <1>k, <2>1, <3>1
  <2>4. \A q \in Refs : call'[q] = IF q = r THEN "inserting" ELSE call[q]
    BY <1>t, <2>1
  <2> SUFFICES ASSUME NEW q \in Refs
               PROVE  /\ call'[q] \in {"clearing", "inserting"} => q \in unrefused'
                      /\ call'[q] = "checking" => q \in unrefused' \/ asker'[q] \in no'
    BY <2>3 DEF CallInv
  <2>5. CASE q = r
    BY <1>t, <2>1, <2>4, <2>5 DEF CallInv
  <2>6. CASE q # r
    BY <1>t, <2>1, <2>3, <2>4, <2>6 DEF CallInv
  <2> QED BY <2>5, <2>6
<1>6. ASSUME NEW r \in Refs, Insert(r) PROVE NoInv' /\ CallInv'
  <2>1. /\ UNCHANGED <<asker, granted, refused, lapsed, no>> /\ unrefused' = unrefused \ {r}
    BY <1>6 DEF Insert
  <2>2. \A q \in Refs : call'[q] = IF q = r THEN "expiring" ELSE call[q]
    BY <1>6, <1>t DEF Insert, Goes
  <2>3. NoInv'
    BY <1>t, <2>1, NoSame
  <2>4. CallInv'
    BY <1>t, <2>1, <2>2 DEF CallInv
  <2> QED BY <2>3, <2>4
<1>7. ASSUME NEW r \in Refs, Expire(r) PROVE NoInv' /\ CallInv'
  <2> DEFINE S == {q \in rows : granted[q] = 0 \/ q \notin aged}
  <2>1. S \in SUBSET rows /\ Keep(S) /\ UNCHANGED <<no, unrefused>>
        /\ \A q \in refused : granted[q] = 0 => q \in S
    BY <1>7, <1>r DEF Expire, hist
  <2>2. \A q \in Refs : call'[q] = IF q = r THEN "done" ELSE call[q]
    BY <1>7, <1>t DEF Expire, Goes
  <2> HIDE DEF S
  <2>3. NoInv' /\ \A q \in Refs : call[q] # "none" => asker'[q] = asker[q]
    BY <1>k, <2>1
  <2>4. CallInv'
    BY <1>t, <2>1, <2>2, <2>3, CallSame
  <2> QED BY <2>3, <2>4
<1>8. ASSUME NEW r \in Refs, Dropped(r) PROVE NoInv' /\ CallInv'
  <2>1. UNCHANGED <<table, no, unrefused>>
    BY <1>8 DEF Dropped, hist
  <2>2. \A q \in Refs : call'[q] \in {"checking", "clearing", "inserting"} => call'[q] = call[q]
    BY <1>8, <1>t DEF Dropped
  <2> QED BY <1>s, <2>1, <2>2 DEF table
<1>9. ASSUME NEW names, NotRefused(names), names \subseteq no, UNCHANGED <<asker, call>>,
             \A r \in refused \ lapsed : (granted[r] = 0 /\ asker[r] \in names)
                 => r \in refused' \ lapsed' /\ granted'[r] = 0
      PROVE  NoInv' /\ CallInv'
  <2>1. NoInv'
    BY <1>t, <1>9, NoSame DEF NotRefused
  <2>2. \A r \in Refs : (call[r] = "checking" /\ asker[r] \in no)
            => r \in unrefused' \/ asker[r] \in no'
    BY <1>9 DEF NotRefused, InFlight
  <2>3. CallInv'
    BY <1>t, <1>9, <2>2, CallSame DEF NotRefused
  <2> QED BY <2>1, <2>3
<1>10. ASSUME NEW a \in Admins, Grant(a) PROVE NoInv' /\ CallInv'
  <2> DEFINE r == approval[a].ref
             names == IF r \in rows THEN no \ {asker[r]} ELSE no
  <2>1. /\ NotRefused(names) /\ UNCHANGED <<asker, call, refused, lapsed>>
        /\ granted' = IF r \in rows THEN [granted EXCEPT ![r] = approval[a].id] ELSE granted
    BY <1>10, Zenon DEF Grant
  <2>2. names \subseteq no
    OBVIOUS
  <2>3. \A q \in refused : asker[q] \in names => granted'[q] = granted[q]
    BY <1>t, <1>r, <2>1 DEF TableType
  <2> HIDE DEF names, r
  <2> QED BY <1>9, <2>1, <2>2, <2>3
<1>11. ASSUME NEW r \in Refs, Reject(r) PROVE NoInv' /\ CallInv'
  <2>1. /\ r \in rows \ refused /\ refused' = refused \cup {r}
        /\ no' = IF granted[r] = 0 THEN no \cup {asker[r]} ELSE no
        /\ UNCHANGED <<asker, granted, lapsed, call, unrefused>>
    BY <1>11 DEF Reject
  <2>2. ASSUME NEW n \in no' PROVE \E q \in refused' \ lapsed' : asker'[q] = n /\ granted'[q] = 0
    <3>1. CASE n \in no
      <4>1. PICK q \in refused \ lapsed : asker[q] = n /\ granted[q] = 0
        BY <1>t, <3>1 DEF NoInv
      <4> QED BY <2>1, <4>1
    <3>2. CASE n \notin no
      BY <1>r, <2>1, <2>2, <3>2
    <3> QED BY <3>1, <3>2
  <2>3. CallInv'
    BY <1>t, <2>1, CallSame
  <2> QED BY <2>2, <2>3 DEF NoInv
<1>12. ASSUME Console, ~ \E a \in Admins : Grant(a), ~ \E r \in Refs : Reject(r)
       PROVE NoInv' /\ CallInv'
  <2>1. UNCHANGED <<table, call, no, unrefused>>
    BY <1>12 DEF Console, Approve, AddWorker, Remove, Reissue, hist
  <2> QED BY <1>s, <2>1 DEF table
<1>13. CASE Age
  BY <1>9, <1>13 DEF Age
<1>14. CASE Restart
  <2>1. UNCHANGED <<table, no, unrefused>>
    BY <1>14 DEF Restart, hist
  <2>2. \A q \in Refs : call'[q] \in {"checking", "clearing", "inserting"} => call'[q] = call[q]
    BY <1>14, <1>t DEF Restart
  <2> QED BY <1>s, <2>1, <2>2 DEF table
<1>15. ASSUME NEW b \in Bridges, Crash(b) \/ Redeploy(b) \/ AnswerOther(b) PROVE NoInv' /\ CallInv'
  <2>1. UNCHANGED <<table, call, no, unrefused>>
    BY <1>15 DEF Crash, Redeploy, AnswerOther, hist
  <2> QED BY <1>s, <2>1 DEF table
<1>16. CASE UNCHANGED vars
  <2>1. UNCHANGED <<table, call, no, unrefused>>
    BY <1>16 DEF vars, hist
  <2> QED BY <1>s, <2>1 DEF table
<1> QED BY <1>1, <1>2, <1>3, <1>4, <1>5, <1>6, <1>7, <1>8, <1>10, <1>11, <1>12, <1>13, <1>14, <1>15,
           <1>16 DEF Next, Serve, Trouble

\* "A refusal stands for a day": what comes to wait was, at some time since it
\* began, under a name that was not refused.
THEOREM StaysRefusedAlways == Spec => StaysRefused
<1>1. Init => RefusedInv
  <2> SUFFICES ASSUME Init PROVE RefusedInv
    OBVIOUS
  <2>1. TicketInv
    BY DEF Init, TicketInv, Idle
  <2>2. AnswerInv
    BY DEF Init, AnswerInv, Idle
  <2>3. NoInv /\ CallInv
    BY DEF Init, NoInv, CallInv
  <2> QED BY <2>1, <2>2, <2>3 DEF RefusedInv
<1>2. Sound /\ RefusedInv /\ [Next]_vars => RefusedInv'
  BY TicketStep, AnswerStep, NoStep DEF RefusedInv
<1>3. Sound /\ RefusedInv /\ [Next]_vars => [\A r \in rows' \ rows : r \in unrefused]_vars
  <2> SUFFICES ASSUME Sound, RefusedInv, Next PROVE \A r \in rows' \ rows : r \in unrefused
    OBVIOUS
  <2>k. ASSUME NEW S \in SUBSET rows, Keep(S) PROVE rows' \subseteq rows
    BY <2>k DEF Keep
  <2>1. ASSUME NEW r \in Refs, Insert(r) PROVE \A q \in rows' \ rows : q \in unrefused
    BY <2>1 DEF Insert, Goes, RefusedInv, CallInv
  <2>2. ASSUME NEW b \in Bridges, Step(b) PROVE rows' \subseteq rows
    <3>1. CASE AnswerGone(b)
      <4>1. (IF Dead(bridge[b]) THEN rows \ {bridge[b].ticket} ELSE rows) \in SUBSET rows
        OBVIOUS
      <4>2. PICK S \in SUBSET rows : Keep(S)
        BY <3>1, <4>1, Zenon DEF AnswerGone
      <4> QED BY <2>k, <4>2
    <3>2. CASE ~ AnswerGone(b)
      BY <2>2, <3>2 DEF Step, Poll, Ask, AnswerPending, Collect, Told, Begin, Reply, Unanswered,
                        Start, To, table
    <3> QED BY <3>1, <3>2
  <2>3. ASSUME NEW r \in Refs, Serve(r), ~ Insert(r) PROVE rows' \subseteq rows
    <3>1. UNCHANGED rows \/ \E S \in SUBSET rows : Keep(S)
      BY <2>3 DEF Serve, Check, Clear, Expire, Dropped, table
    <3> QED BY <2>k, <3>1
  <2>4. CASE Console \/ Trouble
    BY <2>4 DEF Console, Approve, AddWorker, Grant, Reject, Remove, Reissue,
                Trouble, Age, Restart, Crash, Redeploy, AnswerOther, table
  <2> QED BY <2>1, <2>2, <2>3, <2>4 DEF Next
<1> QED BY <1>1, <1>2, <1>3, SoundAlways, PTL DEF Spec, StaysRefused
=============================================================================
