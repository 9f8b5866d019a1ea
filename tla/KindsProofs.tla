---------------------------- MODULE KindsProofs ----------------------------
(* Theorems about Kinds, for every value of its constants. *)
EXTENDS Kinds, FiniteSetTheorems, WellFoundedInduction, TLAPS

USE KindsAssumption, NoKindAssumption

(***************************************************************************)
(* The first and the last of a set of numbers.                             *)
(***************************************************************************)

LEMMA HasLeast ==
    ASSUME NEW S \in SUBSET Nat, S # {}
    PROVE  \E n \in S : \A m \in S : n <= m
<1> DEFINE R == {p \in Nat \X Nat : p[1] < p[2]}
<1>1. IsWellFoundedOn(R, Nat)
  BY NatLessThanWellFounded, Zenon DEF OpToRel
<1>2. PICK n \in S : \A m \in S : <<m, n>> \notin R
  <2> HIDE DEF R
  <2> QED BY <1>1, WFMin
<1>3. \A m \in S : n <= m
  <2> SUFFICES ASSUME NEW m \in S, ~ (n <= m) PROVE FALSE
    OBVIOUS
  <2>1. <<m, n>> \in R
    OBVIOUS
  <2> HIDE DEF R
  <2> QED BY <1>2, <2>1
<1> QED BY <1>3, Zenon

\* The number that the fewest exceed is exceeded by none.
LEMMA LargestOf ==
    ASSUME NEW S \in SUBSET Nat, IsFiniteSet(S), S # {}
    PROVE  Largest(S) \in S /\ \A m \in S : m <= Largest(S)
<1> DEFINE Above(n) == {m \in S : n < m}
           C == {Cardinality(Above(n)) : n \in S}
<1>1. \A n \in S : IsFiniteSet(Above(n)) /\ Cardinality(Above(n)) \in Nat
  BY FS_Subset, FS_CardinalityType
<1>2. PICK n \in S : \A m \in S : Cardinality(Above(n)) <= Cardinality(Above(m))
  <2>1. C \in SUBSET Nat /\ C # {}
    BY <1>1
  <2> HIDE DEF C
  <2>2. PICK c \in C : \A d \in C : c <= d
    BY <2>1, HasLeast
  <2> HIDE DEF Above
  <2>3. \A m \in S : Cardinality(Above(m)) \in C
    BY DEF C
  <2>4. PICK n \in S : c = Cardinality(Above(n))
    BY <2>2 DEF C
  <2> QED BY <2>2, <2>3, <2>4
<1>3. \A m \in S : m <= n
  <2> SUFFICES ASSUME NEW m \in S, n < m PROVE FALSE
    OBVIOUS
  <2>1. Above(m) \subseteq Above(n) /\ m \in Above(n) /\ m \notin Above(m)
    <3>1. \A k \in S : m < k => n < k
      OBVIOUS
    <3>2. ~ (m < m)
      OBVIOUS
    <3> QED BY <3>1, <3>2
  <2>2. Above(m) # Above(n)
    BY <2>1, Zenon
  <2>3. Cardinality(Above(m)) < Cardinality(Above(n))
    <3> HIDE DEF Above
    <3> QED BY <1>1, <2>1, <2>2, FS_Subset
  <2> HIDE DEF Above
  <2>4. Cardinality(Above(n)) <= Cardinality(Above(m))
    BY <1>2
  <2>5. Cardinality(Above(n)) \in Nat /\ Cardinality(Above(m)) \in Nat
    BY <1>1
  <2> QED BY <2>3, <2>4, <2>5
<1> QED BY <1>3, Zenon DEF Largest

\* Who is gone through next is one of those that are left.
LEMMA ForemostOf ==
    ASSUME NEW p, p.line \in [Ids -> Nat], Left(p) # {}
    PROVE  Foremost(p) \in Left(p)
<1>1. {p.line[w] : w \in Left(p)} \in SUBSET Nat /\ {p.line[w] : w \in Left(p)} # {}
  BY DEF Left
<1>2. PICK n \in {p.line[w] : w \in Left(p)} : \A m \in {p.line[w] : w \in Left(p)} : n <= m
  BY <1>1, HasLeast
<1>3. \E w \in Left(p) : \A v \in Left(p) : p.line[w] <= p.line[v]
  BY <1>2
<1> QED BY <1>3, Zenon DEF Foremost

\* What a function says of finitely many is finite.
LEMMA FiniteImage ==
    ASSUME NEW S, IsFiniteSet(S), NEW g
    PROVE  IsFiniteSet({g[v] : v \in S})
<1> DEFINE T == {g[v] : v \in S}
           h == [v \in S |-> g[v]]
<1>1. h \in Surjection(S, T)
  BY DEF Surjection
<1> HIDE DEF h, T
<1>2. IsFiniteSet(T)
  BY <1>1, FS_Surjection
<1> QED BY <1>2 DEF T

\* The turn that a statement counts is above every turn there is.
LEMMA NextTurnOf ==
    ASSUME turn \in [Ids -> Nat], NEW w
    PROVE  NextTurn(w) \in Nat \ {0} /\ \A v \in Members : turn[v] < NextTurn(w)
<1> DEFINE S == {0} \cup {turn[v] : v \in Members}
<1>1. IsFiniteSet({turn[v] : v \in Members})
  <2>1. IsFiniteSet(Members)
    BY FS_Subset DEF Members
  <2> QED BY <2>1, FiniteImage
<1>2. IsFiniteSet({turn[v] : v \in Members} \cup {0})
  BY <1>1, FS_AddElement
<1>3. IsFiniteSet(S) /\ S \in SUBSET Nat /\ S # {}
  <2>1. S = {turn[v] : v \in Members} \cup {0}
    OBVIOUS
  <2>2. S \in SUBSET Nat /\ S # {}
    BY DEF Members
  <2> QED BY <1>2, <2>1, <2>2
<1>4. Largest(S) \in S /\ \A m \in S : m <= Largest(S)
  <2> HIDE DEF S
  <2> QED BY <1>3, LargestOf
<1>5. NextTurn(w) = Largest(S) + 1
  BY DEF NextTurn
<1>6. \A v \in Members : turn[v] \in S
  OBVIOUS
<1> HIDE DEF S
<1>7. Largest(S) \in Nat /\ Largest(S) + 1 \in Nat \ {0}
  <2>1. Largest(S) \in Nat
    BY <1>3, <1>4, Zenon
  <2> QED BY <2>1
<1>8. ASSUME NEW v \in Members PROVE turn[v] < Largest(S) + 1
  <2>1. turn[v] \in Nat /\ turn[v] <= Largest(S)
    BY <1>4, <1>6 DEF Members
  <2> QED BY <1>7, <2>1
<1> QED BY <1>5, <1>7, <1>8

\* Who joins comes after all who did before.
LEMMA JoinsLast ==
    ASSUME joined \in [Ids -> Nat], NEW w \in Ids
    PROVE  Largest({joined[v] : v \in Ids}) + 1 \in Nat \ {0}
<1> DEFINE S == {joined[v] : v \in Ids}
<1>1. IsFiniteSet(S) /\ S \in SUBSET Nat /\ S # {}
  BY FiniteImage
<1> HIDE DEF S
<1>2. Largest(S) \in Nat
  BY <1>1, LargestOf
<1> QED BY <1>2 DEF S

(***************************************************************************)
(* Types.  What a request still has to go through has a kind, so that      *)
(* there is someone whose turn it is whenever one is wanted.               *)
(***************************************************************************)

AtOne == {"turn", "give", "wipe", "wire"}

LineInv ==
    \A s \in Requests :
        /\ request[s].at = "repeats" => request[s].todo \subseteq Typed(request[s], Ids)
        /\ request[s].at \in AtOne <=> Left(request[s]) # {}
        /\ Left(request[s]) \subseteq Typed(request[s], request[s].here)

\* The two of one request.
LineOf(p) ==
    /\ p.at = "repeats" => p.todo \subseteq Typed(p, Ids)
    /\ p.at \in AtOne <=> Left(p) # {}
    /\ Left(p) \subseteq Typed(p, p.here)

Fit(p) == p \in RequestType /\ LineOf(p)
AllFit == request \in [Requests -> RequestType] /\ LineInv

TableType ==
    /\ there \subseteq Ids /\ Members \subseteq there /\ joined \in [Ids -> Nat]
    /\ kind \in [Ids -> KINDS \cup {None}] /\ repeats \in [Ids -> BOOLEAN]
    /\ turn \in [Ids -> Nat] /\ routes \subseteq Ids \X Ids /\ deaf \subseteq Ids
    /\ settled \in BOOLEAN /\ tied \subseteq Ids

Sound == TypeOK /\ LineInv

LEMMA Parts == Sound <=> TableType /\ AllFit /\ acts \in Histories
BY Zenon DEF Sound, TypeOK, TableType, AllFit

LEMMA PartsNext == Sound' <=> TableType' /\ AllFit' /\ acts' \in Histories
BY Zenon DEF Sound, TypeOK, TableType, AllFit

LEMMA FitEach == AllFit => \A s \in Requests : Fit(request[s])
BY DEF AllFit, LineInv, Fit, LineOf

\* All fit after a step if each does.
LEMMA FitAfter ==
    ASSUME NEW q, request' = q, q = [s \in Requests |-> q[s]], \A s \in Requests : Fit(q[s])
    PROVE  AllFit'
<1>1. \A s \in Requests : request'[s] = q[s]
  OBVIOUS
<1>2. \A s \in Requests : Fit(request'[s])
  BY <1>1
<1>3. request' \in [Requests -> RequestType]
  <2>1. \A s \in Requests : q[s] \in RequestType
    BY DEF Fit
  <2> QED BY <2>1, Zenon
<1>4. LineInv'
  BY <1>2 DEF Fit, LineOf, LineInv, Left, Typed
<1> QED BY <1>3, <1>4 DEF AllFit

\* Fitting is not about what a step of another touches.
LEMMA FitsOn ==
    ASSUME NEW p, Fit(p), NEW S \in SUBSET Ids
    PROVE  /\ Fit([p EXCEPT !.alone = FALSE, !.stale = @ \cup S])
           /\ Fit([p EXCEPT !.alone = FALSE])
           /\ Fit([p EXCEPT !.stale = @ \cup S])
           /\ Fit([p EXCEPT !.behind = TRUE])
           /\ Fit([p EXCEPT !.alone = FALSE, !.next = 0])
<1> USE DEF RequestType, Fit, LineOf, Left, Typed
<1>1. Fit([p EXCEPT !.alone = FALSE, !.stale = @ \cup S])
  OBVIOUS
<1>2. Fit([p EXCEPT !.alone = FALSE])
  OBVIOUS
<1>3. Fit([p EXCEPT !.stale = @ \cup S])
  OBVIOUS
<1>4. Fit([p EXCEPT !.behind = TRUE])
  OBVIOUS
<1>5. Fit([p EXCEPT !.alone = FALSE, !.next = 0])
  OBVIOUS
<1> QED BY <1>1, <1>2, <1>3, <1>4, <1>5

LEMMA IdleFit ==
    /\ Fit(Idle)
    /\ \A b \in BOOLEAN : Fit([Idle EXCEPT !.at = "kinds", !.alone = b])
    /\ \A b \in BOOLEAN, w \in Ids :
          Fit([Idle EXCEPT !.at = "leaving", !.here = {w}, !.alone = b])
<1> USE DEF Fit, LineOf, Left, Typed, Idle, RequestType, AtOne
<1>1. Fit(Idle)
  OBVIOUS
<1>2. ASSUME NEW b \in BOOLEAN PROVE Fit([Idle EXCEPT !.at = "kinds", !.alone = b])
  OBVIOUS
<1>3. ASSUME NEW b \in BOOLEAN, NEW w \in Ids
      PROVE  Fit([Idle EXCEPT !.at = "leaving", !.here = {w}, !.alone = b])
  OBVIOUS
<1> QED BY <1>1, <1>2, <1>3

LEMMA OneFit ==
    ASSUME AllFit, NEW s \in Requests, NEW p, Fit(p), request' = [request EXCEPT ![s] = p]
    PROVE  AllFit'
<1> DEFINE q == [r \in Requests |-> IF r = s THEN p ELSE request[r]]
<1>1. request' = q
  BY DEF AllFit
<1>2. \A r \in Requests : Fit(q[r])
  BY FitEach
<1>3. q = [r \in Requests |-> q[r]]
  OBVIOUS
<1> HIDE DEF q
<1> QED BY <1>1, <1>2, <1>3, FitAfter

LEMMA DisturbedFit ==
    ASSUME AllFit, NEW S \in SUBSET Ids, request' = Disturbed(S)
    PROVE  AllFit'
<1>1. \A r \in Requests : Fit(Disturbed(S)[r])
  BY FitEach, FitsOn DEF Disturbed
<1>2. Disturbed(S) = [r \in Requests |-> Disturbed(S)[r]]
  BY DEF Disturbed
<1> QED BY <1>1, <1>2, FitAfter

LEMMA OthersFit ==
    ASSUME AllFit, NEW s \in Requests
    PROVE  /\ Others(s) = [r \in Requests |-> Others(s)[r]]
           /\ \A r \in Requests : Fit(Others(s)[r])
           /\ Others(s)[s] = request[s]
<1>1. ASSUME NEW r \in Requests PROVE Fit(Others(s)[r])
  <2>1. Fit(request[r]) /\ Fit([request[r] EXCEPT !.alone = FALSE])
    BY FitEach, FitsOn
  <2>2. CASE r = s
    <3>1. [request[r] EXCEPT !.alone = @ /\ r = s] = request[r]
      BY <2>1, <2>2 DEF Fit, RequestType
    <3> QED BY <2>1, <3>1 DEF Others
  <2>3. CASE r # s
    <3>1. Others(s)[r] = [request[r] EXCEPT !.alone = request[r].alone /\ FALSE]
      BY <2>3 DEF Others
    <3>2. Others(s)[r] = [request[r] EXCEPT !.alone = FALSE]
      BY <2>1, <3>1 DEF Fit, RequestType
    <3> QED BY <2>1, <3>2
  <2> QED BY <2>2, <2>3
<1>2. Others(s)[s] = request[s]
  BY FitEach DEF Others, Fit, RequestType
<1> QED BY <1>1, <1>2 DEF Others

LEMMA OthersAfter ==
    ASSUME AllFit, NEW s \in Requests, NEW p, Fit(p),
           request' = [Others(s) EXCEPT ![s] = p]
    PROVE  AllFit'
<1> DEFINE q == [r \in Requests |-> IF r = s THEN p ELSE Others(s)[r]]
<1>1. request' = q
  BY DEF Others
<1>2. \A r \in Requests : Fit(q[r])
  BY OthersFit
<1>3. q = [r \in Requests |-> q[r]]
  OBVIOUS
<1> HIDE DEF q
<1> QED BY <1>1, <1>2, <1>3, FitAfter

LEMMA StartFit ==
    ASSUME AllFit, NEW s \in Requests, Start(s)
    PROVE  AllFit'
BY IdleFit, OthersAfter DEF Start

LEMMA FinishFit ==
    ASSUME AllFit, NEW s \in Requests, Finish(s)
    PROVE  AllFit' /\ acts' = acts /\ settled' \in BOOLEAN
<1>1. request' = [request EXCEPT ![s] = Idle] /\ acts' = acts /\ settled' = request[s].alone
  BY DEF Finish, Goes
<1>2. AllFit'
  BY <1>1, IdleFit, OneFit
<1>3. request[s].alone \in BOOLEAN
  BY FitEach DEF Fit, RequestType
<1> QED BY <1>1, <1>2, <1>3

(***************************************************************************)
(* The statements of apply_kinds.                                          *)
(***************************************************************************)

LEMMA ReadKindsSound ==
    ASSUME Sound, NEW s \in Requests, ReadKinds(s)
    PROVE  Sound'
<1> DEFINE known == [w \in Ids |-> IF w \in there THEN kind[w] ELSE None]
           typed == {w \in Ids : known[w] # None}
           p == [request[s] EXCEPT !.at = "repeats", !.kinds = known, !.todo = typed]
<1>1. TableType /\ AllFit /\ acts \in Histories
  BY Parts
<1>2. AllFit' /\ acts' = acts /\ settled' \in BOOLEAN
  <2>1. CASE Finish(s)
    BY <1>1, <2>1, FinishFit
  <2>2. CASE Goes(s, p) /\ settled' = settled
    <3>1. known \in [Ids -> KINDS \cup {None}]
      BY <1>1 DEF TableType
    <3>2. Fit(request[s])
      BY <1>1, FitEach
    <3>3. typed = Typed(p, Ids) /\ Left(p) = {}
      BY <3>2 DEF ReadKinds, Left, Typed, Fit, LineOf, RequestType, AtOne
    <3>4. p \in RequestType /\ p.at = "repeats" /\ p.todo = typed
      <4> HIDE DEF known
      <4> QED BY <3>1, <3>2 DEF Fit, RequestType
    <3>5. Fit(p)
      <4> HIDE DEF p, typed
      <4> QED BY <3>3, <3>4 DEF Fit, LineOf, AtOne
    <3> HIDE DEF p
    <3> QED BY <1>1, <2>2, <3>5, OneFit DEF Goes, TableType
  <2> QED BY <2>1, <2>2 DEF ReadKinds
<1>3. TableType'
  BY <1>1, <1>2 DEF ReadKinds, tables, TableType, Members
<1> QED BY <1>1, <1>2, <1>3, PartsNext

LEMMA SetRepeatSound ==
    ASSUME Sound, NEW s \in Requests, SetRepeat(s)
    PROVE  Sound'
<1>1. TableType /\ AllFit /\ acts \in Histories /\ Fit(request[s])
  BY Parts, FitEach
<1>2. PICK w \in request[s].todo :
        /\ repeats' = IF w \in there
                      THEN [repeats EXCEPT ![w] = request[s].kinds[w] \in Repeating] ELSE repeats
        /\ Goes(s, [request[s] EXCEPT !.todo = @ \ {w},
                          !.at = IF request[s].todo = {w} THEN "members" ELSE "repeats"])
  BY DEF SetRepeat
<1> DEFINE p == [request[s] EXCEPT !.todo = @ \ {w},
                          !.at = IF request[s].todo = {w} THEN "members" ELSE "repeats"]
<1>3. Fit(p)
  BY <1>1 DEF SetRepeat, Fit, LineOf, RequestType, Left, Typed, AtOne
<1>4. AllFit' /\ acts' = acts
  <2>1. Goes(s, p)
    BY <1>2
  <2> HIDE DEF p
  <2> QED BY <1>1, <1>3, <2>1, OneFit DEF Goes
<1>5. TableType'
  BY <1>1, <1>2 DEF SetRepeat, TableType, Members
<1> QED BY <1>1, <1>4, <1>5, PartsNext

LEMMA ReadMembersSound ==
    ASSUME Sound, NEW s \in Requests, ReadMembers(s)
    PROVE  Sound'
<1> DEFINE line == [w \in Ids |-> IF request[s].kinds[w] # None THEN joined[w] ELSE 0]
           p == [request[s] EXCEPT !.here = Members, !.line = line,
                     !.at = IF Typed(request[s], Members) = {} THEN "chat" ELSE "turn"]
<1>1. TableType /\ AllFit /\ acts \in Histories /\ Fit(request[s])
  BY Parts, FitEach
<1>2. AllFit' /\ acts' = acts /\ settled' \in BOOLEAN
  <2>1. CASE Finish(s)
    BY <1>1, <2>1, FinishFit
  <2>2. CASE Goes(s, p) /\ settled' = settled
    <3>1. line \in [Ids -> Nat]
      BY <1>1 DEF TableType
    <3>2. Left(p) = Typed(request[s], Members) /\ Typed(p, Members) = Typed(request[s], Members)
      BY <1>1 DEF Left, Typed, Members, Fit, RequestType
    <3>3. /\ p \in RequestType /\ p.here = Members
          /\ p.at = IF Typed(request[s], Members) = {} THEN "chat" ELSE "turn"
      <4> HIDE DEF line
      <4> QED BY <1>1, <3>1 DEF Fit, RequestType, Members
    <3>4. Fit(p)
      <4> HIDE DEF p
      <4> QED BY <3>2, <3>3 DEF Fit, LineOf, AtOne
    <3> HIDE DEF p
    <3> QED BY <1>1, <2>2, <3>4, OneFit DEF Goes, TableType
  <2> QED BY <2>1, <2>2 DEF ReadMembers
<1>3. TableType'
  BY <1>1, <1>2 DEF ReadMembers, tables, TableType, Members
<1> QED BY <1>1, <1>2, <1>3, PartsNext

\* What a request that gives turns or routes goes through.
LEMMA AtHandFit ==
    ASSUME NEW p, Fit(p), p.at \in AtOne
    PROVE  Foremost(p) \in Left(p) /\ Foremost(p) \in Ids /\ p.kinds[Foremost(p)] # None
BY ForemostOf DEF Fit, LineOf, RequestType, Left, Typed

\* Counting the turn, and giving it, leave the line as it is.
LEMMA StaysFit ==
    ASSUME NEW p, Fit(p), p.at \in AtOne, NEW at \in AtOne, NEW n \in Nat, NEW b \in BOOLEAN
    PROVE  Fit([p EXCEPT !.at = at, !.next = n, !.behind = b])
BY DEF Fit, LineOf, RequestType, Left, Typed, AtOne

LEMMA CountTurnSound ==
    ASSUME Sound, NEW s \in Requests, CountTurn(s)
    PROVE  Sound'
<1> DEFINE w == Foremost(request[s])
           due == w \in Members /\ request[s].kinds[w] \in TakesTurns /\ turn[w] = 0
           p == [request[s] EXCEPT !.at = IF due THEN "give" ELSE "wipe",
                            !.next = IF due THEN NextTurn(w) ELSE 0, !.behind = FALSE]
<1>1. TableType /\ AllFit /\ acts \in Histories /\ Fit(request[s])
  BY Parts, FitEach
<1>2. Fit(p)
  <2>1. NextTurn(w) \in Nat
    BY <1>1, NextTurnOf DEF TableType
  <2>2. request[s].at \in AtOne /\ (IF due THEN "give" ELSE "wipe") \in AtOne
        /\ (IF due THEN NextTurn(w) ELSE 0) \in Nat
    BY <2>1 DEF CountTurn, AtOne
  <2> HIDE DEF due, w
  <2> QED BY <1>1, <2>2, StaysFit
<1>3. AllFit' /\ acts' = acts
  <2>1. Goes(s, p)
    BY DEF CountTurn
  <2> HIDE DEF p
  <2> QED BY <1>1, <1>2, <2>1, OneFit DEF Goes
<1>4. TableType'
  BY <1>1 DEF CountTurn, tables, TableType, Members
<1> QED BY <1>1, <1>3, <1>4, PartsNext

LEMMA GiveTurnSound ==
    ASSUME Sound, NEW s \in Requests, GiveTurn(s)
    PROVE  Sound'
<1> DEFINE given == request[s].next # 0 /\ Foremost(request[s]) \in Members
                    /\ turn[Foremost(request[s])] = 0
           q == [r \in Requests |->
                    IF r = s THEN [request[s] EXCEPT !.at = "wipe", !.next = 0]
                    ELSE [request[r] EXCEPT !.behind = @ \/ given]]
<1>1. TableType /\ AllFit /\ acts \in Histories /\ Fit(request[s])
  BY Parts, FitEach
<1>2. ASSUME NEW r \in Requests PROVE Fit(q[r])
  <2>0. Fit(request[r])
    BY <1>1, FitEach
  <2>1. CASE r = s
    <3>1. Fit([request[s] EXCEPT !.at = "wipe", !.next = 0])
      BY <1>1 DEF GiveTurn, Fit, LineOf, RequestType, Left, Typed, AtOne
    <3> QED BY <2>1, <3>1
  <2>2. CASE r # s
    <3>1. Fit([request[r] EXCEPT !.behind = TRUE])
      BY <2>0, FitsOn
    <3>2. q[r] = [request[r] EXCEPT !.behind = TRUE] \/ q[r] = request[r]
      <4>1. q[r] = [request[r] EXCEPT !.behind = @ \/ given]
        BY <2>2
      <4> HIDE DEF given, q
      <4>2. CASE given
        BY <4>1, <4>2, Zenon
      <4>3. CASE ~ given
        <5>1. (request[r].behind \/ given) = request[r].behind
          BY <2>0, <4>3 DEF Fit, RequestType
        <5> QED BY <2>0, <4>1, <5>1 DEF Fit, RequestType
      <4> QED BY <4>2, <4>3
    <3> QED BY <2>0, <3>1, <3>2
  <2> QED BY <2>1, <2>2
<1>3. AllFit'
  <2>1. request' = q /\ q = [r \in Requests |-> q[r]]
    BY DEF GiveTurn
  <2> HIDE DEF q
  <2> QED BY <1>2, <2>1, FitAfter
<1>4. TableType' /\ acts' = acts
  <2>1. request[s].next \in Nat
    BY <1>1 DEF Fit, RequestType
  <2>2. turn' \in [Ids -> Nat]
    BY <1>1, <2>1 DEF GiveTurn, TableType
  <2>3. tied' \subseteq Ids
    BY <1>1 DEF GiveTurn, TableType, Members
  <2> QED BY <1>1, <2>2, <2>3 DEF GiveTurn, TableType, Members
<1> QED BY <1>1, <1>3, <1>4, PartsNext

\* The next of the line has a kind as well, until nobody is left.
LEMMA OnwardFit ==
    ASSUME NEW p, Fit(p), p.at \in AtOne, NEW S \in SUBSET Ids
    PROVE  Fit(Onward(p, S))
<1> DEFINE w == Foremost(p)
           o == [p EXCEPT !.todo = {}, !.line = [@ EXCEPT ![w] = 0],
                          !.at = IF Left(p) = {w} THEN "chat" ELSE "turn"]
<1>1. w \in Left(p) /\ w \in Ids
  BY AtHandFit
<1>2. CASE S # {}
  <2>1. Fit([p EXCEPT !.at = "wire", !.todo = S])
    BY DEF Fit, LineOf, RequestType, Left, Typed, AtOne
  <2> QED BY <1>2, <2>1 DEF Onward
<1>3. CASE S = {}
  <2> HIDE DEF w
  <2>1. /\ o \in RequestType /\ o.kinds = p.kinds /\ o.here = p.here /\ o.at # "repeats"
        /\ o.at \in AtOne <=> Left(p) # {w}
        /\ o.line = [p.line EXCEPT ![w] = 0]
    BY <1>1 DEF Fit, RequestType, AtOne
  <2>2. Onward(p, S) = o
    BY <1>3 DEF Onward, w
  <2> HIDE DEF o
  <2>3. Left(o) = Left(p) \ {w}
    BY <2>1 DEF Fit, RequestType, Left
  <2>4. Left(o) # {} <=> Left(p) # {w}
    BY <1>1, <2>3
  <2>5. Left(o) \subseteq Typed(o, o.here)
    BY <2>1, <2>3 DEF Fit, LineOf, Typed
  <2> QED BY <2>1, <2>2, <2>4, <2>5 DEF Fit, LineOf
<1> QED BY <1>2, <1>3

LEMMA WipeSound ==
    ASSUME Sound, NEW s \in Requests, Wipe(s)
    PROVE  Sound'
<1> DEFINE p == Onward(request[s], Wanted(request[s], Foremost(request[s])))
<1>1. TableType /\ AllFit /\ acts \in Histories /\ Fit(request[s])
  BY Parts, FitEach
<1>2. Fit(p)
  <2>1. Wanted(request[s], Foremost(request[s])) \subseteq Ids /\ request[s].at \in AtOne
    BY <1>1 DEF Wipe, Wanted, Typed, Fit, RequestType, AtOne
  <2> QED BY <1>1, <2>1, OnwardFit
<1>3. AllFit' /\ acts' = acts
  <2>1. Goes(s, p)
    BY DEF Wipe
  <2> HIDE DEF p
  <2> QED BY <1>1, <1>2, <2>1, OneFit DEF Goes
<1>4. TableType'
  BY <1>1 DEF Wipe, TableType, Members
<1> QED BY <1>1, <1>3, <1>4, PartsNext

LEMMA WireSound ==
    ASSUME Sound, NEW s \in Requests, Wire(s)
    PROVE  Sound'
<1>1. TableType /\ AllFit /\ acts \in Histories /\ Fit(request[s])
  BY Parts, FitEach
<1>2. PICK v \in request[s].todo : /\ routes' = routes \cup {<<Foremost(request[s]), v>>}
                                   /\ Goes(s, Onward(request[s], request[s].todo \ {v}))
  BY DEF Wire
<1> DEFINE p == Onward(request[s], request[s].todo \ {v})
<1>3. request[s].todo \subseteq Ids /\ request[s].at \in AtOne
  BY <1>1 DEF Wire, Fit, RequestType, AtOne
<1>4. Fit(p)
  BY <1>1, <1>3, OnwardFit
<1>5. AllFit' /\ acts' = acts
  <2>1. Goes(s, p)
    BY <1>2
  <2> HIDE DEF p
  <2> QED BY <1>1, <1>4, <2>1, OneFit DEF Goes
<1>6. TableType'
  <2>1. Foremost(request[s]) \in Ids
    BY <1>1, <1>3, AtHandFit
  <2>2. routes' \subseteq Ids \X Ids
    BY <1>1, <1>2, <1>3, <2>1 DEF TableType
  <2> QED BY <1>1, <2>2 DEF Wire, TableType, Members
<1> QED BY <1>1, <1>5, <1>6, PartsNext

LEMMA ReadChatSound ==
    ASSUME Sound, NEW s \in Requests, ReadChat(s)
    PROVE  Sound'
<1> DEFINE p == [request[s] EXCEPT !.at = "write", !.heard = deaf, !.stale = {}]
<1>1. TableType /\ AllFit /\ acts \in Histories /\ Fit(request[s])
  BY Parts, FitEach
<1>2. Fit(p)
  BY <1>1 DEF ReadChat, TableType, Fit, LineOf, RequestType, Left, Typed, AtOne
<1>3. AllFit' /\ acts' = acts
  <2>1. Goes(s, p)
    BY DEF ReadChat
  <2> HIDE DEF p
  <2> QED BY <1>1, <1>2, <2>1, OneFit DEF Goes
<1>4. TableType'
  BY <1>1 DEF ReadChat, tables, TableType, Members
<1> QED BY <1>1, <1>3, <1>4, PartsNext

LEMMA WriteChatSound ==
    ASSUME Sound, NEW s \in Requests, WriteChat(s)
    PROVE  Sound'
<1> DEFINE to == DeafTo(request[s])
           q == [r \in Requests |-> IF r = s THEN Idle ELSE
                    [request[r] EXCEPT !.stale = @ \cup (deaf \ to) \cup (to \ deaf)]]
<1>1. TableType /\ AllFit /\ acts \in Histories /\ Fit(request[s])
  BY Parts, FitEach
<1>2. to \subseteq Ids
  BY <1>1 DEF DeafTo, Typed, Fit, RequestType
<1>3. ASSUME NEW r \in Requests PROVE Fit(q[r])
  <2>1. Fit(request[r])
    BY <1>1, FitEach
  <2>2. (deaf \ to) \cup (to \ deaf) \subseteq Ids
    BY <1>1, <1>2 DEF TableType
  <2>3. Fit([request[r] EXCEPT !.stale = @ \cup ((deaf \ to) \cup (to \ deaf))])
    <3> HIDE DEF to
    <3> QED BY <2>1, <2>2, FitsOn
  <2>4. [request[r] EXCEPT !.stale = @ \cup ((deaf \ to) \cup (to \ deaf))]
        = [request[r] EXCEPT !.stale = @ \cup (deaf \ to) \cup (to \ deaf)]
    <3>1. request[r].stale \cup ((deaf \ to) \cup (to \ deaf))
          = request[r].stale \cup (deaf \ to) \cup (to \ deaf)
      OBVIOUS
    <3> HIDE DEF to
    <3> QED BY <3>1
  <2> QED BY <2>3, <2>4, IdleFit
<1>4. AllFit'
  <2>1. request' = q /\ q = [r \in Requests |-> q[r]]
    BY DEF WriteChat
  <2> HIDE DEF q
  <2> QED BY <1>3, <2>1, FitAfter
<1>5. TableType' /\ acts' = acts
  <2>1. settled' \in BOOLEAN
    BY <1>1 DEF WriteChat, Fit, RequestType
  <2> QED BY <1>1, <1>2, <2>1 DEF WriteChat, TableType, Members
<1> QED BY <1>1, <1>4, <1>5, PartsNext

(***************************************************************************)
(* The console's requests.                                                 *)
(***************************************************************************)

LEMMA UnrouteSound ==
    ASSUME Sound, NEW s \in Requests, Unroute(s)
    PROVE  Sound'
<1> DEFINE p == [request[s] EXCEPT !.at = "kinds", !.here = {}]
<1>1. TableType /\ AllFit /\ acts \in Histories /\ Fit(request[s])
  BY Parts, FitEach
<1>2. Fit(p)
  BY <1>1 DEF Unroute, Fit, LineOf, RequestType, Left, Typed, AtOne
<1>3. AllFit' /\ acts' = acts
  <2>1. Goes(s, p)
    BY DEF Unroute
  <2> HIDE DEF p
  <2> QED BY <1>1, <1>2, <2>1, OneFit DEF Goes
<1>4. TableType'
  BY <1>1 DEF Unroute, TableType, Members
<1> QED BY <1>1, <1>3, <1>4, PartsNext

LEMMA SetKindSound ==
    ASSUME Sound, NEW s \in Requests, NEW w \in Ids, NEW k \in KINDS \cup {None}, SetKind(s, w, k)
    PROVE  Sound'
<1>1. TableType /\ AllFit /\ acts \in Histories
  BY Parts
<1>2. AllFit'
  <2>1. CASE Start(s)
    BY <1>1, <2>1, StartFit
  <2>2. CASE request' = Others(s)
    BY <1>1, <2>2, OthersFit, FitAfter
  <2> QED BY <2>1, <2>2 DEF SetKind
<1>3. TableType' /\ acts' \in Histories
  BY <1>1 DEF SetKind, Act, TableType, Members
<1> QED BY <1>2, <1>3, PartsNext

LEMMA JoinSound ==
    ASSUME Sound, NEW s \in Requests, NEW w \in Ids, Join(s, w)
    PROVE  Sound'
<1> DEFINE passed(r) == request[r].at = "give" /\ Foremost(request[r]) = w
           q == [r \in Requests |->
                    IF r = s THEN [Idle EXCEPT !.at = "kinds", !.alone = Busy = {}]
                    ELSE [request[r] EXCEPT !.alone = FALSE,
                             !.next = IF request[r].at = "give" /\ Foremost(request[r]) = w
                                      THEN 0 ELSE @]]
<1>1. TableType /\ AllFit /\ acts \in Histories
  BY Parts
<1>2. ASSUME NEW r \in Requests PROVE Fit(q[r])
  <2>1. Fit(request[r])
    BY <1>1, FitEach
  <2>2. CASE r = s
    BY <2>2, IdleFit
  <2>3. CASE r # s /\ passed(r)
    <3>1. q[r] = [request[r] EXCEPT !.alone = FALSE, !.next = 0]
      BY <2>1, <2>3 DEF Fit, RequestType
    <3> QED BY <2>1, <3>1, FitsOn
  <2>4. CASE r # s /\ ~ passed(r)
    <3>1. q[r] = [request[r] EXCEPT !.alone = FALSE]
      BY <2>1, <2>4 DEF Fit, RequestType
    <3> QED BY <2>1, <3>1, FitsOn
  <2> QED BY <2>2, <2>3, <2>4
<1>3. AllFit'
  <2>1. request' = q /\ q = [r \in Requests |-> q[r]]
    BY DEF Join
  <2> HIDE DEF q
  <2> QED BY <1>2, <2>1, FitAfter
<1>4. joined' \in [Ids -> Nat] /\ turn' \in [Ids -> Nat]
  BY <1>1, JoinsLast DEF Join, TableType
<1>5. Members' \subseteq there'
  BY <1>1 DEF Join, TableType, Members
<1>6. TableType' /\ acts' \in Histories
  BY <1>1, <1>4, <1>5 DEF Join, Act, TableType
<1> QED BY <1>3, <1>6, PartsNext

LEMMA LeaveSound ==
    ASSUME Sound, NEW s \in Requests, NEW w \in Ids, Leave(s, w)
    PROVE  Sound'
<1>1. TableType /\ AllFit /\ acts \in Histories
  BY Parts
<1>2. AllFit'
  <2>1. Fit([Idle EXCEPT !.at = "leaving", !.here = {w}, !.alone = Busy = {}])
    BY IdleFit
  <2>2. request' = [Others(s) EXCEPT ![s] =
                       [Idle EXCEPT !.at = "leaving", !.here = {w}, !.alone = Busy = {}]]
    BY DEF Leave
  <2> QED BY <1>1, <2>1, <2>2, OthersAfter
<1>3. TableType' /\ acts' \in Histories
  BY <1>1 DEF Leave, Without, Act, TableType, Members
<1> QED BY <1>2, <1>3, PartsNext

LEMMA RemoveSound ==
    ASSUME Sound, NEW w \in Ids, Remove(w)
    PROVE  Sound'
<1>1. TableType /\ AllFit /\ acts \in Histories
  BY Parts
<1>2. AllFit'
  BY <1>1, DisturbedFit DEF Remove
<1>3. joined' \in [Ids -> Nat] /\ Members' \subseteq there'
  BY <1>1 DEF Remove, Without, TableType, Members
<1>4. TableType' /\ acts' \in Histories
  BY <1>1, <1>3 DEF Remove, Act, TableType
<1> QED BY <1>2, <1>4, PartsNext

LEMMA ReissueSound ==
    ASSUME Sound, NEW w \in Ids, NEW f \in Ids, Reissue(w, f)
    PROVE  Sound'
<1> DEFINE now(v) == IF v = w THEN f ELSE v
<1>1. TableType /\ AllFit /\ acts \in Histories
  BY Parts
<1>2. AllFit'
  BY <1>1, DisturbedFit DEF Reissue
<1>3. joined' \in [Ids -> Nat] /\ Members' \subseteq there' /\ turn' \in [Ids -> Nat]
  BY <1>1 DEF Reissue, TableType, Members
<1>4. routes' \subseteq Ids \X Ids /\ deaf' \subseteq Ids /\ tied' \subseteq Ids
  <2>1. routes' = {<<now(t[1]), now(t[2])>> : t \in routes} /\ deaf' = {now(v) : v \in deaf}
        /\ tied' = {now(v) : v \in tied}
    BY DEF Reissue
  <2>2. \A v \in Ids : now(v) \in Ids
    OBVIOUS
  <2>3. \A t \in routes : t[1] \in Ids /\ t[2] \in Ids
    BY <1>1 DEF TableType
  <2> HIDE DEF now
  <2> QED BY <1>1, <2>1, <2>2, <2>3 DEF TableType
<1>5. TableType' /\ acts' \in Histories
  BY <1>1, <1>3, <1>4 DEF Reissue, Act, TableType
<1> QED BY <1>2, <1>5, PartsNext

LEMMA HandSound ==
    ASSUME Sound, NEW v \in Ids, NEW w \in Ids, SetRoute(v, w) \/ SetRepeats(w) \/ Hears(w)
    PROVE  Sound'
<1>1. TableType /\ AllFit /\ acts \in Histories
  BY Parts
<1>2. AllFit'
  BY <1>1, DisturbedFit DEF SetRoute, SetRepeats, Hears
<1>3. routes' \subseteq Ids \X Ids /\ deaf' \subseteq Ids /\ repeats' \in [Ids -> BOOLEAN]
  <2>1. CASE SetRoute(v, w)
    BY <1>1, <2>1 DEF SetRoute, TableType
  <2>2. CASE SetRepeats(w)
    <3>1. repeats' \in [Ids -> BOOLEAN]
      BY <1>1, <2>2 DEF SetRepeats, TableType
    <3> QED BY <1>1, <2>2, <3>1 DEF SetRepeats, TableType
  <2>3. CASE Hears(w)
    BY <1>1, <2>3 DEF Hears, TableType
  <2> QED BY <2>1, <2>2, <2>3
<1>4. TableType' /\ acts' \in Histories
  BY <1>1, <1>3 DEF SetRoute, SetRepeats, Hears, Act, TableType, Members
<1> QED BY <1>2, <1>4, PartsNext

LEMMA CrashSound ==
    ASSUME Sound, NEW s \in Requests, Crash(s)
    PROVE  Sound'
<1>1. TableType /\ AllFit /\ acts \in Histories
  BY Parts
<1>2. AllFit'
  BY <1>1, OneFit, IdleFit DEF Crash
<1>3. TableType' /\ acts' \in Histories
  BY <1>1 DEF Crash, Act, tables, TableType, Members
<1> QED BY <1>2, <1>3, PartsNext

LEMMA InitSound == Init => Sound
<1> SUFFICES ASSUME Init PROVE Sound
  OBVIOUS
<1>1. TableType
  BY DEF Init, TableType, Members
<1>2. AllFit
  <2>1. request = [s \in Requests |-> Idle] /\ Idle \in RequestType /\ LineOf(Idle)
    BY IdleFit DEF Init, Fit
  <2>2. \A s \in Requests : request[s] = Idle
    BY <2>1
  <2> QED BY <2>1, <2>2 DEF AllFit, LineInv, LineOf
<1> QED BY <1>1, <1>2, Parts DEF Init

LEMMA StepSound == Sound /\ [Next]_vars => Sound'
<1> SUFFICES ASSUME Sound, [Next]_vars PROVE Sound'
  OBVIOUS
<1> USE DEF Next, Apply
<1>1. ASSUME NEW s \in Requests, Apply(s) PROVE Sound'
  BY <1>1, ReadKindsSound, SetRepeatSound, ReadMembersSound, CountTurnSound, GiveTurnSound,
     WipeSound, WireSound, ReadChatSound, WriteChatSound
<1>2. ASSUME NEW s \in Requests, Unroute(s) \/ Crash(s) PROVE Sound'
  BY <1>2, UnrouteSound, CrashSound
<1>3. ASSUME NEW s \in Requests, NEW w \in Ids,
             Join(s, w) \/ Leave(s, w) \/ \E k \in KINDS \cup {None} : SetKind(s, w, k)
      PROVE  Sound'
  BY <1>3, JoinSound, LeaveSound, SetKindSound
<1>4. ASSUME NEW w \in Ids, Remove(w) \/ SetRepeats(w) \/ Hears(w)
                            \/ \E v \in Ids : SetRoute(v, w) \/ Reissue(w, v)
      PROVE  Sound'
  BY <1>4, RemoveSound, HandSound, ReissueSound
<1>5. CASE UNCHANGED vars
  BY <1>5 DEF vars, tables, Sound, TypeOK, LineInv, Members, Typed, Left
<1> QED BY <1>1, <1>2, <1>3, <1>4, <1>5 DEF Apply, Next

LEMMA SoundAlways == Spec => []Sound
BY InitSound, StepSound, PTL DEF Spec

\* Every variable keeps its type: whoever requests are under way and whatever
\* each read, those it goes through next are workers it read a kind of, and a
\* member is a worker that exists.
THEOREM KindsTypeCorrect == Spec => []TypeOK
BY SoundAlways, PTL DEF Sound

(***************************************************************************)
(* What a statement of apply_kinds makes of the request, and of the others.*)
(***************************************************************************)

Only(s) == \A r \in Requests \ {s} : request'[r] = request[r]
Known == [w \in Ids |-> IF w \in there THEN kind[w] ELSE None]

\* What the request read of the workers and the channel stays.
SameRead(p, q) == q.kinds = p.kinds /\ q.here = p.here /\ q.alone = p.alone

LEMMA GoesDoes ==
    ASSUME AllFit, NEW s \in Requests, NEW p, request' = [request EXCEPT ![s] = p]
    PROVE  Only(s) /\ request'[s] = p
BY DEF AllFit, Only

LEMMA FinishDoes ==
    ASSUME AllFit, NEW s \in Requests, Finish(s)
    PROVE  Only(s) /\ request'[s] = Idle /\ settled' = request[s].alone
BY GoesDoes DEF Finish, Goes

LEMMA ReadKindsDoes ==
    ASSUME Sound, NEW s \in Requests, ReadKinds(s)
    PROVE  /\ Only(s)
           /\ \/ /\ request'[s] = Idle /\ settled' = request[s].alone
                 /\ \A w \in there : kind[w] = None
              \/ /\ request'[s].at = "repeats" /\ request'[s].alone = request[s].alone
                 /\ request'[s].kinds = Known /\ request'[s].todo = Typed(request'[s], Ids)
                 /\ settled' = settled
<1> DEFINE p == [request[s] EXCEPT !.at = "repeats", !.kinds = Known,
                                   !.todo = {w \in Ids : Known[w] # None}]
<1>1. AllFit /\ TableType /\ request[s] \in RequestType
  BY Parts, FitEach DEF Fit
<1>2. \/ Finish(s) /\ {w \in Ids : Known[w] # None} = {}
      \/ Goes(s, p) /\ settled' = settled
  BY DEF ReadKinds, Known
<1>3. CASE Finish(s) /\ {w \in Ids : Known[w] # None} = {}
  <2>1. \A w \in there : kind[w] = None
    BY <1>1, <1>3 DEF Known, TableType
  <2> QED BY <1>1, <1>3, <2>1, FinishDoes
<1>4. CASE Goes(s, p) /\ settled' = settled
  <2>1. /\ p.at = "repeats" /\ p.alone = request[s].alone /\ p.kinds = Known
        /\ p.todo = {w \in Ids : Known[w] # None}
    BY <1>1 DEF RequestType
  <2> HIDE DEF p
  <2>2. p.todo = Typed(p, Ids)
    BY <2>1 DEF Typed
  <2>3. Only(s) /\ request'[s] = p
    BY <1>1, <1>4, GoesDoes DEF Goes
  <2> QED BY <1>4, <2>1, <2>2, <2>3
<1> QED BY <1>2, <1>3, <1>4

LEMMA SetRepeatDoes ==
    ASSUME Sound, NEW s \in Requests, SetRepeat(s)
    PROVE  /\ Only(s) /\ SameRead(request[s], request'[s])
           /\ request'[s].at \in {"repeats", "members"} /\ settled' = settled
           /\ \E w \in request[s].todo :
                 /\ request'[s].todo = request[s].todo \ {w}
                 /\ request'[s].at = "members" => request[s].todo = {w}
                 /\ repeats' = IF w \in there
                               THEN [repeats EXCEPT ![w] = request[s].kinds[w] \in Repeating]
                               ELSE repeats
<1>1. AllFit /\ request[s] \in RequestType
  BY Parts, FitEach DEF Fit
<1>2. PICK w \in request[s].todo :
        /\ repeats' = IF w \in there
                      THEN [repeats EXCEPT ![w] = request[s].kinds[w] \in Repeating] ELSE repeats
        /\ Goes(s, [request[s] EXCEPT !.todo = @ \ {w},
                          !.at = IF request[s].todo = {w} THEN "members" ELSE "repeats"])
  BY DEF SetRepeat
<1> DEFINE p == [request[s] EXCEPT !.todo = @ \ {w},
                          !.at = IF request[s].todo = {w} THEN "members" ELSE "repeats"]
<1>3. /\ SameRead(request[s], p) /\ p.todo = request[s].todo \ {w}
      /\ p.at = IF request[s].todo = {w} THEN "members" ELSE "repeats"
  BY <1>1 DEF RequestType, SameRead
<1>4. Goes(s, p) /\ settled' = settled
  BY <1>2 DEF SetRepeat
<1> HIDE DEF p
<1>5. Only(s) /\ request'[s] = p
  BY <1>1, <1>4, GoesDoes DEF Goes
<1> QED BY <1>2, <1>3, <1>4, <1>5

LEMMA ReadMembersDoes ==
    ASSUME Sound, NEW s \in Requests, ReadMembers(s)
    PROVE  /\ Only(s)
           /\ \/ request'[s] = Idle /\ settled' = request[s].alone /\ Members = {}
              \/ /\ request'[s].kinds = request[s].kinds /\ request'[s].here = Members
                 /\ request'[s].alone = request[s].alone /\ settled' = settled
                 /\ request'[s].at \in {"turn", "chat"}
                 /\ Left(request'[s]) = Typed(request'[s], Members)
<1> DEFINE line == [w \in Ids |-> IF request[s].kinds[w] # None THEN joined[w] ELSE 0]
           p == [request[s] EXCEPT !.here = Members, !.line = line,
                     !.at = IF Typed(request[s], Members) = {} THEN "chat" ELSE "turn"]
<1>1. AllFit /\ request[s] \in RequestType
  BY Parts, FitEach DEF Fit
<1>2. \/ Finish(s) /\ Members = {}
      \/ Goes(s, p) /\ settled' = settled
  BY DEF ReadMembers
<1>3. CASE Finish(s) /\ Members = {}
  BY <1>1, <1>3, FinishDoes
<1>4. CASE Goes(s, p) /\ settled' = settled
  <2>1. Left(p) = Typed(p, Members)
    BY <1>1 DEF Left, Typed, Members, RequestType
  <2>2. /\ p.kinds = request[s].kinds /\ p.here = Members /\ p.alone = request[s].alone
        /\ p.at \in {"turn", "chat"}
    <3> HIDE DEF line
    <3> QED BY <1>1 DEF RequestType
  <2> HIDE DEF p
  <2>3. Only(s) /\ request'[s] = p
    BY <1>1, <1>4, GoesDoes DEF Goes
  <2> QED BY <1>4, <2>1, <2>2, <2>3
<1> QED BY <1>2, <1>3, <1>4

LEMMA CountTurnDoes ==
    ASSUME Sound, NEW s \in Requests, CountTurn(s)
    PROVE  /\ Only(s) /\ SameRead(request[s], request'[s])
           /\ request'[s].line = request[s].line /\ request'[s].next \in Nat
           /\ \/ /\ request'[s].at = "give" /\ request'[s].next # 0
                 /\ \A v \in Members : turn[v] < request'[s].next
              \/ /\ request'[s].at = "wipe"
                 /\ Foremost(request[s]) \in Members =>
                       \/ request[s].kinds[Foremost(request[s])] \notin TakesTurns
                       \/ turn[Foremost(request[s])] # 0
<1> DEFINE w == Foremost(request[s])
           due == w \in Members /\ request[s].kinds[w] \in TakesTurns /\ turn[w] = 0
           p == [request[s] EXCEPT !.at = IF due THEN "give" ELSE "wipe",
                            !.next = IF due THEN NextTurn(w) ELSE 0, !.behind = FALSE]
<1>1. AllFit /\ TableType /\ request[s] \in RequestType
  BY Parts, FitEach DEF Fit
<1>2. NextTurn(w) \in Nat \ {0} /\ \A v \in Members : turn[v] < NextTurn(w)
  BY <1>1, NextTurnOf DEF TableType
<1>3. /\ SameRead(request[s], p) /\ p.line = request[s].line
      /\ p.at = IF due THEN "give" ELSE "wipe"
      /\ p.next = IF due THEN NextTurn(w) ELSE 0
  <2> HIDE DEF due, w
  <2> QED BY <1>1 DEF RequestType, SameRead
<1>4. request' = [request EXCEPT ![s] = p]
  BY DEF CountTurn, Goes
<1> HIDE DEF p
<1>5. Only(s) /\ request'[s] = p
  BY <1>1, <1>4, GoesDoes
<1> QED BY <1>2, <1>3, <1>5

LEMMA GiveTurnDoes ==
    ASSUME Sound, NEW s \in Requests, GiveTurn(s)
    PROVE  /\ SameRead(request[s], request'[s]) /\ request'[s].line = request[s].line
           /\ request'[s].at = "wipe"
           /\ \A r \in Requests \ {s} :
                 /\ request'[r].at = request[r].at /\ request'[r].alone = request[r].alone
                 /\ request'[r].heard = request[r].heard /\ request'[r].stale = request[r].stale
<1> DEFINE given == request[s].next # 0 /\ Foremost(request[s]) \in Members
                    /\ turn[Foremost(request[s])] = 0
<1>1. \A r \in Requests : request[r] \in RequestType
  BY Parts DEF AllFit
<1>2. request'[s] = [request[s] EXCEPT !.at = "wipe", !.next = 0]
  BY DEF GiveTurn
<1>3. ASSUME NEW r \in Requests \ {s}
      PROVE  /\ request'[r].at = request[r].at /\ request'[r].alone = request[r].alone
             /\ request'[r].heard = request[r].heard /\ request'[r].stale = request[r].stale
  <2>1. request'[r] = [request[r] EXCEPT !.behind = request[r].behind \/ given]
    BY DEF GiveTurn
  <2> HIDE DEF given
  <2> QED BY <1>1, <2>1 DEF RequestType
<1>4. /\ SameRead(request[s], request'[s]) /\ request'[s].line = request[s].line
      /\ request'[s].at = "wipe"
  BY <1>1, <1>2 DEF RequestType, SameRead
<1> QED BY <1>3, <1>4

\* The next recipient, the next of the line, or the chats.
LEMMA OnwardDoes ==
    ASSUME NEW p \in RequestType, NEW S
    PROVE  /\ SameRead(p, Onward(p, S))
           /\ S # {} => /\ Onward(p, S).at = "wire" /\ Onward(p, S).todo = S
                        /\ Onward(p, S).line = p.line
           /\ S = {} => /\ Onward(p, S).at \in {"turn", "chat"}
                        /\ Left(Onward(p, S)) = Left(p) \ {Foremost(p)}
<1> DEFINE w == Foremost(p)
           o == [p EXCEPT !.todo = {}, !.line = [@ EXCEPT ![w] = 0],
                          !.at = IF Left(p) = {w} THEN "chat" ELSE "turn"]
<1>1. CASE S # {}
  BY <1>1 DEF Onward, SameRead, RequestType
<1>2. CASE S = {}
  <2>1. Onward(p, S) = o
    BY <1>2 DEF Onward
  <2> HIDE DEF w
  <2>2. SameRead(p, o) /\ o.at \in {"turn", "chat"} /\ o.line = [p.line EXCEPT ![w] = 0]
    BY DEF SameRead, RequestType
  <2> HIDE DEF o
  <2>3. Left(o) = Left(p) \ {w}
    BY <2>2 DEF Left, RequestType
  <2> QED BY <1>2, <2>1, <2>2, <2>3 DEF w
<1> QED BY <1>1, <1>2

LEMMA WipeDoes ==
    ASSUME Sound, NEW s \in Requests, Wipe(s)
    PROVE  /\ Only(s)
           /\ request'[s] = Onward(request[s], Wanted(request[s], Foremost(request[s])))
BY Parts, GoesDoes DEF Wipe, Goes

LEMMA WireDoes ==
    ASSUME Sound, NEW s \in Requests, Wire(s)
    PROVE  /\ Only(s)
           /\ \E v \in request[s].todo :
                 /\ request'[s] = Onward(request[s], request[s].todo \ {v})
                 /\ routes' = routes \cup {<<Foremost(request[s]), v>>}
<1>1. AllFit
  BY Parts
<1>2. PICK v \in request[s].todo : /\ routes' = routes \cup {<<Foremost(request[s]), v>>}
                                   /\ Goes(s, Onward(request[s], request[s].todo \ {v}))
  BY DEF Wire
<1>3. Only(s) /\ request'[s] = Onward(request[s], request[s].todo \ {v})
  BY <1>1, <1>2, GoesDoes DEF Goes
<1> QED BY <1>2, <1>3

LEMMA ReadChatDoes ==
    ASSUME Sound, NEW s \in Requests, ReadChat(s)
    PROVE  /\ Only(s) /\ SameRead(request[s], request'[s])
           /\ request'[s].line = request[s].line
           /\ request'[s].at = "write" /\ request'[s].heard = deaf
<1> DEFINE p == [request[s] EXCEPT !.at = "write", !.heard = deaf, !.stale = {}]
<1>1. AllFit /\ request[s] \in RequestType
  BY Parts, FitEach DEF Fit
<1>2. /\ SameRead(request[s], p) /\ p.line = request[s].line
      /\ p.at = "write" /\ p.heard = deaf
  BY <1>1 DEF SameRead, RequestType
<1>3. request' = [request EXCEPT ![s] = p]
  BY DEF ReadChat, Goes
<1> HIDE DEF p
<1> QED BY <1>1, <1>2, <1>3, GoesDoes

LEMMA WriteChatDoes ==
    ASSUME Sound, NEW s \in Requests, WriteChat(s)
    PROVE  /\ request'[s] = Idle
           /\ \A r \in Requests \ {s} :
                 /\ request'[r].at = request[r].at /\ request'[r].alone = request[r].alone
                 /\ request'[r].next = request[r].next /\ request'[r].behind = request[r].behind
                 /\ request'[r].heard = request[r].heard
                 /\ request[r].stale \cup (deaf \ deaf') \cup (deaf' \ deaf) \subseteq request'[r].stale
<1>1. \A r \in Requests : request[r] \in RequestType
  BY Parts DEF AllFit
<1>2. request'[s] = Idle
  BY DEF WriteChat
<1>3. ASSUME NEW r \in Requests \ {s}
      PROVE  /\ request'[r].at = request[r].at /\ request'[r].alone = request[r].alone
             /\ request'[r].next = request[r].next /\ request'[r].behind = request[r].behind
             /\ request'[r].heard = request[r].heard
             /\ request[r].stale \cup (deaf \ deaf') \cup (deaf' \ deaf) \subseteq request'[r].stale
  <2> DEFINE S == request[r].stale \cup (deaf \ deaf') \cup (deaf' \ deaf)
  <2>1. request'[r] = [request[r] EXCEPT !.stale = S]
    BY DEF WriteChat
  <2>2. S \subseteq request'[r].stale
    <3> HIDE DEF S
    <3> QED BY <1>1, <2>1 DEF RequestType
  <2> HIDE DEF S
  <2>3. /\ request'[r].at = request[r].at /\ request'[r].alone = request[r].alone
        /\ request'[r].next = request[r].next /\ request'[r].behind = request[r].behind
        /\ request'[r].heard = request[r].heard
    BY <1>1, <2>1 DEF RequestType
  <2> QED BY <2>2, <2>3 DEF S
<1> QED BY <1>2, <1>3

LEMMA UnrouteDoes ==
    ASSUME Sound, NEW s \in Requests, Unroute(s)
    PROVE  /\ Only(s) /\ request'[s].at = "kinds" /\ request'[s].alone = request[s].alone
<1> DEFINE p == [request[s] EXCEPT !.at = "kinds", !.here = {}]
<1>1. AllFit /\ request[s] \in RequestType
  BY Parts, FitEach DEF Fit
<1>2. p.at = "kinds" /\ p.alone = request[s].alone
  BY <1>1 DEF RequestType
<1>3. request' = [request EXCEPT ![s] = p]
  BY DEF Unroute, Goes
<1> HIDE DEF p
<1> QED BY <1>1, <1>2, <1>3, GoesDoes

\* One that begins, and what it makes of the others.
LEMMA BeginsDoes ==
    ASSUME AllFit, NEW s \in Requests, NEW w \in Ids,
           \/ Leave(s, w) \/ Join(s, w)
           \/ \E k \in KINDS \cup {None} : SetKind(s, w, k)
    PROVE  /\ settled' = FALSE /\ request[s].at = "idle"
           /\ request'[s].at \in {"idle", "kinds", "leaving"}
           /\ \/ ~ request'[s].alone
              \/ Busy = {} /\ request'[s].at # "idle"
              \/ request[s].alone /\ request'[s].at = "idle"
           /\ \A r \in Requests \ {s} :
                 /\ request'[r].at = request[r].at /\ ~ request'[r].alone
                 /\ request'[r].next \in {0, request[r].next}
                 /\ request'[r].behind = request[r].behind
                 /\ request'[r].heard = request[r].heard /\ request'[r].stale = request[r].stale
<1> DEFINE Keeps(r) == /\ request'[r].at = request[r].at /\ ~ request'[r].alone
                      /\ request'[r].next \in {0, request[r].next}
                      /\ request'[r].behind = request[r].behind
                      /\ request'[r].heard = request[r].heard
                      /\ request'[r].stale = request[r].stale
<1>1. \A r \in Requests : request[r] \in RequestType
  BY DEF AllFit
<1>2. \A r \in Requests \ {s} : Others(s)[r] = [request[r] EXCEPT !.alone = FALSE]
  <2> SUFFICES ASSUME NEW r \in Requests \ {s}
               PROVE  Others(s)[r] = [request[r] EXCEPT !.alone = FALSE]
    OBVIOUS
  <2>1. Others(s)[r] = [request[r] EXCEPT !.alone = request[r].alone /\ FALSE]
    BY DEF Others
  <2>2. (request[r].alone /\ FALSE) = FALSE
    OBVIOUS
  <2> QED BY <1>1, <2>1, <2>2 DEF RequestType
<1>3. ASSUME \A r \in Requests \ {s} : request'[r] = Others(s)[r]
      PROVE  \A r \in Requests \ {s} : Keeps(r)
  <2> SUFFICES ASSUME NEW r \in Requests \ {s} PROVE Keeps(r)
    OBVIOUS
  <2>1. request'[r] = [request[r] EXCEPT !.alone = FALSE]
    BY <1>2, <1>3
  <2> QED BY <1>1, <2>1 DEF RequestType
<1>4. CASE Leave(s, w)
  <2>1. /\ \A r \in Requests \ {s} : request'[r] = Others(s)[r]
        /\ request'[s] = [Idle EXCEPT !.at = "leaving", !.here = {w}, !.alone = Busy = {}]
    BY <1>4 DEF Leave, Others
  <2>2. request'[s].at = "leaving" /\ (request'[s].alone <=> Busy = {})
    BY <2>1 DEF Idle
  <2> QED BY <1>3, <1>4, <2>1, <2>2 DEF Leave
<1>5. CASE Join(s, w)
  <2>1. request'[s] = [Idle EXCEPT !.at = "kinds", !.alone = Busy = {}]
    BY <1>5 DEF Join
  <2>2. request'[s].at = "kinds" /\ (request'[s].alone <=> Busy = {})
    BY <2>1 DEF Idle
  <2>3. ASSUME NEW r \in Requests \ {s} PROVE Keeps(r)
    <3>1. request'[r] = [request[r] EXCEPT !.alone = FALSE,
                   !.next = IF request[r].at = "give" /\ Foremost(request[r]) = w THEN 0 ELSE @]
      BY <1>5 DEF Join
    <3> QED BY <1>1, <3>1 DEF RequestType
  <2> QED BY <1>5, <2>2, <2>3 DEF Join
<1>6. CASE \E k \in KINDS \cup {None} : SetKind(s, w, k)
  <2>1. \A r \in Requests \ {s} : request'[r] = Others(s)[r]
    BY <1>6 DEF SetKind, Start, Others
  <2>2. CASE request' = Others(s)
    <3>1. request'[s] = [request[s] EXCEPT !.alone = request[s].alone /\ TRUE]
      BY <2>2 DEF Others
    <3>2. request'[s].at = request[s].at /\ (request'[s].alone <=> request[s].alone)
      BY <1>1, <3>1 DEF RequestType
    <3> QED BY <1>3, <1>6, <2>1, <3>2 DEF SetKind
  <2>3. CASE Start(s)
    <3>1. request'[s] = [Idle EXCEPT !.at = "kinds", !.alone = Busy = {}]
      BY <2>3 DEF Start, Others
    <3>2. request'[s].at = "kinds" /\ (request'[s].alone <=> Busy = {})
      BY <3>1 DEF Idle
    <3> QED BY <1>3, <1>6, <2>1, <3>2 DEF SetKind
  <2> QED BY <1>6, <2>2, <2>3 DEF SetKind
<1> QED BY <1>4, <1>5, <1>6

LEMMA DisturbedDoes ==
    ASSUME AllFit, NEW S, request' = Disturbed(S), NEW r \in Requests
    PROVE  /\ request'[r].at = request[r].at /\ ~ request'[r].alone
           /\ request'[r].next = request[r].next /\ request'[r].behind = request[r].behind
           /\ request'[r].heard = request[r].heard
           /\ request'[r].stale = request[r].stale \cup S
BY DEF AllFit, RequestType, Disturbed

(***************************************************************************)
(* Turns.  A turn that was counted and not overtaken is above those of all *)
(* the members, whoever left or joined since.                              *)
(***************************************************************************)

Due(p) == p.at = "give" /\ p.next # 0 /\ ~ p.behind

NextInv == \A s \in Requests : Due(request[s]) => \A v \in Members : turn[v] < request[s].next

LinedUp == NextInv /\ NextInLine

\* No turn is counted in this step.
NoneCounted ==
    \A r \in Requests : Due(request'[r]) => Due(request[r]) /\ request'[r].next = request[r].next

LEMMA LineStands ==
    ASSUME LinedUp, NoneCounted, turn' = turn, tied' = tied, Members' \subseteq Members
    PROVE  LinedUp'
<1>1. NextInv'
  BY DEF LinedUp, NextInv, NoneCounted
<1>2. NextInLine'
  BY DEF LinedUp, NextInLine
<1> QED BY <1>1, <1>2 DEF LinedUp

LEMMA ApplyLined ==
    ASSUME Sound, LinedUp, NEW s \in Requests,
           \/ ReadKinds(s) \/ SetRepeat(s) \/ ReadMembers(s) \/ Wipe(s) \/ Wire(s)
           \/ ReadChat(s) \/ WriteChat(s) \/ Unroute(s) \/ Crash(s)
    PROVE  LinedUp'
<1>1. turn' = turn /\ tied' = tied /\ Members' = Members
  BY DEF ReadKinds, SetRepeat, ReadMembers, Wipe, Wire, ReadChat, WriteChat, Unroute, Crash,
         tables, Members
<1>2. AllFit /\ request[s] \in RequestType
  BY Parts, FitEach DEF Fit
<1>3. \A S : Onward(request[s], S).at # "give"
  BY <1>2, OnwardDoes, Zenon
<1>4. Idle.at # "give"
  BY DEF Idle
<1>5. CASE WriteChat(s)
  BY <1>1, <1>4, <1>5, WriteChatDoes, LineStands DEF NoneCounted, Due
<1>6. CASE ~ WriteChat(s)
  <2>1. Only(s) /\ request'[s].at # "give"
    <3>1. CASE ReadKinds(s)
      BY <1>4, <3>1, ReadKindsDoes
    <3>2. CASE SetRepeat(s)
      BY <3>2, SetRepeatDoes
    <3>3. CASE ReadMembers(s)
      BY <1>4, <3>3, ReadMembersDoes
    <3>4. CASE Wipe(s)
      BY <1>3, <3>4, WipeDoes
    <3>5. CASE Wire(s)
      BY <1>3, <3>5, WireDoes
    <3>6. CASE ReadChat(s)
      BY <3>6, ReadChatDoes
    <3>7. CASE Unroute(s)
      BY <3>7, UnrouteDoes
    <3>8. CASE Crash(s)
      BY <1>2, <1>4, <3>8, GoesDoes DEF Crash
    <3> QED BY <1>6, <3>1, <3>2, <3>3, <3>4, <3>5, <3>6, <3>7, <3>8
  <2> QED BY <1>1, <2>1, LineStands DEF Only, NoneCounted, Due
<1> QED BY <1>5, <1>6

LEMMA CountTurnLined ==
    ASSUME Sound, LinedUp, NEW s \in Requests, CountTurn(s)
    PROVE  LinedUp'
<1>1. turn' = turn /\ tied' = tied /\ Members' = Members
  BY DEF CountTurn, tables, Members
<1>2. Only(s) /\ (request'[s].at = "give" => \A v \in Members : turn[v] < request'[s].next)
  BY CountTurnDoes
<1>3. NextInv'
  BY <1>1, <1>2 DEF LinedUp, NextInv, Due, Only
<1>4. NextInLine'
  BY <1>1 DEF LinedUp, NextInLine
<1> QED BY <1>3, <1>4 DEF LinedUp

LEMMA GiveTurnLined ==
    ASSUME Sound, LinedUp, NEW s \in Requests, GiveTurn(s)
    PROVE  LinedUp'
<1> DEFINE p == request[s]
           w == Foremost(request[s])
           given == p.next # 0 /\ w \in Members /\ turn[w] = 0
<1>1. AllFit /\ TableType /\ p \in RequestType
  BY Parts, FitEach DEF Fit
<1>2. Members' = Members /\ Members \subseteq Ids /\ turn \in [Ids -> Nat] /\ p.at = "give"
  BY <1>1 DEF GiveTurn, Members, TableType
<1>3. /\ request'[s].at = "wipe"
      /\ \A r \in Requests \ {s} :
            /\ request'[r].at = request[r].at /\ request'[r].next = request[r].next
            /\ request'[r].behind <=> (request[r].behind \/ given)
  <2>1. request'[s] = [p EXCEPT !.at = "wipe", !.next = 0]
    BY DEF GiveTurn
  <2>2. ASSUME NEW r \in Requests \ {s}
        PROVE  request'[r] = [request[r] EXCEPT !.behind = request[r].behind \/ given]
    BY DEF GiveTurn
  <2> HIDE DEF given
  <2>3. \A r \in Requests : request[r] \in RequestType
    BY <1>1 DEF AllFit
  <2>4. request'[s].at = "wipe"
    BY <1>1, <2>1 DEF RequestType
  <2>5. ASSUME NEW r \in Requests \ {s}
        PROVE  request'[r].at = request[r].at /\ request'[r].next = request[r].next
    <3>1. request[r] \in RequestType
      BY <2>3
    <3>2. request'[r] = [request[r] EXCEPT !.behind = request[r].behind \/ given]
      BY <2>2
    <3> QED BY <3>1, <3>2 DEF RequestType
  <2>6. ASSUME NEW r \in Requests \ {s}
        PROVE  request'[r].behind <=> (request[r].behind \/ given)
    <3>1. request'[r].behind = (request[r].behind \/ given)
      BY <2>2, <2>3, Zenon DEF RequestType
    <3> QED BY <3>1, Zenon
  <2> QED BY <2>4, <2>5, <2>6, Zenon
<1>4. CASE ~ given
  <2>1. turn' = turn /\ tied' = tied
    BY <1>4 DEF GiveTurn
  <2> HIDE DEF given
  <2>2. NoneCounted
    BY <1>3, <1>4 DEF NoneCounted, Due
  <2> QED BY <1>2, <2>1, <2>2, LineStands
<1>5. CASE given
  <2>1. turn' = [turn EXCEPT ![w] = p.next] /\ tied' = IF p.behind THEN tied \cup {w} ELSE tied
    BY <1>5 DEF GiveTurn
  <2>2. NextInv'
    <3> HIDE DEF given
    <3> QED BY <1>3, <1>5 DEF NextInv, Due
  <2>3. w \in Members /\ p.next \in Nat /\ p.next # 0
    BY <1>1, <1>5 DEF RequestType
  <2>4. ~ p.behind => \A v \in Members : turn[v] < p.next
    BY <1>2, <2>3 DEF LinedUp, NextInv, Due
  <2> HIDE DEF p, w, given
  <2>5. \A v \in Members : turn'[v] = IF v = w THEN p.next ELSE turn[v]
    BY <1>2, <2>1
  <2>6. NextInLine'
    <3> SUFFICES ASSUME NEW u \in Members, NEW v \in Members, u # v, turn'[u] # 0,
                        u \notin tied', v \notin tied'
                 PROVE  turn'[u] # turn'[v]
      BY <1>2 DEF NextInLine
    <3>1. turn[u] \in Nat /\ turn[v] \in Nat /\ u \notin tied /\ v \notin tied
      BY <1>2, <2>1
    <3>2. CASE u # w /\ v # w
      BY <2>5, <3>1, <3>2 DEF LinedUp, NextInLine
    <3>3. CASE u = w \/ v = w
      <4>1. ~ p.behind
        BY <2>1, <3>3
      <4>2. turn[u] < p.next /\ turn[v] < p.next
        BY <2>4, <4>1
      <4> QED BY <2>3, <2>5, <3>1, <3>3, <4>2
    <3> QED BY <3>2, <3>3
  <2> QED BY <2>2, <2>6 DEF LinedUp
<1> QED BY <1>4, <1>5

LEMMA ConsoleLined ==
    ASSUME Sound, LinedUp, NEW s \in Requests, NEW w \in Ids,
           Leave(s, w) \/ \E k \in KINDS \cup {None} : SetKind(s, w, k)
    PROVE  LinedUp'
<1>1. AllFit /\ joined \in [Ids -> Nat]
  BY Parts DEF TableType
<1>2. turn' = turn /\ tied' = tied /\ Members' \subseteq Members
  <2>1. CASE Leave(s, w)
    BY <1>1, <2>1 DEF Leave, Without, Members
  <2>2. CASE \E k \in KINDS \cup {None} : SetKind(s, w, k)
    BY <2>2 DEF SetKind, Members
  <2> QED BY <2>1, <2>2
<1>3. /\ request'[s].at # "give"
      /\ \A r \in Requests \ {s} :
            /\ request'[r].at = request[r].at /\ request'[r].behind = request[r].behind
            /\ request'[r].next \in {0, request[r].next}
  BY <1>1, BeginsDoes
<1>4. NoneCounted
  BY <1>3 DEF NoneCounted, Due
<1> QED BY <1>2, <1>4, LineStands

LEMMA HandLined ==
    ASSUME Sound, LinedUp, NEW v \in Ids, NEW w \in Ids,
           SetRoute(v, w) \/ SetRepeats(w) \/ Hears(w) \/ Remove(w)
    PROVE  LinedUp'
<1>1. AllFit /\ joined \in [Ids -> Nat]
  BY Parts DEF TableType
<1>2. NoneCounted
  BY <1>1, DisturbedDoes DEF NoneCounted, Due, SetRoute, SetRepeats, Hears, Remove
<1>3. turn' = turn /\ tied' = tied /\ Members' \subseteq Members
  <2>1. CASE Remove(w)
    BY <1>1, <2>1 DEF Remove, Without, Members
  <2> QED BY <2>1 DEF SetRoute, SetRepeats, Hears, Members
<1> QED BY <1>2, <1>3, LineStands

\* Who joins has no turn.
LEMMA JoinLined ==
    ASSUME Sound, LinedUp, NEW s \in Requests, NEW w \in Ids, Join(s, w)
    PROVE  LinedUp'
<1>1. AllFit /\ TableType
  BY Parts
<1>2. \A r \in Requests : request[r] \in RequestType
  BY <1>1 DEF AllFit
<1>3. /\ turn' = [turn EXCEPT ![w] = 0] /\ tied' = tied \ {w} /\ turn \in [Ids -> Nat]
      /\ Members' \subseteq Members \cup {w} /\ Members \subseteq Ids
  BY <1>1 DEF Join, Members, TableType
<1>4. /\ request'[s].at # "give"
      /\ \A r \in Requests \ {s} :
            /\ request'[r].at = request[r].at /\ request'[r].behind = request[r].behind
            /\ request'[r].next \in {0, request[r].next}
  BY <1>1, BeginsDoes
<1>6. NoneCounted
  BY <1>4 DEF NoneCounted, Due
<1>7. \A r \in Requests : Due(request[r]) => request[r].next \in Nat \ {0}
  BY <1>2 DEF RequestType, Due
<1>8. NextInv'
  <2> SUFFICES ASSUME NEW r \in Requests, Due(request'[r]), NEW v \in Members'
               PROVE  turn'[v] < request'[r].next
    BY DEF NextInv
  <2>1. Due(request[r]) /\ request'[r].next = request[r].next /\ request[r].next \in Nat \ {0}
    BY <1>6, <1>7 DEF NoneCounted
  <2>2. CASE v = w
    BY <1>3, <2>1, <2>2
  <2>3. CASE v # w
    <3>1. v \in Members /\ turn'[v] = turn[v]
      BY <1>3, <2>3
    <3> QED BY <2>1, <3>1 DEF LinedUp, NextInv
  <2> QED BY <2>2, <2>3
<1>9. NextInLine'
  BY <1>3 DEF LinedUp, NextInLine
<1> QED BY <1>8, <1>9 DEF LinedUp

\* A membership that gets a new id keeps its turn.
LEMMA ReissueLined ==
    ASSUME Sound, LinedUp, NEW w \in Ids, NEW f \in Ids, Reissue(w, f)
    PROVE  LinedUp'
<1> DEFINE now(v) == IF v = w THEN f ELSE v
           was(v) == IF v = f THEN w ELSE v
<1>1. AllFit /\ TableType
  BY Parts
<1>2. NoneCounted
  BY <1>1, DisturbedDoes DEF NoneCounted, Due, Reissue
<1>3. ASSUME NEW v \in Members' PROVE was(v) \in Members /\ turn'[v] = turn[was(v)] /\ v # w
  BY <1>1 DEF Reissue, TableType, Members
<1>4. ASSUME NEW v \in Members', v \notin tied' PROVE was(v) \notin tied
  <2>1. tied' = {now(u) : u \in tied}
    BY DEF Reissue
  <2>2. now(was(v)) = v
    BY <1>3
  <2> HIDE DEF now
  <2> QED BY <1>4, <2>1, <2>2
<1>5. \A u, v \in Members' : u # v => was(u) # was(v)
  BY <1>3
<1> HIDE DEF was
<1>6. NextInv'
  BY <1>2, <1>3 DEF NoneCounted, LinedUp, NextInv
<1>7. NextInLine'
  BY <1>3, <1>4, <1>5 DEF LinedUp, NextInLine
<1> QED BY <1>6, <1>7 DEF LinedUp

LEMMA LinedAlways == Spec => []LinedUp
<1>1. Init => LinedUp
  <2> SUFFICES ASSUME Init PROVE LinedUp
    OBVIOUS
  <2>1. \A s \in Requests : request[s].at = "idle"
    BY DEF Init, Idle
  <2> QED BY <2>1 DEF Init, LinedUp, NextInv, NextInLine, Due, Members
<1>2. Sound /\ LinedUp /\ [Next]_vars => LinedUp'
  <2> SUFFICES ASSUME Sound, LinedUp, [Next]_vars PROVE LinedUp'
    OBVIOUS
  <2>1. ASSUME NEW s \in Requests, Apply(s) \/ Unroute(s) \/ Crash(s) PROVE LinedUp'
    BY <2>1, ApplyLined, CountTurnLined, GiveTurnLined DEF Apply
  <2>4. ASSUME NEW s \in Requests, NEW w \in Ids,
               Join(s, w) \/ Leave(s, w) \/ \E k \in KINDS \cup {None} : SetKind(s, w, k)
        PROVE  LinedUp'
    BY <2>4, JoinLined, ConsoleLined
  <2>5. ASSUME NEW w \in Ids, Remove(w) \/ SetRepeats(w) \/ Hears(w)
                              \/ \E v \in Ids : SetRoute(v, w) \/ Reissue(w, v)
        PROVE  LinedUp'
    BY <2>5, HandLined, ReissueLined
  <2>6. CASE UNCHANGED vars
    BY <2>6 DEF vars, tables, LinedUp, NextInv, NextInLine, Members
  <2> QED BY <2>1, <2>4, <2>5, <2>6 DEF Next
<1> QED BY <1>1, <1>2, SoundAlways, PTL DEF Spec

\* "A turn among the takers of each channel it is in, after those already there"
\* (kinds.py:29): whatever requests run at once, whoever leaves, joins again or
\* gets a new id, no two members have one turn but those whose turn was counted
\* while another was given.
THEOREM NextInLineAlways == Spec => []NextInLine
BY LinedAlways, PTL DEF LinedUp

(***************************************************************************)
(* What is left alone.  What a request read of a chat is still so, but of  *)
(* those whom another request changed in its row since.                    *)
(***************************************************************************)

ReadInv ==
    \A s \in Requests : request[s].at = "write" =>
        \A w \in Ids \ request[s].stale : w \in request[s].heard <=> w \in deaf

NoneHeard ==
    \A r \in Requests : request'[r].at = "write" =>
        /\ request[r].at = "write" /\ request'[r].heard = request[r].heard
        /\ request[r].stale \subseteq request'[r].stale
        /\ \A w \in Ids \ request'[r].stale : w \in deaf' <=> w \in deaf

LEMMA HeardStands ==
    ASSUME ReadInv, NoneHeard
    PROVE  ReadInv'
BY DEF ReadInv, NoneHeard

LEMMA ApplyHeard ==
    ASSUME Sound, ReadInv, NEW s \in Requests, Apply(s) \/ Unroute(s) \/ Crash(s)
    PROVE  ReadInv'
<1>1. AllFit /\ request[s] \in RequestType
  BY Parts, FitEach DEF Fit
<1>2. \A S : Onward(request[s], S).at # "write"
  BY <1>1, OnwardDoes, Zenon
<1>3. Idle.at # "write"
  BY DEF Idle
<1>4. CASE WriteChat(s)
  <2>1. NoneHeard
    BY <1>3, <1>4, WriteChatDoes DEF NoneHeard
  <2> QED BY <2>1, HeardStands
<1>5. CASE GiveTurn(s)
  <2>1. NoneHeard
    <3>1. deaf' = deaf
      BY <1>5 DEF GiveTurn
    <3>2. /\ request'[s].at = "wipe"
          /\ \A r \in Requests \ {s} :
                /\ request'[r].at = request[r].at /\ request'[r].heard = request[r].heard
                /\ request'[r].stale = request[r].stale
      BY <1>5, GiveTurnDoes
    <3> QED BY <3>1, <3>2 DEF NoneHeard
  <2> QED BY <2>1, HeardStands
<1>6. CASE ReadChat(s)
  <2>1. deaf' = deaf /\ Only(s) /\ request'[s].heard = deaf
    BY <1>6, ReadChatDoes DEF ReadChat, tables
  <2> QED BY <2>1 DEF ReadInv, Only
<1>7. CASE ~ (WriteChat(s) \/ GiveTurn(s) \/ ReadChat(s))
  <2>1. Only(s) /\ request'[s].at # "write" /\ deaf' = deaf
    <3>1. CASE ReadKinds(s)
      BY <1>3, <3>1, ReadKindsDoes DEF ReadKinds, tables
    <3>2. CASE SetRepeat(s)
      BY <3>2, SetRepeatDoes DEF SetRepeat
    <3>3. CASE ReadMembers(s)
      BY <1>3, <3>3, ReadMembersDoes DEF ReadMembers, tables
    <3>4. CASE CountTurn(s)
      BY <3>4, CountTurnDoes DEF CountTurn, tables
    <3>5. CASE Wipe(s)
      BY <1>2, <3>5, WipeDoes DEF Wipe
    <3>6. CASE Wire(s)
      BY <1>2, <3>6, WireDoes DEF Wire
    <3>7. CASE Unroute(s)
      BY <3>7, UnrouteDoes DEF Unroute
    <3>8. CASE Crash(s)
      BY <1>1, <1>3, <3>8, GoesDoes DEF Crash, tables
    <3> QED BY <1>7, <3>1, <3>2, <3>3, <3>4, <3>5, <3>6, <3>7, <3>8 DEF Apply
  <2>2. NoneHeard
    BY <2>1 DEF Only, NoneHeard
  <2> QED BY <2>2, HeardStands
<1> QED BY <1>4, <1>5, <1>6, <1>7

LEMMA ConsoleHeard ==
    ASSUME Sound, ReadInv, NEW s \in Requests, NEW w \in Ids,
           \/ Leave(s, w) \/ Join(s, w)
           \/ \E k \in KINDS \cup {None} : SetKind(s, w, k)
    PROVE  ReadInv'
<1>1. deaf' = deaf
  BY DEF Leave, Join, SetKind
<1>2. NoneHeard
  BY <1>1, Parts, BeginsDoes DEF NoneHeard
<1> QED BY <1>2, HeardStands

\* A step by hand adds to the stale whom it changes.
LEMMA HandHeard ==
    ASSUME Sound, ReadInv, NEW v \in Ids, NEW w \in Ids,
           SetRoute(v, w) \/ SetRepeats(w) \/ Hears(w) \/ Remove(w) \/ Reissue(w, v)
    PROVE  ReadInv'
<1>1. ASSUME NEW S, request' = Disturbed(S), \A u \in Ids \ S : u \in deaf' <=> u \in deaf
      PROVE  ReadInv'
  <2>1. NoneHeard
    BY <1>1, Parts, DisturbedDoes DEF NoneHeard
  <2> QED BY <2>1, HeardStands
<1>2. CASE SetRoute(v, w) \/ SetRepeats(w)
  BY <1>1, <1>2 DEF SetRoute, SetRepeats
<1>3. CASE Hears(w) \/ Remove(w)
  <2>1. request' = Disturbed({w}) /\ \A u \in Ids \ {w} : u \in deaf' <=> u \in deaf
    BY <1>3 DEF Hears, Remove
  <2> QED BY <1>1, <2>1
<1>4. CASE Reissue(w, v)
  <2>1. request' = Disturbed({w, v}) /\ \A u \in Ids \ {w, v} : u \in deaf' <=> u \in deaf
    BY <1>4 DEF Reissue
  <2> QED BY <1>1, <2>1
<1> QED BY <1>2, <1>3, <1>4

LEMMA HeardAlways == Spec => []ReadInv
<1>1. Init => ReadInv
  BY DEF Init, ReadInv, Idle
<1>2. Sound /\ ReadInv /\ [Next]_vars => ReadInv'
  <2> SUFFICES ASSUME Sound, ReadInv, [Next]_vars PROVE ReadInv'
    OBVIOUS
  <2>1. ASSUME NEW s \in Requests, Apply(s) \/ Unroute(s) \/ Crash(s) PROVE ReadInv'
    BY <2>1, ApplyHeard
  <2>2. ASSUME NEW s \in Requests, NEW w \in Ids,
               Join(s, w) \/ Leave(s, w) \/ \E k \in KINDS \cup {None} : SetKind(s, w, k)
        PROVE  ReadInv'
    BY <2>2, ConsoleHeard
  <2>3. ASSUME NEW w \in Ids, Remove(w) \/ SetRepeats(w) \/ Hears(w)
                              \/ \E v \in Ids : SetRoute(v, w) \/ Reissue(w, v)
        PROVE  ReadInv'
    BY <2>3, HandHeard
  <2>4. CASE UNCHANGED vars
    BY <2>4 DEF vars, tables, ReadInv
  <2> QED BY <2>1, <2>2, <2>3, <2>4 DEF Next
<1> QED BY <1>1, <1>2, SoundAlways, PTL DEF Spec

\* What one statement of apply_kinds leaves alone.
Spared(s) ==
    /\ \A w \in Ids : (kind[w] = None /\ request[s].kinds[w] = None) =>
          /\ {t \in routes' : t[1] = w} = {t \in routes : t[1] = w}
          /\ repeats'[w] = repeats[w] /\ turn'[w] = turn[w]
          /\ w \in request[s].stale \/ (w \in deaf') = (w \in deaf)
    /\ \A w \in Ids : turn[w] # 0 => turn'[w] = turn[w]

LEMMA ApplySpares ==
    ASSUME Sound, ReadInv, NEW s \in Requests, Apply(s)
    PROVE  Spared(s)
<1>1. AllFit /\ TableType /\ Fit(request[s])
  BY Parts, FitEach
<1>2. CASE ReadKinds(s) \/ ReadMembers(s) \/ CountTurn(s) \/ ReadChat(s)
  BY <1>2 DEF ReadKinds, ReadMembers, CountTurn, ReadChat, tables, Spared
<1>3. CASE SetRepeat(s)
  <2>1. \A w \in request[s].todo : request[s].kinds[w] # None
    BY <1>1, <1>3 DEF SetRepeat, Fit, LineOf, Typed
  <2>2. \A w \in Ids : request[s].kinds[w] = None => repeats'[w] = repeats[w]
    BY <1>1, <1>3, <2>1, SetRepeatDoes DEF TableType
  <2> QED BY <1>3, <2>2 DEF SetRepeat, Spared
<1>4. CASE GiveTurn(s)
  <2> DEFINE u == Foremost(request[s])
  <2>1. u \in Ids /\ request[s].kinds[u] # None
    BY <1>1, <1>4, AtHandFit DEF GiveTurn, AtOne
  <2>2. \A w \in Ids : (w # u \/ turn[w] # 0) => turn'[w] = turn[w]
    BY <1>1, <1>4, <2>1 DEF GiveTurn, TableType
  <2> HIDE DEF u
  <2> QED BY <1>4, <2>1, <2>2 DEF GiveTurn, Spared
<1>5. CASE Wipe(s) \/ Wire(s)
  <2> DEFINE u == Foremost(request[s])
  <2>1. request[s].kinds[u] # None
    BY <1>1, <1>5, AtHandFit DEF Wipe, Wire, AtOne
  <2>2. \A w : w # u => {t \in routes' : t[1] = w} = {t \in routes : t[1] = w}
    <3>1. CASE Wipe(s)
      BY <3>1 DEF Wipe
    <3>2. CASE Wire(s)
      <4>1. PICK v : routes' = routes \cup {<<u, v>>}
        BY <3>2 DEF Wire
      <4> HIDE DEF u
      <4> QED BY <4>1
    <3> QED BY <1>5, <3>1, <3>2
  <2> HIDE DEF u
  <2> QED BY <1>5, <2>1, <2>2 DEF Wipe, Wire, Spared
<1>6. CASE WriteChat(s)
  <2>1. \A w \in Ids : request[s].kinds[w] = None => (w \in deaf' <=> w \in request[s].heard)
    BY <1>6 DEF WriteChat, DeafTo, Typed
  <2>2. \A w \in Ids \ request[s].stale : w \in request[s].heard <=> w \in deaf
    BY <1>6 DEF WriteChat, ReadInv
  <2>3. \A w \in Ids : request[s].kinds[w] = None =>
           w \in request[s].stale \/ (w \in deaf') = (w \in deaf)
    BY <2>1, <2>2
  <2> QED BY <1>6, <2>3 DEF WriteChat, Spared
<1> QED BY <1>2, <1>3, <1>4, <1>5, <1>6 DEF Apply

\* "A worker with no kind is left alone, and so is every switch about it"
\* (pgstore.py:912), and a turn once given is kept: whatever the other requests
\* wrote since this one read, no statement of apply_kinds touches the routes, the
\* switch or the turn of a worker it read no kind of, nor whether a chat hears
\* it, unless another request changed that in the chat's row between the read
\* and the write.
THEOREM LeftAlone == Spec => LeftAsTheyAre
<1>1. Sound /\ ReadInv /\ [Next]_vars => [\A s \in Requests : Apply(s) => Spared(s)]_vars
  BY ApplySpares
<1> QED BY <1>1, SoundAlways, HeardAlways, PTL DEF Spec, LeftAsTheyAre, Spared

(***************************************************************************)
(* What follows from the kinds.  A request that has the workspace to       *)
(* itself has done all that it went through: at each statement the         *)
(* switches of those done are what their kinds say, and the rest is what   *)
(* it still has to do.                                                     *)
(***************************************************************************)

Begun == {"idle", "leaving", "kinds"}
ToDo(p) == IF p.at = "repeats" THEN p.todo ELSE {}

\* From the switches rep, the routes R and the turns T.
Switched(p, rep) == \A w \in Typed(p, Ids) \ ToDo(p) : rep[w] = (p.kinds[w] \in Repeating)
Wired(R, w, S) == {t \in R : t[1] = w} = {<<w, v>> : v \in S}
HasTurn(T, p, w) == p.kinds[w] \in TakesTurns => T[w] # 0
Done(p, R, T, w) == Wired(R, w, Wanted(p, w)) /\ HasTurn(T, p, w)
GoneThrough(p, R, T) == \A w \in Typed(p, p.here) \ Left(p) : Done(p, R, T, w)

\* Of the one that is gone through now.
AtHand(p, R, T) ==
    /\ p.at = "give" => p.next # 0
    /\ p.at \in {"wipe", "wire"} => HasTurn(T, p, Foremost(p))
    /\ p.at = "wire" => /\ p.todo \subseteq Wanted(p, Foremost(p))
                        /\ Wired(R, Foremost(p), Wanted(p, Foremost(p)) \ p.todo)

SoFar(p, K, M, rep, R, T) ==
    /\ p.at \notin Begun => p.kinds = K /\ Switched(p, rep)
    /\ p.at \in AtOne \cup {"chat", "write"} => p.here = M /\ GoneThrough(p, R, T)
    /\ AtHand(p, R, T)

KindInv == \A w \in Ids : kind[w] # None => w \in there

AloneInv ==
    \A s \in Requests : request[s].alone =>
        /\ request[s].at # "idle"
        /\ \A r \in Requests \ {s} : request[r].at = "idle"

SoFarInv ==
    \A s \in Requests :
        request[s].alone => SoFar(request[s], kind, Members, repeats, routes, turn)

\* What Follows says of the tables.
InPlace(K, M, rep, R, D, T) ==
    \A w \in {u \in M : K[u] # None} :
        /\ Wired(R, w, {u \in M : K[u] # None /\ u # w /\ K[u] \in SendsTo(K[w])})
        /\ rep[w] = (K[w] \in Repeating)
        /\ (w \in D) = (K[w] \in Unheard)
        /\ K[w] \in TakesTurns => T[w] # 0

SettledInv == settled => Busy = {} /\ InPlace(kind, Members, repeats, routes, deaf, turn)

FollowInv == KindInv /\ AloneInv /\ SoFarInv /\ SettledInv

LEMMA InPlaceFollows == SettledInv => Follows
<1>1. Now.kinds = kind /\ Now.here = Members
  BY DEF Now, Idle
<1> DEFINE Sends(w) == {u \in Members : kind[u] # None /\ u # w /\ kind[u] \in SendsTo(kind[w])}
<1>2. \A w : {u \in Typed(Now, Members) \ {w} : kind[u] \in SendsTo(kind[w])} = Sends(w)
  BY <1>1 DEF Typed
<1>3. Typed(Now, Members) = {u \in Members : kind[u] # None}
  BY <1>1 DEF Typed
<1> HIDE DEF Sends
<1> SUFFICES ASSUME SettledInv, settled, NEW w \in Typed(Now, Members)
             PROVE  /\ {t \in routes : t[1] = w} =
                          {<<w, v>> : v \in {u \in Typed(Now, Members) \ {w} :
                                                 kind[u] \in SendsTo(kind[w])}}
                    /\ repeats[w] = (kind[w] \in Repeating)
                    /\ (w \in deaf) = (kind[w] \in Unheard)
                    /\ kind[w] \in TakesTurns => turn[w] # 0
  BY Zenon DEF Follows
<1>4. w \in {u \in Members : kind[u] # None}
  BY <1>3
<1>5. /\ Wired(routes, w, Sends(w)) /\ repeats[w] = (kind[w] \in Repeating)
      /\ (w \in deaf) = (kind[w] \in Unheard)
      /\ kind[w] \in TakesTurns => turn[w] # 0
  BY <1>4, Zenon DEF SettledInv, InPlace, Sends
<1>6. {t \in routes : t[1] = w} = {<<w, v>> : v \in Sends(w)}
  BY <1>5, Zenon DEF Wired
<1> QED BY <1>2, <1>5, <1>6, Zenon

LEMMA SameLine ==
    ASSUME NEW p, NEW q, q.line = p.line
    PROVE  Left(q) = Left(p) /\ Foremost(q) = Foremost(p)
<1>1. Left(q) = Left(p)
  BY DEF Left
<1> QED BY <1>1, Zenon DEF Foremost

LEMMA SameWanted ==
    ASSUME NEW p, NEW q, SameRead(p, q)
    PROVE  /\ \A S : Typed(q, S) = Typed(p, S)
           /\ \A w : Wanted(q, w) = Wanted(p, w)
           /\ \A T, w : HasTurn(T, q, w) <=> HasTurn(T, p, w)
           /\ \A R, T, w : Done(q, R, T, w) <=> Done(p, R, T, w)
<1>1. \A S : Typed(q, S) = Typed(p, S)
  BY DEF SameRead, Typed
<1>2. \A w : Wanted(q, w) = Wanted(p, w)
  BY <1>1 DEF SameRead, Wanted
<1>3. \A T, w : HasTurn(T, q, w) <=> HasTurn(T, p, w)
  BY DEF SameRead, HasTurn
<1> QED BY <1>1, <1>2, <1>3 DEF Done

\* One who is done, and the next recipient of one who is not.
LEMMA OnwardSoFar ==
    ASSUME NEW p, Fit(p), p.at \in {"wipe", "wire"}, NEW K, NEW M, NEW rep, NEW R, NEW T,
           p.kinds = K, Switched(p, rep), p.here = M, GoneThrough(p, R, T),
           HasTurn(T, p, Foremost(p)), NEW S, S \subseteq Wanted(p, Foremost(p)),
           Wired(R, Foremost(p), Wanted(p, Foremost(p)) \ S)
    PROVE  SoFar(Onward(p, S), K, M, rep, R, T)
<1> DEFINE q == Onward(p, S)
           w == Foremost(p)
<1>1. SameRead(p, q) /\ q.at \in {"wire", "turn", "chat"}
  BY OnwardDoes DEF Fit
<1>2. q.kinds = K /\ q.here = M
  BY <1>1 DEF SameRead
<1>3. Switched(q, rep)
  BY <1>1, SameWanted DEF Switched, ToDo, SameRead
<1>4. CASE S # {}
  <2>1. q.at = "wire" /\ q.todo = S /\ q.line = p.line
    BY <1>4, OnwardDoes DEF Fit
  <2> HIDE DEF q
  <2>2. Left(q) = Left(p) /\ Foremost(q) = w
    BY <2>1, SameLine
  <2> HIDE DEF w
  <2>3. GoneThrough(q, R, T)
    BY <1>1, <2>2, SameWanted DEF GoneThrough, SameRead
  <2>4. AtHand(q, R, T)
    BY <1>1, <2>1, <2>2, SameWanted DEF AtHand, w
  <2> QED BY <1>2, <1>3, <2>3, <2>4 DEF SoFar, q
<1>5. CASE S = {}
  <2>1. q.at \in {"turn", "chat"} /\ Left(q) = Left(p) \ {w}
    BY <1>5, OnwardDoes DEF Fit
  <2>2. Done(p, R, T, w)
    <3>1. Wanted(p, w) \ S = Wanted(p, w)
      BY <1>5
    <3> QED BY <3>1 DEF Done
  <2> HIDE DEF q, w
  <2>3. GoneThrough(q, R, T)
    BY <1>1, <2>1, <2>2, SameWanted DEF GoneThrough, SameRead
  <2>4. AtHand(q, R, T)
    BY <2>1 DEF AtHand
  <2> QED BY <1>2, <1>3, <2>3, <2>4 DEF SoFar, q
<1> QED BY <1>4, <1>5

\* What s did so far, and what it has done after this step.
SoFarOf(s) == SoFar(request[s], kind, Members, repeats, routes, turn)
AllInPlace == InPlace(kind, Members, repeats, routes, deaf, turn)

LEMMA ReadKindsSoFar ==
    ASSUME Sound, KindInv, NEW s \in Requests, ReadKinds(s)
    PROVE  /\ request'[s] = Idle => AllInPlace'
           /\ request'[s] # Idle => SoFarOf(s)'
<1>1. TableType
  BY Parts
<1>2. UNCHANGED tables
  BY DEF ReadKinds
<1>3. CASE \A w \in there : kind[w] = None
  <2>1. {u \in Members : kind[u] # None} = {}
    BY <1>1, <1>3 DEF TableType
  <2>2. AllInPlace'
    BY <1>2, <2>1 DEF tables, Members, AllInPlace, InPlace
  <2>3. CASE request'[s] = Idle
    BY <2>2, <2>3
  <2>4. CASE request'[s] # Idle
    <3>1. /\ request'[s].at = "repeats" /\ request'[s].kinds = Known
          /\ request'[s].todo = Typed(request'[s], Ids)
      BY <2>4, ReadKindsDoes
    <3>2. Known = kind
      BY <1>1 DEF KindInv, Known, TableType
    <3>3. Switched(request'[s], repeats')
      BY <3>1 DEF Switched, ToDo
    <3>4. SoFarOf(s)'
      BY <1>2, <3>1, <3>2, <3>3 DEF SoFarOf, SoFar, AtHand, AtOne, tables
    <3> QED BY <2>4, <3>4
  <2> QED BY <2>3, <2>4
<1>4. CASE ~ \A w \in there : kind[w] = None
  <2>1. /\ request'[s].at = "repeats" /\ request'[s].kinds = Known
        /\ request'[s].todo = Typed(request'[s], Ids)
    BY <1>4, ReadKindsDoes
  <2>2. Known = kind
    BY <1>1 DEF KindInv, Known, TableType
  <2>3. Switched(request'[s], repeats')
    BY <2>1 DEF Switched, ToDo
  <2>4. SoFarOf(s)'
    BY <1>2, <2>1, <2>2, <2>3 DEF SoFarOf, SoFar, AtHand, AtOne, tables
  <2>5. request'[s] # Idle
    BY <2>1 DEF Idle
  <2> QED BY <2>4, <2>5
<1> QED BY <1>3, <1>4

LEMMA SetRepeatSoFar ==
    ASSUME Sound, KindInv, NEW s \in Requests, SetRepeat(s), SoFarOf(s)
    PROVE  SoFarOf(s)'
<1> DEFINE p == request[s]
           q == request'[s]
<1>1. TableType /\ Fit(p) /\ p.at = "repeats"
  BY Parts, FitEach DEF SetRepeat
<1>2. SameRead(p, q) /\ q.at \in {"repeats", "members"}
  BY SetRepeatDoes
<1>3. PICK w \in p.todo :
        /\ q.todo = p.todo \ {w} /\ (q.at = "members" => p.todo = {w})
        /\ repeats' = IF w \in there
                      THEN [repeats EXCEPT ![w] = p.kinds[w] \in Repeating] ELSE repeats
  BY SetRepeatDoes
<1>4. p.kinds = kind /\ Switched(p, repeats)
  BY <1>1 DEF SoFarOf, SoFar, Begun
<1>5. w \in Ids /\ w \in there
  BY <1>1, <1>4 DEF KindInv, Fit, LineOf, Typed
<1> HIDE DEF p, q
<1>6. repeats'[w] = (p.kinds[w] \in Repeating) /\ \A v \in Ids \ {w} : repeats'[v] = repeats[v]
  BY <1>1, <1>3, <1>5 DEF TableType
<1>7. Switched(q, repeats')
  <2> SUFFICES ASSUME NEW v \in Typed(q, Ids) \ ToDo(q)
               PROVE  repeats'[v] = (q.kinds[v] \in Repeating)
    BY DEF Switched
  <2>1. q.kinds = p.kinds /\ v \in Typed(p, Ids) /\ v \in Ids
    BY <1>2, SameWanted DEF SameRead, Typed
  <2>2. CASE v = w
    BY <1>6, <2>1, <2>2
  <2>3. CASE v # w
    <3>1. v \notin ToDo(p)
      BY <1>1, <1>2, <1>3, <2>3 DEF ToDo
    <3>2. repeats[v] = (p.kinds[v] \in Repeating)
      BY <1>4, <2>1, <3>1 DEF Switched
    <3> QED BY <1>6, <2>1, <2>3, <3>2
  <2> QED BY <2>2, <2>3
<1>8. kind' = kind
  BY DEF SetRepeat
<1> QED BY <1>2, <1>4, <1>7, <1>8 DEF SoFarOf, SoFar, AtHand, AtOne, SameRead, q

LEMMA ReadMembersSoFar ==
    ASSUME Sound, NEW s \in Requests, ReadMembers(s), SoFarOf(s)
    PROVE  /\ request'[s] = Idle => AllInPlace'
           /\ request'[s] # Idle => SoFarOf(s)'
<1> DEFINE p == request[s]
           q == request'[s]
<1>1. UNCHANGED tables /\ p.at = "members"
  BY DEF ReadMembers
<1>2. p.kinds = kind /\ Switched(p, repeats)
  BY <1>1 DEF SoFarOf, SoFar, Begun
<1>3. CASE q = Idle
  <2>1. Members = {} \/ Idle.at \in {"turn", "chat"}
    BY <1>3, ReadMembersDoes
  <2>2. Members = {}
    BY <2>1 DEF Idle
  <2> QED BY <1>1, <1>3, <2>2 DEF AllInPlace, InPlace, tables, Members
<1>4. CASE q # Idle
  <2>1. /\ q.kinds = p.kinds /\ q.here = Members /\ q.at \in {"turn", "chat"}
        /\ Left(q) = Typed(q, Members)
    BY <1>4, ReadMembersDoes
  <2> HIDE DEF p, q
  <2>2. Switched(q, repeats)
    BY <1>1, <1>2, <2>1 DEF Switched, ToDo, Typed
  <2>3. GoneThrough(q, routes, turn)
    BY <2>1 DEF GoneThrough
  <2>4. SoFar(q, kind, Members, repeats, routes, turn)
    BY <1>2, <2>1, <2>2, <2>3 DEF SoFar, AtHand
  <2>5. SoFarOf(s)'
    BY <1>1, <2>4 DEF SoFarOf, tables, Members, q
  <2> QED BY <1>4, <2>5 DEF q
<1> QED BY <1>3, <1>4

\* Where a request that gives turns or routes stands.
LEMMA InLine ==
    ASSUME Sound, NEW s \in Requests, SoFarOf(s), request[s].at \in AtOne
    PROVE  /\ request[s].kinds = kind /\ request[s].here = Members
           /\ Switched(request[s], repeats) /\ GoneThrough(request[s], routes, turn)
           /\ AtHand(request[s], routes, turn)
           /\ Foremost(request[s]) \in Left(request[s]) /\ Foremost(request[s]) \in Members
           /\ Foremost(request[s]) \in Ids
<1>1. Fit(request[s])
  BY Parts, FitEach
<1>2. Foremost(request[s]) \in Left(request[s]) /\ Foremost(request[s]) \in Ids
  BY <1>1, AtHandFit
<1>3. request[s].here = Members
  BY DEF SoFarOf, SoFar
<1>4. Foremost(request[s]) \in Members
  BY <1>1, <1>2, <1>3 DEF Fit, LineOf, Typed
<1> QED BY <1>2, <1>3, <1>4 DEF SoFarOf, SoFar, AtOne, Begun

LEMMA CountTurnSoFar ==
    ASSUME Sound, NEW s \in Requests, CountTurn(s), SoFarOf(s)
    PROVE  SoFarOf(s)'
<1> DEFINE p == request[s]
           q == request'[s]
<1>1. UNCHANGED tables /\ p.at = "turn"
  BY DEF CountTurn
<1>2. /\ p.kinds = kind /\ p.here = Members /\ Switched(p, repeats)
      /\ GoneThrough(p, routes, turn) /\ Foremost(p) \in Members
  BY <1>1, InLine DEF AtOne
<1>3. /\ SameRead(p, q) /\ q.line = p.line
      /\ \/ q.at = "give" /\ q.next # 0
         \/ /\ q.at = "wipe"
            /\ Foremost(p) \in Members =>
                  (p.kinds[Foremost(p)] \notin TakesTurns \/ turn[Foremost(p)] # 0)
  BY CountTurnDoes
<1> HIDE DEF p, q
<1>4. Left(q) = Left(p) /\ Foremost(q) = Foremost(p)
  BY <1>3, SameLine
<1>5. Switched(q, repeats)
  BY <1>1, <1>2, <1>3, SameWanted DEF Switched, ToDo, SameRead
<1>6. GoneThrough(q, routes, turn)
  BY <1>2, <1>3, <1>4, SameWanted DEF GoneThrough, SameRead
<1>7. AtHand(q, routes, turn)
  BY <1>2, <1>3, <1>4 DEF AtHand, HasTurn, SameRead
<1>8. SoFar(q, kind, Members, repeats, routes, turn)
  BY <1>2, <1>3, <1>5, <1>6, <1>7 DEF SoFar, SameRead
<1> QED BY <1>1, <1>8 DEF SoFarOf, tables, Members, q

LEMMA GiveTurnSoFar ==
    ASSUME Sound, NEW s \in Requests, GiveTurn(s), SoFarOf(s)
    PROVE  SoFarOf(s)'
<1> DEFINE p == request[s]
           q == request'[s]
           w == Foremost(request[s])
<1>0. TableType /\ p \in RequestType
  BY Parts, FitEach DEF Fit
<1>1. /\ kind' = kind /\ joined' = joined /\ repeats' = repeats /\ routes' = routes
      /\ p.at = "give"
      /\ turn' = IF p.next # 0 /\ w \in Members /\ turn[w] = 0
                 THEN [turn EXCEPT ![w] = p.next] ELSE turn
  BY DEF GiveTurn
<1>2. /\ p.kinds = kind /\ p.here = Members /\ Switched(p, repeats)
      /\ GoneThrough(p, routes, turn) /\ w \in Members /\ w \in Ids /\ AtHand(p, routes, turn)
  BY <1>1, InLine DEF AtOne
<1>3. SameRead(p, q) /\ q.line = p.line /\ q.at = "wipe"
  BY GiveTurnDoes
<1>4. Left(q) = Left(p) /\ Foremost(q) = w
  BY <1>3, SameLine
<1>5. p.next # 0
  BY <1>1, <1>2 DEF AtHand
<1> HIDE DEF p, q, w
<1>6. turn'[w] # 0 /\ \A v \in Ids : turn[v] # 0 => turn'[v] # 0
  BY <1>0, <1>1, <1>2, <1>5 DEF TableType
<1>7. Switched(q, repeats)
  BY <1>1, <1>2, <1>3, SameWanted DEF Switched, ToDo, SameRead
<1>8. GoneThrough(q, routes, turn')
  <2>1. \A v \in Typed(p, p.here) \ Left(p) : v \in Ids /\ Done(p, routes, turn, v)
    BY <1>0, <1>2 DEF GoneThrough, Typed, RequestType
  <2>2. \A v \in Ids : Done(p, routes, turn, v) => Done(p, routes, turn', v)
    BY <1>6 DEF Done, HasTurn
  <2> QED BY <1>3, <1>4, <2>1, <2>2, SameWanted DEF GoneThrough, SameRead
<1>9. AtHand(q, routes, turn')
  BY <1>3, <1>4, <1>6 DEF AtHand, HasTurn
<1>10. SoFar(q, kind, Members, repeats, routes, turn')
  BY <1>2, <1>3, <1>7, <1>8, <1>9 DEF SoFar, SameRead
<1>11. Members' = Members
  BY <1>1 DEF Members
<1> QED BY <1>1, <1>10, <1>11 DEF SoFarOf, q

\* Routes of one sender do not touch those of another.
LEMMA OthersWired ==
    ASSUME NEW p, NEW R, NEW Q, NEW T, GoneThrough(p, R, T), NEW w, w \in Left(p),
           \A v : v # w => {t \in Q : t[1] = v} = {t \in R : t[1] = v}
    PROVE  GoneThrough(p, Q, T)
<1> SUFFICES ASSUME NEW v \in Typed(p, p.here) \ Left(p) PROVE Done(p, Q, T, v)
  BY DEF GoneThrough
<1>1. Done(p, R, T, v) /\ v # w
  BY DEF GoneThrough
<1>2. {t \in Q : t[1] = v} = {t \in R : t[1] = v}
  BY <1>1
<1> QED BY <1>1, <1>2 DEF Done, Wired

LEMMA WipeSoFar ==
    ASSUME Sound, NEW s \in Requests, Wipe(s), SoFarOf(s)
    PROVE  SoFarOf(s)'
<1> DEFINE p == request[s]
           w == Foremost(request[s])
           S == Wanted(request[s], Foremost(request[s]))
<1>1. /\ kind' = kind /\ Members' = Members /\ repeats' = repeats /\ turn' = turn
      /\ p.at = "wipe" /\ routes' = {t \in routes : t[1] # w}
  BY DEF Wipe, Members
<1>2. /\ p.kinds = kind /\ p.here = Members /\ Switched(p, repeats) /\ w \in Left(p)
      /\ GoneThrough(p, routes, turn) /\ AtHand(p, routes, turn)
  BY <1>1, InLine DEF AtOne
<1>3. request'[s] = Onward(p, S) /\ Fit(p)
  BY WipeDoes, Parts, FitEach
<1> HIDE DEF p, w
<1>4. \A v : v # w => {t \in routes' : t[1] = v} = {t \in routes : t[1] = v}
  BY <1>1
<1>5. GoneThrough(p, routes', turn)
  BY <1>2, <1>4, OthersWired
<1>6. HasTurn(turn, p, w)
  BY <1>1, <1>2 DEF AtHand, p, w
<1>7. Wired(routes', w, S \ S)
  BY <1>1 DEF Wired
<1> HIDE DEF S
<1>8. SoFar(Onward(p, S), kind, Members, repeats, routes', turn)
  BY <1>1, <1>2, <1>3, <1>5, <1>6, <1>7, OnwardSoFar DEF S, w, p
<1> QED BY <1>1, <1>3, <1>8 DEF SoFarOf

LEMMA WireSoFar ==
    ASSUME Sound, NEW s \in Requests, Wire(s), SoFarOf(s)
    PROVE  SoFarOf(s)'
<1> DEFINE p == request[s]
           w == Foremost(request[s])
<1>1. /\ kind' = kind /\ Members' = Members /\ repeats' = repeats /\ turn' = turn /\ p.at = "wire"
  BY DEF Wire, Members
<1>2. /\ p.kinds = kind /\ p.here = Members /\ Switched(p, repeats) /\ w \in Left(p)
      /\ GoneThrough(p, routes, turn) /\ AtHand(p, routes, turn)
  BY <1>1, InLine DEF AtOne
<1>3. PICK u \in p.todo : /\ request'[s] = Onward(p, p.todo \ {u})
                          /\ routes' = routes \cup {<<w, u>>}
  BY WireDoes
<1>4. Fit(p)
  BY Parts, FitEach
<1> HIDE DEF p, w
<1>5. \A v : v # w => {t \in routes' : t[1] = v} = {t \in routes : t[1] = v}
  BY <1>3
<1>6. GoneThrough(p, routes', turn)
  BY <1>2, <1>5, OthersWired
<1>7. /\ HasTurn(turn, p, w) /\ p.todo \subseteq Wanted(p, w)
      /\ Wired(routes, w, Wanted(p, w) \ p.todo)
  BY <1>1, <1>2 DEF AtHand, p, w
<1>8. Wired(routes', w, Wanted(p, w) \ (p.todo \ {u}))
  <2>1. Wanted(p, w) \ (p.todo \ {u}) = (Wanted(p, w) \ p.todo) \cup {u}
    BY <1>7
  <2>2. {t \in routes' : t[1] = w} = {t \in routes : t[1] = w} \cup {<<w, u>>}
    BY <1>3
  <2> QED BY <1>7, <2>1, <2>2 DEF Wired
<1>9. p.todo \ {u} \subseteq Wanted(p, w)
  BY <1>7
<1>10. SoFar(Onward(p, p.todo \ {u}), kind, Members, repeats, routes', turn)
  BY <1>1, <1>2, <1>4, <1>6, <1>7, <1>8, <1>9, OnwardSoFar DEF w, p
<1> QED BY <1>1, <1>3, <1>10 DEF SoFarOf

LEMMA ReadChatSoFar ==
    ASSUME Sound, NEW s \in Requests, ReadChat(s), SoFarOf(s)
    PROVE  SoFarOf(s)'
<1> DEFINE p == request[s]
           q == request'[s]
<1>1. UNCHANGED tables /\ p.at = "chat"
  BY DEF ReadChat
<1>2. /\ p.kinds = kind /\ p.here = Members /\ Switched(p, repeats)
      /\ GoneThrough(p, routes, turn)
  BY <1>1 DEF SoFarOf, SoFar, Begun
<1>3. SameRead(p, q) /\ q.line = p.line /\ q.at = "write"
  BY ReadChatDoes
<1> HIDE DEF p, q
<1>4. Left(q) = Left(p)
  BY <1>3, SameLine
<1>5. Switched(q, repeats)
  BY <1>1, <1>2, <1>3, SameWanted DEF Switched, ToDo, SameRead
<1>6. GoneThrough(q, routes, turn)
  BY <1>2, <1>3, <1>4, SameWanted DEF GoneThrough, SameRead
<1>7. SoFar(q, kind, Members, repeats, routes, turn)
  BY <1>2, <1>3, <1>5, <1>6 DEF SoFar, AtHand, SameRead
<1> QED BY <1>1, <1>7 DEF SoFarOf, tables, Members, q

\* With the last chat everything is what the kinds say.
LEMMA WriteChatPlaces ==
    ASSUME Sound, NEW s \in Requests, WriteChat(s), SoFarOf(s)
    PROVE  AllInPlace'
<1> DEFINE p == request[s]
<1>0. Fit(p) /\ Members \subseteq Ids
  BY Parts, FitEach DEF Members
<1>1. /\ kind' = kind /\ Members' = Members /\ repeats' = repeats /\ routes' = routes
      /\ turn' = turn /\ p.at = "write" /\ deaf' = DeafTo(p)
  BY DEF WriteChat, Members
<1>2. /\ p.kinds = kind /\ p.here = Members /\ Switched(p, repeats)
      /\ GoneThrough(p, routes, turn) /\ Left(p) = {}
  BY <1>0, <1>1 DEF SoFarOf, SoFar, Begun, Fit, LineOf, AtOne
<1> HIDE DEF p
<1>3. ASSUME NEW w \in Members, kind[w] # None
      PROVE  /\ Wired(routes, w, {u \in Members : kind[u] # None /\ u # w
                                                  /\ kind[u] \in SendsTo(kind[w])})
             /\ repeats[w] = (kind[w] \in Repeating)
             /\ (w \in deaf') = (kind[w] \in Unheard)
             /\ kind[w] \in TakesTurns => turn[w] # 0
  <2>1. w \in Typed(p, p.here) \ Left(p) /\ w \in Typed(p, Ids) \ ToDo(p)
    BY <1>0, <1>1, <1>2, <1>3 DEF Typed, ToDo
  <2>2. Done(p, routes, turn, w)
    BY <1>2, <2>1 DEF GoneThrough
  <2>3. Wanted(p, w) = {u \in Members : kind[u] # None /\ u # w /\ kind[u] \in SendsTo(kind[w])}
    BY <1>2 DEF Wanted, Typed
  <2>4. w \in deaf' <=> kind[w] \in Unheard
    BY <1>1, <1>2, <2>1 DEF DeafTo, Typed
  <2>5. repeats[w] = (kind[w] \in Repeating)
    BY <1>2, <2>1 DEF Switched
  <2>6. (w \in deaf') = (kind[w] \in Unheard)
    BY <2>4
  <2> QED BY <1>2, <2>2, <2>3, <2>5, <2>6 DEF Done, HasTurn
<1> HIDE DEF p
<1> QED BY <1>1, <1>3 DEF AllInPlace, InPlace

LEMMA ApplyDoes ==
    ASSUME Sound, NEW s \in Requests, Apply(s) \/ Unroute(s) \/ Crash(s)
    PROVE  /\ request[s].at # "idle" /\ kind' = kind /\ there' = there
           /\ \A r \in Requests \ {s} :
                 request'[r].at = request[r].at /\ request'[r].alone = request[r].alone
           /\ \/ /\ request'[s] = Idle
                 /\ settled' = settled \/ settled' = request[s].alone
              \/ /\ request'[s].at # "idle" /\ request'[s].alone = request[s].alone
                 /\ settled' = settled
<1>1. AllFit /\ request[s] \in RequestType
  BY Parts, FitEach DEF Fit
<1>2. \A S : SameRead(request[s], Onward(request[s], S)) /\ Onward(request[s], S).at # "idle"
  BY <1>1, OnwardDoes, Zenon
<1>3. CASE ReadKinds(s)
  BY <1>3, ReadKindsDoes DEF ReadKinds, tables, Only
<1>4. CASE SetRepeat(s)
  BY <1>4, SetRepeatDoes DEF SetRepeat, Only, SameRead
<1>5. CASE ReadMembers(s)
  BY <1>5, ReadMembersDoes DEF ReadMembers, tables, Only
<1>6. CASE CountTurn(s)
  BY <1>6, CountTurnDoes DEF CountTurn, tables, Only, SameRead
<1>7. CASE GiveTurn(s)
  BY <1>7, GiveTurnDoes DEF GiveTurn, SameRead
<1>8. CASE Wipe(s)
  BY <1>2, <1>8, WipeDoes DEF Wipe, Only, SameRead
<1>9. CASE Wire(s)
  BY <1>2, <1>9, WireDoes DEF Wire, Only, SameRead
<1>10. CASE ReadChat(s)
  BY <1>10, ReadChatDoes DEF ReadChat, tables, Only, SameRead
<1>11. CASE WriteChat(s)
  <2>1. settled' = request[s].alone /\ kind' = kind /\ there' = there /\ request[s].at = "write"
    BY <1>11 DEF WriteChat
  <2> QED BY <1>11, <2>1, WriteChatDoes
<1>12. CASE Unroute(s)
  BY <1>12, UnrouteDoes DEF Unroute, Only
<1>13. CASE Crash(s)
  BY <1>1, <1>13, GoesDoes DEF Crash, tables, Only
<1> QED BY <1>3, <1>4, <1>5, <1>6, <1>7, <1>8, <1>9, <1>10, <1>11, <1>12, <1>13 DEF Apply

LEMMA ApplySoFar ==
    ASSUME Sound, KindInv, NEW s \in Requests, Apply(s) \/ Unroute(s) \/ Crash(s), SoFarOf(s)
    PROVE  /\ request'[s] = Idle => AllInPlace' \/ settled' = settled
           /\ request'[s] # Idle => SoFarOf(s)'
<1>1. CASE ReadKinds(s) \/ ReadMembers(s)
  BY <1>1, ReadKindsSoFar, ReadMembersSoFar
<1>2. CASE SetRepeat(s) \/ CountTurn(s) \/ GiveTurn(s) \/ Wipe(s) \/ Wire(s) \/ ReadChat(s)
  <2>1. SoFarOf(s)'
    BY <1>2, SetRepeatSoFar, CountTurnSoFar, GiveTurnSoFar, WipeSoFar, WireSoFar, ReadChatSoFar
  <2>2. settled' = settled
    BY <1>2 DEF SetRepeat, CountTurn, GiveTurn, Wipe, Wire, ReadChat
  <2> QED BY <2>1, <2>2
<1>3. CASE WriteChat(s)
  BY <1>3, WriteChatPlaces, WriteChatDoes
<1>4. CASE Unroute(s)
  <2>1. request'[s].at = "kinds" /\ settled' = settled
    BY <1>4, UnrouteDoes DEF Unroute
  <2> QED BY <2>1 DEF SoFarOf, SoFar, AtHand, AtOne, Begun
<1>5. CASE Crash(s)
  BY <1>5, Parts, GoesDoes DEF Crash
<1> QED BY <1>1, <1>2, <1>3, <1>4, <1>5 DEF Apply

\* While one is alone nobody else is under way, and when it is done it was.
LEMMA ApplyFollows ==
    ASSUME Sound, FollowInv, NEW s \in Requests, Apply(s) \/ Unroute(s) \/ Crash(s)
    PROVE  FollowInv'
<1>1. /\ request[s].at # "idle" /\ kind' = kind /\ there' = there
      /\ \A r \in Requests \ {s} :
            request'[r].at = request[r].at /\ request'[r].alone = request[r].alone
      /\ \/ /\ request'[s] = Idle
            /\ settled' = settled \/ settled' = request[s].alone
         \/ /\ request'[s].at # "idle" /\ request'[s].alone = request[s].alone
            /\ settled' = settled
  BY ApplyDoes
<1>2. Idle.at = "idle" /\ ~ Idle.alone
  BY DEF Idle
<1>3. ~ settled
  BY <1>1 DEF FollowInv, SettledInv, Busy
<1>4. KindInv'
  BY <1>1 DEF FollowInv, KindInv
<1>5. \A r \in Requests \ {s} : ~ request'[r].alone
  BY <1>1 DEF FollowInv, AloneInv
<1>6. request[s].alone => \A r \in Requests \ {s} : request'[r].at = "idle"
  BY <1>1 DEF FollowInv, AloneInv
<1>7. request'[s].alone => request[s].alone /\ request'[s].at # "idle"
  BY <1>1, <1>2
<1>8. AloneInv'
  BY <1>5, <1>6, <1>7 DEF AloneInv
<1>9. request[s].alone => /\ request'[s] = Idle => AllInPlace' \/ settled' = settled
                          /\ request'[s] # Idle => SoFarOf(s)'
  BY ApplySoFar DEF FollowInv, SoFarInv, SoFarOf
<1>10. SoFarInv'
  <2> SUFFICES ASSUME NEW r \in Requests, request'[r].alone PROVE SoFarOf(r)'
    BY DEF SoFarInv, SoFarOf
  <2>1. r = s /\ request[s].alone /\ request'[s] # Idle
    BY <1>2, <1>5, <1>7
  <2> QED BY <1>9, <2>1
<1>11. SettledInv'
  <2> SUFFICES ASSUME settled' PROVE Busy' = {} /\ AllInPlace'
    BY DEF SettledInv, AllInPlace
  <2>1. request'[s] = Idle /\ request[s].alone
    BY <1>1, <1>3
  <2>2. Busy' = {}
    BY <1>2, <1>6, <2>1 DEF Busy
  <2> QED BY <1>3, <1>9, <2>1, <2>2
<1> QED BY <1>4, <1>8, <1>10, <1>11 DEF FollowInv

LEMMA ConsoleFollows ==
    ASSUME Sound, FollowInv, NEW s \in Requests, NEW w \in Ids,
           \/ Leave(s, w) \/ Join(s, w)
           \/ \E k \in KINDS \cup {None} : SetKind(s, w, k)
    PROVE  FollowInv'
<1>1. TableType /\ AllFit
  BY Parts
<1>2. /\ settled' = FALSE /\ request[s].at = "idle"
      /\ request'[s].at \in Begun
      /\ \/ ~ request'[s].alone
         \/ Busy = {} /\ request'[s].at # "idle"
         \/ request[s].alone /\ request'[s].at = "idle"
      /\ \A r \in Requests \ {s} : request'[r].at = request[r].at /\ ~ request'[r].alone
  BY <1>1, BeginsDoes DEF Begun
<1>3. ~ request[s].alone
  BY <1>2 DEF FollowInv, AloneInv
<1>4. AloneInv'
  BY <1>2, <1>3 DEF AloneInv, Busy
<1>5. SoFarInv'
  BY <1>2 DEF SoFarInv, SoFar, AtHand, AtOne, Begun
<1>6. KindInv'
  BY <1>1 DEF FollowInv, KindInv, TableType, Leave, Join, SetKind
<1> QED BY <1>2, <1>4, <1>5, <1>6 DEF FollowInv, SettledInv

\* Who is removed leaves the others as they should be.
LEMMA RemoveFollows ==
    ASSUME Sound, FollowInv, NEW w \in Ids, Remove(w)
    PROVE  FollowInv'
<1>1. TableType /\ AllFit
  BY Parts
<1>2. \A r \in Requests : request'[r].at = request[r].at /\ ~ request'[r].alone
  BY <1>1, DisturbedDoes DEF Remove
<1>3. KindInv'
  BY <1>1 DEF FollowInv, KindInv, TableType, Remove
<1>4. Members' = Members \ {w} /\ w \in there
  BY <1>1 DEF Remove, Without, TableType, Members
<1>5. ASSUME settled PROVE Busy' = {} /\ AllInPlace'
  <2>1. Busy' = {} /\ AllInPlace
    BY <1>2, <1>5 DEF FollowInv, SettledInv, Busy, AllInPlace
  <2>2. /\ kind' = [kind EXCEPT ![w] = None] /\ repeats' = repeats /\ turn' = turn
        /\ routes' = {t \in routes : w \notin {t[1], t[2]}} /\ deaf' = deaf \ {w}
    BY DEF Remove
  <2>3. \A u \in Ids \ {w} : kind'[u] = kind[u]
    BY <1>1, <2>2 DEF TableType
  <2>4. Members \subseteq Ids
    BY DEF Members
  <2> SUFFICES ASSUME NEW v \in Members', kind'[v] # None
               PROVE  /\ Wired(routes', v, {u \in Members' : kind'[u] # None /\ u # v
                                                  /\ kind'[u] \in SendsTo(kind'[v])})
                      /\ repeats'[v] = (kind'[v] \in Repeating)
                      /\ (v \in deaf') = (kind'[v] \in Unheard)
                      /\ kind'[v] \in TakesTurns => turn'[v] # 0
    BY <2>1 DEF AllInPlace, InPlace
  <2>5. v \in Members /\ v # w /\ kind'[v] = kind[v] /\ kind[v] # None
    BY <1>4, <2>3, <2>4
  <2> DEFINE S == {u \in Members : kind[u] # None /\ u # v /\ kind[u] \in SendsTo(kind[v])}
  <2>6. /\ Wired(routes, v, S) /\ repeats[v] = (kind[v] \in Repeating)
        /\ (v \in deaf) = (kind[v] \in Unheard)
        /\ kind[v] \in TakesTurns => turn[v] # 0
    BY <2>1, <2>5 DEF AllInPlace, InPlace
  <2>7. {u \in Members' : kind'[u] # None /\ u # v /\ kind'[u] \in SendsTo(kind'[v])} = S \ {w}
    BY <1>4, <2>3, <2>4, <2>5
  <2>8. Wired(routes', v, S \ {w})
    <3> HIDE DEF S
    <3>1. {t \in routes' : t[1] = v} = {t \in {x \in routes : x[1] = v} : t[2] # w}
      BY <2>2, <2>5
    <3>2. {t \in routes : t[1] = v} = {<<v, u>> : u \in S}
      BY <2>6 DEF Wired
    <3>3. {t \in {<<v, u>> : u \in S} : t[2] # w} = {<<v, u>> : u \in S \ {w}}
      OBVIOUS
    <3> QED BY <3>1, <3>2, <3>3 DEF Wired
  <2>9. (v \in deaf') = (v \in deaf)
    BY <2>2, <2>5
  <2> QED BY <2>2, <2>5, <2>6, <2>7, <2>8, <2>9
<1>6. SettledInv'
  BY <1>5 DEF Remove, SettledInv, AllInPlace
<1> QED BY <1>2, <1>3, <1>6 DEF FollowInv, AloneInv, SoFarInv

LEMMA HandFollows ==
    ASSUME Sound, FollowInv, NEW v \in Ids, NEW w \in Ids,
           SetRoute(v, w) \/ SetRepeats(w) \/ Hears(w) \/ Reissue(w, v)
    PROVE  FollowInv'
<1>1. TableType /\ AllFit
  BY Parts
<1>2. \A r \in Requests : ~ request'[r].alone
  BY <1>1, DisturbedDoes DEF SetRoute, SetRepeats, Hears, Reissue
<1>3. settled' = FALSE
  BY DEF SetRoute, SetRepeats, Hears, Reissue
<1>4. KindInv'
  BY <1>1 DEF FollowInv, KindInv, TableType, SetRoute, SetRepeats, Hears, Reissue
<1> QED BY <1>2, <1>3, <1>4 DEF FollowInv, AloneInv, SoFarInv, SettledInv

LEMMA FollowsInvAlways == Spec => []FollowInv
<1>1. Init => FollowInv
  <2> SUFFICES ASSUME Init PROVE FollowInv
    OBVIOUS
  <2>1. \A s \in Requests : ~ request[s].alone
    BY DEF Init, Idle
  <2> QED BY <2>1 DEF Init, FollowInv, KindInv, AloneInv, SoFarInv, SettledInv
<1>2. Sound /\ FollowInv /\ [Next]_vars => FollowInv'
  <2> SUFFICES ASSUME Sound, FollowInv, [Next]_vars PROVE FollowInv'
    OBVIOUS
  <2>1. ASSUME NEW s \in Requests, Apply(s) \/ Unroute(s) \/ Crash(s) PROVE FollowInv'
    BY <2>1, ApplyFollows
  <2>2. ASSUME NEW s \in Requests, NEW w \in Ids,
               Join(s, w) \/ Leave(s, w) \/ \E k \in KINDS \cup {None} : SetKind(s, w, k)
        PROVE  FollowInv'
    BY <2>2, ConsoleFollows
  <2>3. ASSUME NEW w \in Ids, Remove(w) \/ SetRepeats(w) \/ Hears(w)
                              \/ \E v \in Ids : SetRoute(v, w) \/ Reissue(w, v)
        PROVE  FollowInv'
    BY <2>3, RemoveFollows, HandFollows
  <2>4. CASE UNCHANGED vars
    BY <2>4 DEF vars, tables, FollowInv, KindInv, AloneInv, SoFarInv, SettledInv, Busy, Members
  <2> QED BY <2>1, <2>2, <2>3, <2>4 DEF Next
<1> QED BY <1>1, <1>2, SoundAlways, PTL DEF Spec

\* "Every switch that follows from it is set when it is named, and set again
\* whenever anything about the workspace changes" (pgstore.py:69): after any
\* joining, leaving, naming, reissuing and removing, and whatever requests that
\* died left half done, once apply_kinds had the workspace to itself every typed
\* member has the routes, the switch and the turn of its kind, and the chat hears
\* just those it should.
THEOREM FollowsAlways == Spec => []Follows
BY FollowsInvAlways, InPlaceFollows, PTL DEF FollowInv
=============================================================================
