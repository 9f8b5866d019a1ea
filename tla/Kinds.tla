------------------------------- MODULE Kinds -------------------------------
(***************************************************************************)
(* What follows from what a worker is: relay/kinds.py, and the statements  *)
(* of relay/pgstore.py that set the switches of a workspace by it and by   *)
(* hand.  apply_kinds reads the kinds, the members and the chats, and      *)
(* writes from what it read in statements that each commit on their own,   *)
(* while another request may do the same.                                  *)
(*                                                                         *)
(* Abstractions.  One channel with one chat.  Turns by hand are in Queue;  *)
(* cursors, notices and a member's own may_repeat are not touched by       *)
(* kinds.  Requests bounds how many run at once, Histories what they do.   *)
(***************************************************************************)
EXTENDS Integers, FiniteSets, Sequences

CONSTANTS
    Ids,        \* worker ids that exist or may be issued
    First,      \* [Ids -> when it joined the channel, 0 if it is not in it at the start]
    Requests,   \* what the console has under way at once
    None,       \* no kind
    Histories   \* a prefix-closed set of sequences of acts

\* An id is 16 random bytes.
ASSUME KindsAssumption ==
    /\ IsFiniteSet(Ids) /\ First \in [Ids -> Nat]
    /\ <<>> \in Histories

\* KINDS.  The rest of them is about what a console shows.
KINDS ==
    {"gmail-alert", "vollna-scraper", "proposal-writer", "repo-finder", "github-editor",
     "linkedin-harvester", "linkedin-handler"}

ASSUME NoKindAssumption == None \notin KINDS

Repeating == {"vollna-scraper"}
Unheard == {"vollna-scraper", "repo-finder", "github-editor", "linkedin-handler"}
TakesTurns == {"linkedin-handler"}
\* The README's table has a repo finder reach the GitHub editor (README.md:447);
\* KINDS has it answer the proposal writer, and so does the test of it.
SendsTo(k) ==
    CASE k = "proposal-writer" -> {"repo-finder"}
      [] k \in {"repo-finder", "github-editor"} -> {"proposal-writer"}
      [] OTHER -> {}

VARIABLES
    there,      \* workers
    kind,       \* [Ids -> KINDS \cup {None}]
    repeats,    \* workers.may_repeat
    joined,     \* members.joined_at, 0 for who is not in the channel
    turn,       \* members.priority, 0 for NULL
    routes,     \* <<sender, recipient>>
    deaf,       \* bot_members.deaf_to of the chat
    request,    \* [Requests -> what it is doing, from what it read]
    acts,
    settled,    \* history: the last of apply_kinds had the workspace to itself,
                \* and nothing it decides was changed since
    tied        \* history: those whose turn was counted while another was given

tables == <<there, kind, repeats, joined, turn, routes, deaf>>
vars == <<tables, request, acts, settled, tied>>

-----------------------------------------------------------------------------

Members == {w \in Ids : joined[w] # 0}
Largest(S) == CHOOSE n \in S : \A m \in S : m <= n

\* Mutant: the membership stays.
Kept(w) == joined

Without(w) == [joined EXCEPT ![w] = 0]

Act(what) == Append(acts, what) \in Histories /\ acts' = Append(acts, what)

Idle == [at |-> "idle", kinds |-> [w \in Ids |-> None], todo |-> {},
         line |-> [w \in Ids |-> 0], next |-> 0, behind |-> FALSE,
         here |-> {}, heard |-> {}, stale |-> {}, alone |-> FALSE]
Busy == {s \in Requests : request[s].at # "idle"}

\* What the request read: its typed workers, and what their kinds say.
Typed(p, S) == {w \in S : p.kinds[w] # None}

\* Who of those it goes through is left, and whose turn it is.
Left(p) == {w \in Ids : p.line[w] # 0}
Foremost(p) == CHOOSE w \in Left(p) : \A v \in Left(p) : p.line[w] <= p.line[v]

\* Mutant: the recipients are those that send to this worker.
WantedBack(p, w) == {v \in Typed(p, p.here) \ {w} : p.kinds[w] \in SendsTo(p.kinds[v])}

Wanted(p, w) == {v \in Typed(p, p.here) \ {w} : p.kinds[v] \in SendsTo(p.kinds[w])}

\* Others are in the middle of theirs.
Others(s) == [r \in Requests |-> [request[r] EXCEPT !.alone = @ /\ r = s]]
Start(s) ==
    request' = [Others(s) EXCEPT ![s] = [Idle EXCEPT !.at = "kinds", !.alone = Busy = {}]]

\* s goes on with p; nothing but what is named changes.
Goes(s, p) == request' = [request EXCEPT ![s] = p] /\ UNCHANGED acts
Finish(s) == Goes(s, Idle) /\ settled' = request[s].alone

-----------------------------------------------------------------------------
(* apply_kinds, one statement at a time.                                   *)

ReadKinds(s) ==
    LET known == [w \in Ids |-> IF w \in there THEN kind[w] ELSE None]
        typed == {w \in Ids : known[w] # None}
    IN /\ request[s].at = "kinds"
       /\ IF typed = {} THEN Finish(s)
          ELSE Goes(s, [request[s] EXCEPT !.at = "repeats", !.kinds = known, !.todo = typed])
               /\ UNCHANGED settled
       /\ UNCHANGED <<tables, tied>>

SetRepeat(s) ==
    LET p == request[s]
    IN /\ p.at = "repeats"
       /\ \E w \in p.todo :
             /\ repeats' = IF w \in there
                           THEN [repeats EXCEPT ![w] = p.kinds[w] \in Repeating] ELSE repeats
             /\ Goes(s, [p EXCEPT !.todo = @ \ {w},
                                  !.at = IF p.todo = {w} THEN "members" ELSE "repeats"])
       /\ UNCHANGED <<there, kind, joined, turn, routes, deaf, settled, tied>>

\* ORDER BY joined_at: the typed ones are gone through in that order.
ReadMembers(s) ==
    LET p == request[s]
        line == [w \in Ids |-> IF p.kinds[w] # None THEN joined[w] ELSE 0]
    IN /\ p.at = "members"
       /\ IF Members = {} THEN Finish(s)
          ELSE Goes(s, [p EXCEPT !.here = Members, !.line = line,
                                 !.at = IF Typed(p, Members) = {} THEN "chat" ELSE "turn"])
               /\ UNCHANGED settled
       /\ UNCHANGED <<tables, tied>>

\* Mutant: a turn is one more than how many have one.
CountedTurn(w) == Cardinality({v \in Members : turn[v] # 0}) + 1

\* COALESCE(MAX(priority), 0) + 1
NextTurn(w) == Largest({0} \cup {turn[v] : v \in Members}) + 1

\* The UPDATE sees what was committed when it began, 0 if it finds no row ...
CountTurn(s) ==
    LET p == request[s]
        w == Foremost(p)
        due == w \in Members /\ p.kinds[w] \in TakesTurns /\ turn[w] = 0
    IN /\ p.at = "turn"
       /\ Goes(s, [p EXCEPT !.at = IF due THEN "give" ELSE "wipe",
                            !.next = IF due THEN NextTurn(w) ELSE 0, !.behind = FALSE])
       /\ UNCHANGED <<tables, settled, tied>>

\* ... and looks at the row again when it has it.
GiveTurn(s) ==
    LET p == request[s]
        w == Foremost(p)
        given == p.next # 0 /\ w \in Members /\ turn[w] = 0
    IN /\ p.at = "give"
       /\ turn' = IF given THEN [turn EXCEPT ![w] = p.next] ELSE turn
       /\ tied' = IF given /\ p.behind THEN tied \cup {w} ELSE tied
       /\ request' = [r \in Requests |->
             IF r = s THEN [p EXCEPT !.at = "wipe", !.next = 0]
             ELSE [request[r] EXCEPT !.behind = @ \/ given]]
       /\ UNCHANGED <<there, kind, repeats, joined, routes, deaf, acts, settled>>

\* The next of the line, or the chats.
Onward(p, wanted) ==
    IF wanted # {} THEN [p EXCEPT !.at = "wire", !.todo = wanted]
    ELSE [p EXCEPT !.todo = {}, !.line = [@ EXCEPT ![Foremost(p)] = 0],
                   !.at = IF Left(p) = {Foremost(p)} THEN "chat" ELSE "turn"]

Wipe(s) ==
    LET p == request[s]
    IN /\ p.at = "wipe"
       /\ routes' = {t \in routes : t[1] # Foremost(p)}
       /\ Goes(s, Onward(p, Wanted(p, Foremost(p))))
       /\ UNCHANGED <<there, kind, repeats, joined, turn, deaf, settled, tied>>

Wire(s) ==
    LET p == request[s]
    IN /\ p.at = "wire"
       /\ \E v \in p.todo :
             /\ routes' = routes \cup {<<Foremost(p), v>>}
             /\ Goes(s, Onward(p, p.todo \ {v}))
       /\ UNCHANGED <<there, kind, repeats, joined, turn, deaf, settled, tied>>

ReadChat(s) ==
    LET p == request[s]
    IN /\ p.at = "chat"
       /\ Goes(s, [p EXCEPT !.at = "write", !.heard = deaf, !.stale = {}])
       /\ UNCHANGED <<tables, settled, tied>>

\* Mutant: what a person silenced is forgotten.
DeafAnew(p) == {w \in Typed(p, p.here) : p.kinds[w] \in Unheard}

\* What a person said of the untyped stands; what the kinds say of the typed.
DeafTo(p) == (p.heard \ Typed(p, p.here)) \cup {w \in Typed(p, p.here) : p.kinds[w] \in Unheard}

WriteChat(s) ==
    LET to == DeafTo(request[s])
    IN /\ request[s].at = "write"
       /\ deaf' = to
       /\ request' = [r \in Requests |-> IF r = s THEN Idle ELSE
                         [request[r] EXCEPT !.stale = @ \cup (deaf \ to) \cup (to \ deaf)]]
       /\ settled' = request[s].alone
       /\ UNCHANGED <<there, kind, repeats, joined, turn, routes, acts, tied>>

Apply(s) ==
    \/ ReadKinds(s) \/ SetRepeat(s) \/ ReadMembers(s) \/ CountTurn(s) \/ GiveTurn(s)
    \/ Wipe(s) \/ Wire(s) \/ ReadChat(s) \/ WriteChat(s)

-----------------------------------------------------------------------------
(* The console's requests that end with it.                                *)

\* set_kind.  None leaves every switch as it stands.
SetKind(s, w, k) ==
    /\ Act(<<"kind", w, k>>)
    /\ request[s].at = "idle" /\ w \in there
    /\ kind' = [kind EXCEPT ![w] = k]
    /\ settled' = FALSE
    /\ IF k = None THEN request' = Others(s) ELSE Start(s)
    /\ UNCHANGED <<there, repeats, joined, turn, routes, deaf, tied>>

\* join.  Already in the channel, nothing follows.  Its row is another one than
\* that of an earlier membership.
Join(s, w) ==
    /\ Act(<<"join", w>>)
    /\ request[s].at = "idle" /\ w \in there \ Members
    /\ joined' = [joined EXCEPT ![w] = Largest({joined[v] : v \in Ids}) + 1]
    /\ turn' = [turn EXCEPT ![w] = 0]
    /\ tied' = tied \ {w}
    /\ settled' = FALSE
    /\ request' = [r \in Requests |->
          IF r = s THEN [Idle EXCEPT !.at = "kinds", !.alone = Busy = {}]
          ELSE [request[r] EXCEPT !.alone = FALSE,
                   !.next = IF request[r].at = "give" /\ Foremost(request[r]) = w THEN 0 ELSE @]]
    /\ UNCHANGED <<there, kind, repeats, routes, deaf>>

\* leave: the membership, and then its routes.
Leave(s, w) ==
    /\ Act(<<"leave", w>>)
    /\ request[s].at = "idle" /\ w \in Members
    /\ joined' = Without(w)
    /\ settled' = FALSE
    /\ request' = [Others(s) EXCEPT ![s] =
          [Idle EXCEPT !.at = "leaving", !.here = {w}, !.alone = Busy = {}]]
    /\ UNCHANGED <<there, kind, repeats, turn, routes, deaf, tied>>

Unroute(s) ==
    /\ request[s].at = "leaving"
    /\ routes' = {t \in routes : {t[1], t[2]} \cap request[s].here = {}}
    /\ Goes(s, [request[s] EXCEPT !.at = "kinds", !.here = {}])
    /\ UNCHANGED <<there, kind, repeats, joined, turn, deaf, settled, tied>>

-----------------------------------------------------------------------------
(* Those that do not.                                                      *)

\* What each of the others under way read of these workers is no longer so.
Disturbed(S) == [s \in Requests |-> [request[s] EXCEPT !.alone = FALSE, !.stale = @ \cup S]]

\* remove_worker, one transaction; members cascades.
Remove(w) ==
    /\ Act(<<"remove", w>>)
    /\ w \in there
    /\ there' = there \ {w}
    /\ joined' = Without(w)
    /\ routes' = {t \in routes : w \notin {t[1], t[2]}}
    /\ deaf' = deaf \ {w}
    /\ request' = Disturbed({w})
    /\ kind' = [kind EXCEPT ![w] = None]
    /\ UNCHANGED <<repeats, turn, settled, tied>>

\* reissue_id, one transaction: a row with the name, and what names the old id.
Reissue(w, f) ==
    LET now(v) == IF v = w THEN f ELSE v
    IN /\ Act(<<"reissue", w, f>>)
       /\ w \in there /\ f \notin there
       /\ there' = (there \ {w}) \cup {f}
       /\ kind' = [kind EXCEPT ![w] = None]
       /\ repeats' = [repeats EXCEPT ![f] = FALSE]
       /\ joined' = [joined EXCEPT ![f] = joined[w], ![w] = 0]
       /\ turn' = [turn EXCEPT ![f] = turn[w]]
       /\ tied' = {now(v) : v \in tied}
       /\ routes' = {<<now(t[1]), now(t[2])>> : t \in routes}
       /\ deaf' = {now(v) : v \in deaf}
       /\ request' = Disturbed({w, f})
       /\ settled' = FALSE

\* set_route, either way.
SetRoute(v, w) ==
    /\ Act(<<"route", v, w>>)
    /\ routes' = IF <<v, w>> \in routes THEN routes \ {<<v, w>>} ELSE routes \cup {<<v, w>>}
    /\ request' = Disturbed({})
    /\ settled' = FALSE
    /\ UNCHANGED <<there, kind, repeats, joined, turn, deaf, tied>>

\* set_repeats, either way.
SetRepeats(w) ==
    /\ Act(<<"repeats", w>>)
    /\ w \in there
    /\ repeats' = [repeats EXCEPT ![w] = ~ @]
    /\ request' = Disturbed({})
    /\ settled' = FALSE
    /\ UNCHANGED <<there, kind, joined, turn, routes, deaf, tied>>

\* bot_hears, either way.
Hears(w) ==
    /\ Act(<<"hears", w>>)
    /\ deaf' = IF w \in deaf THEN deaf \ {w} ELSE deaf \cup {w}
    /\ request' = Disturbed({w})
    /\ settled' = FALSE
    /\ UNCHANGED <<there, kind, repeats, joined, turn, routes, tied>>

\* A server dies in the middle of them.
Crash(s) ==
    /\ Act(<<"crash">>)
    /\ request[s].at # "idle"
    /\ request' = [request EXCEPT ![s] = Idle]
    /\ UNCHANGED <<tables, settled, tied>>

-----------------------------------------------------------------------------

\* Workers that were added outright, in a channel they joined.
Init ==
    /\ there = {w \in Ids : First[w] # 0} /\ joined = First
    /\ kind = [w \in Ids |-> None] /\ repeats = [w \in Ids |-> FALSE]
    /\ turn = [w \in Ids |-> 0] /\ routes = {} /\ deaf = {}
    /\ request = [s \in Requests |-> Idle]
    /\ acts = <<>> /\ settled = FALSE /\ tied = {}

Next ==
    \/ \E s \in Requests :
          \/ Apply(s) \/ Unroute(s) \/ Crash(s)
          \/ \E w \in Ids : Join(s, w) \/ Leave(s, w) \/ \E k \in KINDS \cup {None} : SetKind(s, w, k)
    \/ \E w \in Ids :
          \/ Remove(w) \/ SetRepeats(w) \/ Hears(w)
          \/ \E v \in Ids : SetRoute(v, w) \/ Reissue(w, v)

Spec == Init /\ [][Next]_vars

-----------------------------------------------------------------------------
(* What must hold.                                                         *)

RequestType ==
    [at : {"idle", "leaving", "kinds", "repeats", "members", "turn", "give", "wipe", "wire", "chat", "write"},
     kinds : [Ids -> KINDS \cup {None}], todo : SUBSET Ids, line : [Ids -> Nat], here : SUBSET Ids,
     next : Nat, behind : BOOLEAN,
     heard : SUBSET Ids, stale : SUBSET Ids, alone : BOOLEAN]

TypeOK ==
    /\ there \subseteq Ids /\ Members \subseteq there /\ joined \in [Ids -> Nat]
    /\ kind \in [Ids -> KINDS \cup {None}] /\ repeats \in [Ids -> BOOLEAN]
    /\ turn \in [Ids -> Nat] /\ routes \subseteq Ids \X Ids /\ deaf \subseteq Ids
    /\ request \in [Requests -> RequestType]
    /\ acts \in Histories /\ settled \in BOOLEAN /\ tied \subseteq Ids

\* "Every switch that follows from it is set when it is named, and set again
\* whenever anything about the workspace changes" (pgstore.py:69): once
\* apply_kinds had the workspace to itself, every typed member has the routes,
\* the switch and the turn of its kind and no other, and the chat hears just
\* those it should, after any sequence of joining, leaving, naming and removing,
\* and whatever earlier requests left half done.  The kinds are those of
\* kinds.py: of a repo finder's routes the README says something else (SendsTo).
\* A poll between the DELETE of a sender's routes and their INSERTs finds none,
\* which stands for everyone, or some: nothing is said of that.
Now == [Idle EXCEPT !.kinds = kind, !.here = Members]
Follows ==
    (settled /\ Busy = {}) => \A w \in Typed(Now, Members) :
        /\ {t \in routes : t[1] = w} =
              {<<w, v>> : v \in {u \in Typed(Now, Members) \ {w} : kind[u] \in SendsTo(kind[w])}}
        /\ repeats[w] = (kind[w] \in Repeating)
        /\ (w \in deaf) = (kind[w] \in Unheard)
        /\ kind[w] \in TakesTurns => turn[w] # 0

\* "A worker with no kind is left alone, and so is every switch about it"
\* (pgstore.py:912), and a turn once given is kept, by two requests at once as
\* well, each with what it read before the other wrote.  The exception: a chat
\* whose row another request changed between the read and the write of it.
LeftAsTheyAre ==
    [][\A s \in Requests : Apply(s) =>
        /\ \A w \in Ids : (kind[w] = None /\ request[s].kinds[w] = None) =>
              /\ {t \in routes' : t[1] = w} = {t \in routes : t[1] = w}
              /\ repeats'[w] = repeats[w] /\ turn'[w] = turn[w]
              /\ w \in request[s].stale \/ (w \in deaf') = (w \in deaf)
        /\ \A w \in Ids : turn[w] # 0 => turn'[w] = turn[w]]_vars

\* "A turn among the takers of each channel it is in, after those already there"
\* (kinds.py:29): no two takers have one turn, whoever leaves and joins and in
\* whatever order requests give turns, unless two turns were being given at once.
NextInLine ==
    \A v, w \in Members : (v # w /\ turn[v] # 0 /\ {v, w} \cap tied = {}) => turn[v] # turn[w]
=============================================================================
