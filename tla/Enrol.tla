------------------------------- MODULE Enrol -------------------------------
(***************************************************************************)
(* How a worker registers with the serverless relay: the statements of     *)
(* relay/pgstore.py behind POST /enrol, GET /enrol/{ticket} and the        *)
(* console's approve and reject, each of them a transaction of its own;    *)
(* and the asker's side in examples/proposal_bridge.py, which keeps its id *)
(* and its ticket in memory and in a file.                                 *)
(*                                                                         *)
(* Abstractions.  A request's ref and its ticket are one number.  A week   *)
(* and REFUSAL_STANDS are one length of time.  A poll that is held open is *)
(* asked again.  Bridges are started without --id.  In registration() the  *)
(* worker is looked for and the row deleted in one step.  Refs and MaxId   *)
(* bound the requests under way and the ids issued; Histories bounds what  *)
(* administrators do and what fails.                                       *)
(***************************************************************************)
EXTENDS Naturals, FiniteSets, Sequences

CONSTANTS
    Bridges, Names,
    Name,       \* [Bridges -> Names]: what each is called
    Admins,     \* approvals that may be under way at once
    MaxRef, MaxId,
    Histories   \* a prefix-closed set of sequences of acts

Refs == 1..MaxRef
Ids == 1..MaxId

ASSUME EnrolAssumption ==
    /\ IsFiniteSet(Admins)
    /\ MaxRef \in Nat /\ MaxId \in Nat
    /\ Name \in [Bridges -> Names]
    /\ <<>> \in Histories

VARIABLES
    rows,       \* registrations
    asker,      \* [Refs -> name or ""] of a request
    granted,    \* [Refs -> id or 0]
    refused,    \* rows with a refused_at
    aged,       \* rows asked for more than a week ago
    lapsed,     \* rows refused more than REFUSAL_STANDS ago
    workers,    \* workers that are there
    issued,     \* how many ids there were
    call,       \* [Refs -> where the request that inserts it is]
    approval,   \* [Admins -> the approval under way]
    bridge,     \* [Bridges -> where it is, what it remembers and has saved]
    acts,
    overlapped, \* history: names that two requests asked under at once
    no,         \* history: names refused, not approved since, and not aged
    unrefused,  \* history: requests whose name was not refused at some time since they began
    toldNo,     \* history: bridges that were answered 403
    made,       \* history: requests that a worker was made for
    twice,      \* history: ... that two workers were made for
    raced       \* history: approved twice at once, or cut off between worker and answer

table == <<rows, asker, granted, refused, aged, lapsed>>
people == <<workers, issued, approval>>
yes == <<made, twice, raced>>
hist == <<overlapped, no, unrefused, toldNo, yes>>
vars == <<table, people, call, bridge, acts, hist>>

-----------------------------------------------------------------------------

\* The rows that are left, with what they say.
Keep(S) ==
    /\ rows' = S
    /\ granted' = [r \in Refs |-> IF r \in S THEN granted[r] ELSE 0]
    /\ asker' = [r \in Refs |-> IF r \in S \/ call[r] # "none" THEN asker[r] ELSE ""]
    /\ refused' = refused \cap S
    /\ aged' = aged \cap S
    /\ lapsed' = lapsed \cap S

Act(what) == Append(acts, what) \in Histories /\ acts' = Append(acts, what)

InFlight == {"checking", "clearing", "inserting", "expiring"}
Waiting(r) == r \in rows \ refused /\ granted[r] = 0
Pending(n) == {r \in rows : Waiting(r) /\ asker[r] = n}

\* A request nobody holds any more may lend its number to another.
Held(r) ==
    \/ r \in rows \/ call[r] # "none"
    \/ \E b \in Bridges : r \in {bridge[b].ticket, bridge[b].savedTicket}
    \/ \E a \in Admins : approval[a].ref = r
Free == {r \in Refs : ~ Held(r)}

\* Only these names are refused from now on.
NotRefused(names) ==
    /\ no' = names
    /\ unrefused' = unrefused \cup {r \in Refs : call[r] \in InFlight /\ asker[r] \notin names}

NoApproval == [ref |-> 0, id |-> 0]
Idle == [at |-> "polling", id |-> 0, ticket |-> 0, asked |-> 0,
         found |-> FALSE, answer |-> 0, refusal |-> FALSE,
         savedId |-> 0, savedTicket |-> 0]

\* Another process of it, with what the file holds.
Restarted(p) == [Idle EXCEPT !.id = p.savedId, !.ticket = p.savedTicket,
                             !.savedId = p.savedId, !.savedTicket = p.savedTicket]
Down(p) == [Restarted(p) EXCEPT !.at = "down"]

-----------------------------------------------------------------------------
(* The bridge: run() and enrol().                                          *)

To(b, p) ==
    /\ bridge' = [bridge EXCEPT ![b] = p]
    /\ UNCHANGED <<table, people, call, acts, hist>>

\* GET /messages answers 401.
Poll(b) ==
    /\ bridge[b].at = "polling" /\ bridge[b].id \notin workers
    /\ To(b, [bridge[b] EXCEPT !.at = "enrolling"])

\* GET /enrol/{ticket}: what the request's row says.
Ask(b) ==
    LET t == bridge[b].ticket
    IN /\ bridge[b].at = "enrolling" /\ t # 0
       /\ To(b, [bridge[b] EXCEPT !.at = "reading", !.found = t \in rows,
                !.answer = IF t \in rows THEN granted[t] ELSE 0, !.refusal = t \in refused])

\* An answer that no longer names a worker is no answer.
Dead(p) == p.answer # 0 /\ p.answer \notin workers
Gone(p) == ~ p.found \/ Dead(p)

\* Mutant: after a 404 the bridge goes on asking with the same ticket.
AskStill(p) == [p EXCEPT !.at = "polling"]

\* The request is gone: it asks afresh.
AskAfresh(p) == [p EXCEPT !.ticket = 0, !.at = "enrolling"]

AnswerGone(b) ==
    LET p == bridge[b]
    IN /\ p.at = "reading" /\ Gone(p)
       /\ Keep(IF Dead(p) THEN rows \ {p.ticket} ELSE rows)
       /\ bridge' = [bridge EXCEPT ![b] = AskAfresh(p)]
       /\ UNCHANGED <<people, call, acts, hist>>

\* Any other answer, a 5xx of the relay, counts as a 404.
AnswerOther(b) ==
    /\ Act("error")
    /\ bridge[b].at = "enrolling" /\ bridge[b].ticket # 0
    /\ bridge' = [bridge EXCEPT ![b] = AskAfresh(@)]
    /\ UNCHANGED <<table, people, call, hist>>

\* 202: asked again on the next pass.
AnswerPending(b) ==
    LET p == bridge[b]
    IN /\ p.at = "reading" /\ ~ Gone(p) /\ ~ p.refusal /\ p.answer = 0
       /\ To(b, [p EXCEPT !.at = "polling"])

\* 200 with the id, which goes to memory and to the file.
Collect(b) ==
    LET p == bridge[b]
    IN /\ p.at = "reading" /\ ~ Gone(p) /\ ~ p.refusal /\ p.answer # 0
       /\ To(b, [Idle EXCEPT !.id = p.answer, !.savedId = p.answer])

\* 403.  The call `self.refused(body)` finds the string of that name which
\* __init__ set, and a TypeError ends the process with the file as it was.
Told(b) ==
    /\ \/ bridge[b].at = "reading" /\ ~ Gone(bridge[b]) /\ bridge[b].refusal
       \/ bridge[b].at = "posting" /\ call[bridge[b].asked] = "refused"
    /\ bridge' = [bridge EXCEPT ![b] = Down(bridge[b])]
    /\ call' = [r \in Refs |-> IF r = bridge[b].asked THEN "none" ELSE call[r]]
    /\ toldNo' = toldNo \cup {b}
    /\ UNCHANGED <<table, people, acts, overlapped, no, unrefused, yes>>

\* POST /enrol, with a ref and a ticket made for it.
Begin(b) ==
    /\ bridge[b].at = "enrolling" /\ bridge[b].ticket = 0 /\ Free # {}
    /\ LET r == CHOOSE r \in Free : \A q \in Free : r <= q
       IN /\ call' = [call EXCEPT ![r] = "checking"]
          /\ asker' = [asker EXCEPT ![r] = Name[b]]
          /\ bridge' = [bridge EXCEPT ![b].at = "posting", ![b].asked = r]
          /\ unrefused' = IF Name[b] \in no THEN unrefused \ {r} ELSE unrefused \cup {r}
          /\ overlapped' = IF \E q \in Refs : call[q] \in InFlight /\ asker[q] = Name[b]
                           THEN overlapped \cup {Name[b]} ELSE overlapped
          /\ made' = made \ {r} /\ twice' = twice \ {r} /\ raced' = raced \ {r}
    /\ UNCHANGED <<rows, granted, refused, aged, lapsed, people, acts, no, toldNo>>

\* Mutant: the ticket is not saved.
ReplyUnsaved(b) ==
    LET r == bridge[b].asked
    IN /\ bridge[b].at = "posting" /\ call[r] = "done"
       /\ call' = [call EXCEPT ![r] = "none"]
       /\ bridge' = [bridge EXCEPT ![b] = [@ EXCEPT !.at = "polling", !.asked = 0, !.ticket = r]]
       /\ UNCHANGED <<table, people, acts, hist>>

\* 202 with the ticket, saved.
Reply(b) ==
    LET r == bridge[b].asked
    IN /\ bridge[b].at = "posting" /\ call[r] = "done"
       /\ call' = [call EXCEPT ![r] = "none"]
       /\ bridge' = [bridge EXCEPT ![b] = [@ EXCEPT
             !.at = "polling", !.asked = 0, !.ticket = r, !.savedTicket = r]]
       /\ UNCHANGED <<table, people, acts, hist>>

\* No answer, or a 5xx: an exception nobody catches, or sys.exit with a text.
Unanswered(b) ==
    /\ bridge[b].at = "posting" /\ call[bridge[b].asked] = "none"
    /\ To(b, Down(bridge[b]))

\* restart: on-failure.
Start(b) ==
    /\ bridge[b].at = "down"
    /\ To(b, Restarted(bridge[b]))

-----------------------------------------------------------------------------
(* request_worker, one statement at a time.                                *)

Stands(n) == \E r \in refused \ lapsed : asker[r] = n

Goes(r, from, to) == call[r] = from /\ call' = [call EXCEPT ![r] = to]

Check(r) ==
    /\ Goes(r, "checking", IF Stands(asker[r]) THEN "refused" ELSE "clearing")
    /\ UNCHANGED <<table, people, bridge, acts, hist>>

\* Mutant: DELETE without `refused_at IS NULL`.
ClearedNo(r) == {q \in rows : asker[q] = asker[r] /\ granted[q] = 0}

\* Mutant: nothing of the same name is deleted.
ClearedNone(r) == {}

\* What the DELETE takes: the unanswered requests of that name.
Cleared(r) == Pending(asker[r])

Clear(r) ==
    /\ Goes(r, "clearing", "inserting")
    /\ Keep(rows \ Cleared(r))
    /\ UNCHANGED <<people, bridge, acts, hist>>

Insert(r) ==
    /\ Goes(r, "inserting", "expiring")
    /\ rows' = rows \cup {r}
    /\ unrefused' = unrefused \ {r}
    /\ UNCHANGED <<asker, granted, refused, aged, lapsed, people, bridge, acts,
                   overlapped, no, toldNo, yes>>

\* What was granted, and asked a week ago.
Expire(r) ==
    /\ Goes(r, "expiring", "done")
    /\ Keep({q \in rows : granted[q] = 0 \/ q \notin aged})
    /\ UNCHANGED <<people, bridge, acts, hist>>

\* Nobody is left to be answered.
Dropped(r) ==
    /\ call[r] \in {"done", "refused"} /\ \A b \in Bridges : bridge[b].asked # r
    /\ call' = [call EXCEPT ![r] = "none"]
    /\ UNCHANGED <<table, people, bridge, acts, hist>>

-----------------------------------------------------------------------------
(* The console.                                                            *)

\* new_worker_id: 128 random bits, so one nobody has.
NewId == issued + 1

\* An id is left for every approval under way and one more.
IdLeft == issued + Cardinality({a \in Admins : approval[a].ref # 0 /\ approval[a].id = 0}) < MaxId

\* Mutant: the answer of the SELECT is not looked at.
ApproveAgain(a, r) ==
    /\ approval[a] = NoApproval /\ r \in rows /\ IdLeft
    /\ approval' = [approval EXCEPT ![a].ref = r]
    /\ raced' = IF \E c \in Admins : approval[c].ref = r THEN raced \cup {r} ELSE raced
    /\ UNCHANGED <<table, workers, issued, call, bridge, acts,
                   overlapped, no, unrefused, toldNo, made, twice>>

\* approve_worker's SELECT.  A request that was granted answers with its id.
Approve(a, r) ==
    /\ approval[a] = NoApproval /\ r \in rows /\ granted[r] = 0 /\ IdLeft
    /\ approval' = [approval EXCEPT ![a].ref = r]
    /\ raced' = IF \E c \in Admins : approval[c].ref = r THEN raced \cup {r} ELSE raced
    /\ UNCHANGED <<table, workers, issued, call, bridge, acts,
                   overlapped, no, unrefused, toldNo, made, twice>>

\* ... its INSERT of the worker
AddWorker(a) ==
    LET r == approval[a].ref
    IN /\ r # 0 /\ approval[a].id = 0
       /\ workers' = workers \cup {NewId}
       /\ issued' = NewId
       /\ approval' = [approval EXCEPT ![a].id = NewId]
       /\ made' = made \cup {r}
       /\ twice' = IF r \in made THEN twice \cup {r} ELSE twice
       /\ UNCHANGED <<table, call, bridge, acts, overlapped, no, unrefused, toldNo, raced>>

\* ... and its UPDATE of the request, if that is still there.
Grant(a) ==
    LET r == approval[a].ref
    IN /\ approval[a].id # 0
       /\ approval' = [approval EXCEPT ![a] = NoApproval]
       /\ granted' = IF r \in rows THEN [granted EXCEPT ![r] = approval[a].id] ELSE granted
       /\ NotRefused(IF r \in rows THEN no \ {asker[r]} ELSE no)
       /\ UNCHANGED <<rows, asker, refused, aged, lapsed, workers, issued, call, bridge, acts,
                      overlapped, toldNo, yes>>

\* reject_worker: whatever was granted meanwhile.
Reject(r) ==
    /\ Act("reject")
    /\ r \in rows \ refused
    /\ refused' = refused \cup {r}
    /\ no' = IF granted[r] = 0 THEN no \cup {asker[r]} ELSE no
    /\ UNCHANGED <<rows, asker, granted, aged, lapsed, people, call, bridge,
                   overlapped, unrefused, toldNo, yes>>

\* remove_worker.
Remove(w) ==
    /\ Act("remove")
    /\ w \in workers
    /\ workers' = workers \ {w}
    /\ UNCHANGED <<table, issued, approval, call, bridge, hist>>

\* reissue_id: a new row, the old one deleted, the request not looked at.
Reissue(w) ==
    /\ Act("reissue")
    /\ w \in workers /\ IdLeft
    /\ workers' = (workers \ {w}) \cup {NewId}
    /\ issued' = NewId
    /\ UNCHANGED <<table, approval, call, bridge, hist>>

-----------------------------------------------------------------------------
(* Time and failures.                                                      *)

\* A week goes by.
Age ==
    /\ Act("age")
    /\ aged' = rows /\ lapsed' = refused
    /\ NotRefused({})
    /\ UNCHANGED <<rows, asker, granted, refused, people, call, bridge, overlapped, toldNo, yes>>

\* A bridge dies, or its request times out.  What it had asked for goes on.
Crash(b) ==
    /\ Act("crash")
    /\ bridge[b].at # "down"
    /\ bridge' = [bridge EXCEPT ![b] = Down(@)]
    /\ UNCHANGED <<table, people, call, hist>>

\* ... and its container is made again, without the file.
Redeploy(b) ==
    /\ Act("redeploy")
    /\ bridge' = [bridge EXCEPT ![b] = [Idle EXCEPT !.at = "down"]]
    /\ UNCHANGED <<table, people, call, hist>>

\* The relay is restarted between two statements of whatever it was doing.
Restart ==
    /\ Act("restart")
    /\ call' = [r \in Refs |-> IF call[r] \in InFlight THEN "none" ELSE call[r]]
    /\ approval' = [a \in Admins |-> NoApproval]
    /\ raced' = raced \cup {r \in Refs : \E a \in Admins : approval[a].ref = r /\ approval[a].id # 0}
    /\ UNCHANGED <<table, workers, issued, bridge,
                   overlapped, no, unrefused, toldNo, made, twice>>

-----------------------------------------------------------------------------

Init ==
    /\ rows = {} /\ granted = [r \in Refs |-> 0] /\ asker = [r \in Refs |-> ""]
    /\ refused = {} /\ aged = {} /\ lapsed = {}
    /\ workers = {} /\ issued = 0
    /\ call = [r \in Refs |-> "none"]
    /\ approval = [a \in Admins |-> NoApproval]
    /\ bridge = [b \in Bridges |-> Idle]
    /\ acts = <<>>
    /\ overlapped = {} /\ no = {} /\ unrefused = {} /\ toldNo = {}
    /\ made = {} /\ twice = {} /\ raced = {}

Step(b) ==
    \/ Poll(b) \/ Ask(b) \/ AnswerGone(b) \/ AnswerPending(b) \/ Collect(b) \/ Told(b)
    \/ Begin(b) \/ Reply(b) \/ Unanswered(b) \/ Start(b)

Serve(r) == Check(r) \/ Clear(r) \/ Insert(r) \/ Expire(r) \/ Dropped(r)

Console ==
    \/ \E a \in Admins : (\E r \in Refs : Approve(a, r)) \/ AddWorker(a) \/ Grant(a)
    \/ \E r \in Refs : Reject(r)
    \/ \E w \in Ids : Remove(w) \/ Reissue(w)

Trouble == Age \/ Restart \/ \E b \in Bridges : Crash(b) \/ Redeploy(b) \/ AnswerOther(b)

Next == (\E b \in Bridges : Step(b)) \/ (\E r \in Refs : Serve(r)) \/ Console \/ Trouble

Spec == Init /\ [][Next]_vars

\* The bridge's loop goes on and its supervisor starts it again; a request that
\* arrived is served, an approval too.  Nobody need look at the console.
Fairness ==
    /\ \A b \in Bridges : WF_vars(Step(b))
    /\ \A r \in Refs : WF_vars(Serve(r))
    /\ \A a \in Admins : WF_vars(AddWorker(a) \/ Grant(a))

FairSpec == Spec /\ Fairness

-----------------------------------------------------------------------------
(* What must hold.                                                         *)

\* What a bridge goes by is in its file.
BridgeType ==
    {p \in [at : {"polling", "enrolling", "reading", "posting", "down"},
            id : 0..MaxId, ticket : 0..MaxRef, asked : 0..MaxRef,
            found : BOOLEAN, answer : 0..MaxId, refusal : BOOLEAN,
            savedId : 0..MaxId, savedTicket : 0..MaxRef] :
        p.id = p.savedId /\ p.ticket \in {0, p.savedTicket}}

TypeOK ==
    /\ rows \subseteq Refs /\ refused \subseteq rows
    /\ aged \subseteq rows /\ lapsed \subseteq refused
    /\ asker \in [Refs -> Names \cup {""}] /\ granted \in [Refs -> 0..MaxId]
    /\ workers \subseteq 1..issued /\ issued \in 0..MaxId
    /\ call \in [Refs -> InFlight \cup {"none", "done", "refused"}]
    /\ approval \in [Admins -> [ref : 0..MaxRef, id : 0..MaxId]]
    /\ bridge \in [Bridges -> BridgeType]
    /\ acts \in Histories
    /\ overlapped \cup no \subseteq Names
    /\ unrefused \subseteq Refs /\ toldNo \subseteq Bridges
    /\ made \cup twice \cup raced \subseteq Refs

\* approve_worker: "Approving twice gives the same id rather than a second worker"
\* (pgstore.py:1186, and tests/test_serverless.py:266).  So it does, whatever is
\* aged, refused, removed or forgotten meanwhile, unless the second approval
\* begins before the first is done, or the first was cut off by a restart of the
\* relay once it had made its worker: then the promise is broken.
OneWorker == twice \subseteq raced

\* "One row per name waiting, so a person is not asked to approve the same
\* machine four times" (pgstore.py:1114), whatever crashes and is asked again,
\* unless two requests under that name are served at the same time: then there
\* may be two, and the sentence is not true.
PendingOnce == \A n \in Names \ overlapped : \A r, q \in Pending(n) : r = q

\* "Asking again under that name is refused too, and a refusal stands for a day"
\* (README.md): a request does not come to wait in the console if its name was
\* refused when it began and all the while since, neither granted nor a day old.
StaysRefused == [][\A r \in rows' \ rows : r \in unrefused]_vars

Working(b) == bridge[b].id \in workers
Listed(b) == bridge[b].ticket \in rows /\ Waiting(bridge[b].ticket)
Alone(b) == \A c \in Bridges : Name[c] = Name[b] => c = b

\* A bridge whose name is its own always gets back to where it works, or waits
\* where a person sees it, until it is refused: it never goes round collecting
\* an answer that opens nothing, and never waits on a request that is gone.
Arrives == \A b \in Bridges : []<>(Working(b) \/ Listed(b) \/ b \in toldNo \/ ~ Alone(b))

\* What the documents say of a bridge that is told no: "not asking again"
\* (proposal_bridge.py:515), "A clean exit means it was refused"
\* (examples/bridge.compose.yml:41).
AsksNoMore == \A b \in toldNo : bridge[b].at \notin {"enrolling", "reading", "posting"}
=============================================================================
