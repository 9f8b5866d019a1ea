------------------------------- MODULE Bridge -------------------------------
(***************************************************************************)
(* The proposal bridge at work (examples/proposal_bridge.py, run, deliver, *)
(* draft and report): it polls the relay for the messages above its        *)
(* cursors, hands each to proposal-writer, and acknowledges it.            *)
(*                                                                         *)
(* Abstractions.  Room channels; how the bridge gets its id is in Enrol,   *)
(* redeliveries are in ChannelLog.  A message is a job to write a proposal *)
(* for, or news about one.  Sleeps take any time.  proposal-writer is      *)
(* external: it is down, refuses everything for one reason, or refuses     *)
(* what is in Bad for a reason of that job's own.                          *)
(* MaxSeq bounds the seqs; Histories bounds what goes wrong.               *)
(***************************************************************************)
EXTENDS Integers, FiniteSets, Sequences

CONSTANTS
    Channels,
    Watched,    \* --channel, or all of them
    MaxSeq,
    Channel,    \* [Seqs -> Channels]
    Jobs,       \* the seqs that are jobs; the others are news
    Bad,        \* [subset of Jobs -> the reason it is refused for]
    Amiss,      \* the reason everything is refused for: no such profile
    Blame,      \* REFUSALS_BEFORE_BLAMING_SETUP
    Limit,      \* how many a response carries
    Histories   \* a prefix-closed set of sequences of acts

Seqs == 1..MaxSeq
Reasons == {Bad[s] : s \in DOMAIN Bad} \cup {Amiss, ""}

ASSUME BridgeAssumption ==
    /\ Watched \subseteq Channels /\ Channel \in [Seqs -> Channels]
    /\ Jobs \subseteq Seqs /\ DOMAIN Bad \subseteq Jobs
    /\ MaxSeq \in Nat /\ Blame \in Nat \ {0} /\ Limit \in Nat \ {0}
    /\ <<>> \in Histories

VARIABLES
    stored,     \* messages of the bridge's channels
    late,       \* history: those that appeared below one already there
    cursor,     \* members.cursor, one per channel
    writer,     \* "up", "down" or "amiss"
    bridge,     \* where it is, the rows in hand, the last refusal and its count
    handed,     \* history: jobs written, and news that was answered
    dropped,    \* history: jobs that were refused and let go
    acts

vars == <<stored, late, cursor, writer, bridge, handed, dropped, acts>>

-----------------------------------------------------------------------------

Act(what) == Append(acts, what) \in Histories /\ acts' = Append(acts, what)

Larger(a, b) == IF a > b THEN a ELSE b
First(S) == CHOOSE s \in S : \A t \in S : s <= t
Lowest(S, n) == {s \in S : Cardinality({t \in S : t < s}) < n}

\* What a poll has for it, oldest first.
Due == {s \in stored : s > cursor[Channel[s]]}

Idle == [at |-> "polling", rows |-> {}, refused |-> "", refusals |-> 0]

\* The message in hand.
This == First(bridge.rows)
At(s) == bridge.at = "delivering" /\ This = s

\* Mutant: it goes on with the response after its last message.
OnwardStill(p) == [p EXCEPT !.rows = @ \ {This}, !.at = "delivering"]

\* p with the first message of its rows behind it.
Onward(p) == [p EXCEPT !.rows = @ \ {This},
                       !.at = IF p.rows = {This} THEN "polling" ELSE "delivering"]

Answered(p) == [p EXCEPT !.at = "answered"]

\* Mutant: `continue` where deliver was False.
GoOn(p) == Onward(p)

\* deliver was False: it sleeps, and asks the relay again.
GiveUp(p) == [p EXCEPT !.at = "polling", !.rows = {}]

-----------------------------------------------------------------------------

Poll ==
    /\ bridge.at = "polling" /\ Due # {}
    /\ bridge' = [bridge EXCEPT !.at = "delivering", !.rows = Lowest(Due, Limit)]
    /\ UNCHANGED <<stored, late, cursor, writer, handed, dropped, acts>>

\* Mutant: `break` where the channel is not one of --channel.
PassedBy(p) == GiveUp(p)

Passed(p) == Onward(p)

\* Of a channel it does not watch.
PassOver(s) ==
    /\ At(s) /\ Channel[s] \notin Watched
    /\ bridge' = Passed(bridge)
    /\ UNCHANGED <<stored, late, cursor, writer, handed, dropped, acts>>

\* report: whatever proposal-writer answers, it was told.
Report(s) ==
    /\ At(s) /\ Channel[s] \in Watched /\ s \notin Jobs
    /\ writer # "down"
    /\ handed' = handed \cup {s}
    /\ bridge' = Answered(bridge)
    /\ UNCHANGED <<stored, late, cursor, writer, dropped, acts>>

\* draft, and proposal-writer writes it.
Draft(s) ==
    /\ At(s) /\ Channel[s] \in Watched /\ s \in Jobs
    /\ writer = "up" /\ s \notin DOMAIN Bad
    /\ handed' = handed \cup {s}
    /\ bridge' = Answered([bridge EXCEPT !.refusals = 0])
    /\ UNCHANGED <<stored, late, cursor, writer, dropped, acts>>

\* Another refusal, for this reason, after the last.  More than Blame is Blame.
Count(why) ==
    [bridge EXCEPT !.refused = why,
                   !.refusals = IF why # bridge.refused THEN 1
                                ELSE IF @ < Blame THEN @ + 1 ELSE Blame]

\* Why proposal-writer refuses s now, if it does.
Why(s) ==
    (IF s \in DOMAIN Bad THEN {Bad[s]} ELSE {}) \cup (IF writer = "amiss" THEN {Amiss} ELSE {})

\* Refused: this job's fault, or, once the same was said often enough, nobody's.
Refuse(s) ==
    /\ At(s) /\ Channel[s] \in Watched /\ s \in Jobs
    /\ writer # "down"
    /\ \E why \in Why(s) :
          IF Count(why).refusals >= Blame
          THEN bridge' = GiveUp(Count(why)) /\ UNCHANGED dropped
          ELSE bridge' = Answered(Count(why)) /\ dropped' = dropped \cup {s}
    /\ UNCHANGED <<stored, late, cursor, writer, handed, acts>>

\* No answer: it is down.
Silent(s) ==
    /\ At(s) /\ Channel[s] \in Watched /\ writer = "down"
    /\ bridge' = GiveUp(bridge)
    /\ UNCHANGED <<stored, late, cursor, writer, handed, dropped, acts>>

\* POST /ack.
Ack ==
    LET c == Channel[This]
    IN /\ bridge.at = "answered"
       /\ cursor' = [cursor EXCEPT ![c] = Larger(@, This)]
       /\ bridge' = Onward(bridge)
       /\ UNCHANGED <<stored, late, writer, handed, dropped, acts>>

\* ... which the relay did not take.  Its status is not looked at.
AckLost ==
    /\ Act("ack lost")
    /\ bridge.at = "answered"
    /\ bridge' = Onward(bridge)
    /\ UNCHANGED <<stored, late, cursor, writer, handed, dropped>>

\* The time proposal-writer is given runs out, and it may be writing.
TimeOut(s) ==
    /\ Act("time out")
    /\ At(s) /\ Channel[s] \in Watched
    /\ handed' \in {handed} \cup (IF writer = "up" /\ s \notin DOMAIN Bad THEN {handed \cup {s}} ELSE {})
    /\ bridge' = GiveUp(bridge)
    /\ UNCHANGED <<stored, late, cursor, writer, dropped>>

\* The process dies, or an acknowledgement finds no relay, and is started again.
Crash ==
    /\ Act("crash")
    /\ bridge' = Idle
    /\ UNCHANGED <<stored, late, cursor, writer, handed, dropped>>

Publish(s) ==
    /\ s \notin stored
    /\ stored' = stored \cup {s}
    /\ late' = IF \E t \in stored : t > s THEN late \cup {s} ELSE late
    /\ UNCHANGED <<cursor, writer, bridge, handed, dropped, acts>>

Turn(to) ==
    /\ Act(to)
    /\ writer # to
    /\ writer' = to
    /\ UNCHANGED <<stored, late, cursor, bridge, handed, dropped>>

-----------------------------------------------------------------------------

Init ==
    /\ stored = {} /\ late = {} /\ cursor = [c \in Channels |-> 0]
    /\ writer = "up" /\ bridge = Idle
    /\ handed = {} /\ dropped = {} /\ acts = <<>>

Step ==
    \/ Poll \/ Ack
    \/ \E s \in Seqs : PassOver(s) \/ Report(s) \/ Draft(s) \/ Refuse(s) \/ Silent(s)

Next ==
    \/ Step \/ AckLost \/ Crash
    \/ \E s \in Seqs : Publish(s) \/ TimeOut(s)
    \/ \E to \in {"up", "down", "amiss"} : Turn(to)

Spec == Init /\ [][Next]_vars

\* The bridge's loop goes on: every request it makes has a time-out.
FairSpec == Spec /\ WF_vars(Step)

-----------------------------------------------------------------------------
(* What must hold.                                                         *)

TypeOK ==
    /\ late \subseteq stored /\ stored \subseteq Seqs
    /\ cursor \in [Channels -> 0..MaxSeq]
    /\ writer \in {"up", "down", "amiss"}
    /\ bridge \in [at : {"polling", "delivering", "answered"}, rows : SUBSET Seqs,
                   refused : Reasons, refusals : 0..Blame]
    /\ bridge.at = "polling" <=> bridge.rows = {}
    /\ handed \subseteq Seqs /\ dropped \subseteq Jobs
    /\ acts \in Histories

\* "A local server that is down or restarting loses nothing" (proposal_bridge.py:
\* 524) and "a crash in between means the job is seen again rather than lost"
\* (719): what the bridge's cursor has passed was handed to proposal-writer, or
\* refused by it, whatever went wrong, and however far other channels are.
Kept ==
    \A s \in stored \ late : (Channel[s] \in Watched /\ s <= cursor[Channel[s]])
        => s \in handed \cup dropped

Watching == {s \in Due : Channel[s] \in Watched}

\* What it does not watch is never acknowledged, and fills the response.
Crowded == Lowest(Due, Limit) \cap Watching = {}

\* The next job is refused like those before it, and would not be on its own.
Blaming == bridge.refusals >= Blame /\ First(Watching) \in DOMAIN Bad

\* A bridge that polls gets through what it watches once proposal-writer works,
\* and no job that is refused for itself stops those behind it: "retrying it for
\* ever would stop everything behind it" (proposal_bridge.py:644).  The exceptions
\* are what the code does: Blame such jobs in a row with one answer, and a
\* response full of what it does not watch.
Through == []<>(Watching = {} \/ writer # "up" \/ Crowded \/ Blaming)
=============================================================================
