----------------------------- MODULE WorkQueue -----------------------------
(***************************************************************************)
(* What a channel "that hands each message to one taker" promises, without *)
(* polls, transactions, locks or clocks: each message is waiting, or with  *)
(* one taker, or done.  It leaves a taker only by being done, by being     *)
(* overdue, by the taker giving up its place, or by the queue being        *)
(* switched off; and what is done stays done until then.                   *)
(***************************************************************************)
CONSTANTS Seqs, Workers, NoOne

VARIABLES
    item,   \* [Seqs -> [at, by]]
    on      \* whether the channel hands each message to one taker

At(s) == item[s].at
Nowhere(at) == [at |-> at, by |-> NoOne]
With(w, at) == [at |-> at, by |-> w]
InHand(w) == {s \in Seqs : item[s].by = w /\ At(s) \in {"held", "overdue"}}
Known == {s \in Seqs : At(s) \notin {"new", "gone"}}

\* A message arrives, and the oldest may be dropped to make room.
Arrive(s, dropped) ==
    /\ At(s) = "new"
    /\ dropped \subseteq Known \cup {s}
    /\ item' = [t \in Seqs |-> IF t \in dropped THEN Nowhere("gone")
                               ELSE IF t = s THEN Nowhere("waiting") ELSE item[t]]

\* The channel is to keep fewer.
Drop(dropped) ==
    /\ dropped \subseteq Known
    /\ item' = [t \in Seqs |-> IF t \in dropped THEN Nowhere("gone") ELSE item[t]]

\* One taker is handed S, which nobody holds in time, and the overdue R are
\* waiting again.
Hand(w, S, R) ==
    /\ \A s \in S : At(s) \in {"waiting", "overdue"}
    /\ \A r \in R : At(r) = "overdue"
    /\ item' = [t \in Seqs |-> IF t \in S THEN With(w, "held")
                               ELSE IF t \in R THEN Nowhere("waiting") ELSE item[t]]

Settle(w, S) ==
    /\ S \subseteq InHand(w)
    /\ item' = [t \in Seqs |-> IF t \in S THEN With(w, "done") ELSE item[t]]

Overdue(s) ==
    /\ At(s) = "held"
    /\ item' = [t \in Seqs |-> IF t = s THEN With(item[s].by, "overdue") ELSE item[t]]

\* A taker leaves, or is no longer one.
GiveBack(w) ==
    item' = [t \in Seqs |-> IF t \in InHand(w) THEN Nowhere("waiting") ELSE item[t]]

\* The queue is switched off.
Recall ==
    /\ on' = FALSE
    /\ item' = [t \in Seqs |-> IF t \in Known THEN Nowhere("waiting") ELSE item[t]]

SwitchedOn == on' = TRUE /\ UNCHANGED item

Init == item = [s \in Seqs |-> Nowhere("new")] /\ on \in BOOLEAN

Work ==
    \/ \E s \in Seqs : Overdue(s)
    \/ \E dropped \in SUBSET Seqs : Drop(dropped) \/ \E s \in Seqs : Arrive(s, dropped)
    \/ \E w \in Workers, S \in SUBSET Seqs :
          Settle(w, S) \/ \E R \in SUBSET Seqs : Hand(w, S, R)
    \/ \E w \in Workers : GiveBack(w)

Next == (Work /\ UNCHANGED on) \/ Recall \/ SwitchedOn

Spec == Init /\ [][Next]_<<item, on>>

=============================================================================
