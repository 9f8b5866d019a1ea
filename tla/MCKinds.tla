------------------------------ MODULE MCKinds ------------------------------
(* Kinds for TLC: a channel of three, and two requests at once. *)
EXTENDS Kinds, TLC

CONSTANTS a, b, c, f, r1, r2

MCFirst == (a :> 1) @@ (b :> 2) @@ (c :> 3) @@ (f :> 0)

Named == {<<"kind", a, "proposal-writer">>, <<"kind", b, "repo-finder">>}
Paired == {<<"kind", a, "linkedin-handler">>, <<"kind", b, "linkedin-handler">>}
Taker == <<"kind", c, "linkedin-handler">>
Later == {
    <<"kind", c, "github-editor">>,
    <<"kind", b, "linkedin-handler">>, <<"kind", b, "vollna-scraper">>, <<"kind", b, None>>,
    <<"leave", b>>, <<"remove", b>>, <<"reissue", b, f>>, <<"join", b>>, <<"hears", c>>,
    <<"hears", b>>, <<"route", c, a>>, <<"route", a, c>>, <<"repeats", c>>, <<"crash">>}

Twice(S) == {<<>>} \cup {<<x>> : x \in S} \cup (S \X S)
Last == {<<"kind", c, "github-editor">>, <<"join", b>>, <<"hears", c>>, <<"crash">>}

MCHistories ==
    Twice(Named) \cup (Named \X Named \X Later) \cup (Named \X Named \X Later \X Last)
    \cup Twice(Paired) \cup (Paired \X Paired \X Later)
    \cup (Paired \X Paired \X {<<"leave", a>>, <<"remove", a>>})
    \cup (Paired \X Paired \X {<<"leave", a>>, <<"remove", a>>} \X {Taker})
=============================================================================
