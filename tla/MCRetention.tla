----------------------------- MODULE MCRetention -----------------------------
EXTENDS Retention

\* A project, and a snippet nested under it.
TwoPrefixes ==
    [project |-> <<"repositories", "project">>,
     snippet |-> <<"repositories", "project", "snippets", "1">>]

\* A day kept, and at least none or two snapshots; retention switched off.
Keep02 == {[days |-> 1, minimum |-> m] : m \in {0, 2}} \cup {[days |-> 0, minimum |-> 0]}
=============================================================================
