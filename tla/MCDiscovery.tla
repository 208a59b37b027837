---------------------------- MODULE MCDiscovery ----------------------------
(* Three repositories and one that is created or starred meanwhile, a      *)
(* gist, and an item without a clone URL.                                  *)
EXTENDS Discovery

MCUrls == {"r1", "r2", "r3", "new", "gist", "nameless"}
MCNewcomers == {"new"}
MCNameless == {"nameless"}

\* A full page and part of another; a full page and the empty one after it.
MCUpstreams ==
    {[owned |-> <<"r1", "r2", "r3">>, starred |-> <<"r3">>, snippets |-> <<"gist">>, starredGists |-> <<>>],
     [owned |-> <<"r2", "nameless">>, starred |-> <<"r2">>, snippets |-> <<>>, starredGists |-> <<"gist">>]}

\* GitLab grants less than was asked for.
MCServed == [github |-> 2, gitlab |-> 1, forgejo |-> 2]
=============================================================================
