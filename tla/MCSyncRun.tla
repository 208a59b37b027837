------------------------------ MODULE MCSyncRun ------------------------------
EXTENDS SyncRun, TLC
CONSTANTS a, b, da, db
Provider(repos, cache) == [mode |-> "provider", repos |-> repos, cache |-> cache]
Url(repos, cache) == [mode |-> "url", repos |-> repos, cache |-> cache]
OwnDir == a :> da @@ b :> db
\* A provider and a URL, one repository each; a provider with both of them, or one.
Mixed == {<<Provider({a}, TRUE), Url({b}, FALSE)>>, <<Provider({a, b}, TRUE)>>,
          <<Provider({a}, TRUE)>>}
=============================================================================
