----------------------------- MODULE MCInMemory -----------------------------
(* The instance: two tasks are due together, two more before and after; one*)
(* key of the cache and one URL are empty; a value's lines may look like   *)
(* headers; a database holds a URL twice, or identifiers yet to be given.  *)
EXTENDS InMemory, TLC

CONSTANTS t1, t2, t3, t4

FourTasks == {t1, t2, t3, t4}
Times == t1 :> 1 @@ t2 :> 2 @@ t3 :> 2 @@ t4 :> 3

MCLineTexts == {<<"", "">>, <<"", "x">>, <<"$", "x">>, <<"$", "-1">>, <<"+", "x">>}
MCMaxRequests == [p |-> 7, q |-> 1]
MCWeight == <<3, 1, 1>>
MCHashes == 0..5

Row(i, u) == [id |-> i, url |-> u]
MCPreloaded == {<<>>, <<Row(0, "u"), Row(1, "u")>>, <<Row(1, "v"), Row(3, "u")>>}
MCRequested == {<<>>, <<0>>, <<1>>, <<2>>, <<0, 2>>, <<1, 0>>, <<1, 3>>}
=============================================================================
