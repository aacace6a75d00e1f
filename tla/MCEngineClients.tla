-------------------------- MODULE MCEngineClients --------------------------
(* EngineClients with no bucket, one, two, a zero bucket and a list that is *)
(* not ascending; bench_engine's bucket argument with empty tokens.         *)
EXTENDS EngineClients

MCBucketLists == {<<>>, <<1>>, <<2>>, <<1, 3>>, <<0, 2>>, <<2, 1>>}
MCBucketSpecs == {<<NoToken>>, <<2, NoToken>>, <<1, 3>>}
MCRowSizes == <<1, 2, 3>>
=============================================================================
