--------------------------- MODULE MCBenchSession ---------------------------
(***************************************************************************)
(* Instances of BenchSession: the lists of UDP rates a run is started with. *)
(***************************************************************************)
EXTENDS BenchSession

SmallRateLists == {<<>>, <<1>>, <<1, 2>>}
OneRate == {<<1>>}
=============================================================================
