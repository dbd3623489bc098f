------------------------ MODULE MCDatabaseLifecycle ------------------------
(* Small instances of DatabaseLifecycle. *)
EXTENDS DatabaseLifecycle, TLC

(* Ids and request slots are interchangeable: sound for the safety runs.   *)
IdSymmetry == Permutations(Dbs) \cup Permutations(Requests)
=============================================================================
