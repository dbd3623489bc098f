----------------------------- MODULE MCAdmission -----------------------------
(* Small instances of Admission. *)
EXTENDS Admission, TLC

(* Row ids and request slots are interchangeable: sound without liveness.  *)
IdSymmetry == Permutations(Dbs \ Handled) \cup Permutations(Calls)
=============================================================================
