---------------------------- MODULE MCCredentials ----------------------------
(* Small instances of Credentials. *)
EXTENDS Credentials, TLC

(* Calls, names and permissions are interchangeable: sound without liveness. *)
Symmetry == Permutations(Calls) \cup Permutations(Names) \cup Permutations(Perms)
=============================================================================
