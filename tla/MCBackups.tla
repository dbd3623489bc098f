------------------------------ MODULE MCBackups ------------------------------
(* Small instances of Backups. *)
EXTENDS Backups

CONSTANTS d1, d2

(* Databases of two users, both called "app".                              *)
SameName == [d \in Dbs |-> "app"]
=============================================================================
