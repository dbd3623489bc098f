--------------------------- MODULE MCUsageMetering ---------------------------
(* Small instances of UsageMetering: months of two seconds, and a plan     *)
(* whose monthly price half a month of running reaches.                    *)
EXTENDS UsageMetering, TLC

CONSTANT small

(* The names of a database are interchangeable: sound for safety.         *)
NameSymmetry == Permutations(Names)

OnePriceByHour  == small :> 2
OnePriceByMonth == small :> 1
=============================================================================
