--------------------------- MODULE MCMonthlyBilling ---------------------------
(* Small instances of MonthlyBilling: a customer with two databases in the *)
(* first month and one in the second, and a user on a free plan who turns  *)
(* to a paid one.                                                          *)
EXTENDS MonthlyBilling, TLC

CONSTANTS ann, bob

SmallItems == (ann :> <<<<1, 2>>, <<1>>>>) @@ (bob :> <<<<0>>, <<1>>>>)

OneUser == ann :> <<<<1, 2>>>>
=============================================================================
