------------------------------ MODULE MCIntake ------------------------------
(* Intake for TLC. *)
EXTENDS Intake, TLC

\* Neither the calls nor the users nor the bookings are told apart.
Alike == Permutations(Calls) \cup Permutations(Users) \cup Permutations(Bookings)
=============================================================================
