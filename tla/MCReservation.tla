---------------------------- MODULE MCReservation ---------------------------
(* Instances of Reservation for TLC: one superuser and one or two users,   *)
(* and periods of a day or two in place of ninety and thirty.              *)
EXTENDS Reservation

CONSTANTS root, ann, bob, nobody, web, thread

MCEveryKind == Kinds

MCVm == {[vm |-> TRUE, reinstall |-> "no"]}

MCPlain == {[vm |-> FALSE, reinstall |-> "no"]}
=============================================================================
