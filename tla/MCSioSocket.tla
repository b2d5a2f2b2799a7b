---------------------------- MODULE MCSioSocket ----------------------------
(* Instances of SioSocket for TLC: the application threads are             *)
(* interchangeable.                                                        *)
EXTENDS SioSocket, TLC

UserSymmetry == Permutations(Users)
============================================================================
