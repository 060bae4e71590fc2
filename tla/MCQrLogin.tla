---------------------------- MODULE MCQrLogin ----------------------------
(***************************************************************************)
(* QrLogin for TLC: requests, and named users, may change places, since     *)
(* its properties are about safety and name none of them.                   *)
(***************************************************************************)
EXTENDS QrLogin, TLC

Alike == Permutations(Slots) \cup Permutations(Names)
=============================================================================
