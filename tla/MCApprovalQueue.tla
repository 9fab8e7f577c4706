---------------------------- MODULE MCApprovalQueue ----------------------------
(* Instances of ApprovalQueue for TLC. *)
EXTENDS ApprovalQueue, TLC

CONSTANTS r1, r2, alice, bob

OneRequest   == {r1}
TwoRequests  == {r1, r2}
OneOperator  == {alice}
TwoOperators == {alice, bob}
Nobody       == {}
=============================================================================
