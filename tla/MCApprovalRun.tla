---------------------------- MODULE MCApprovalRun ----------------------------
(* Instances of ApprovalRun for TLC. *)
EXTENDS ApprovalRun, TLC

CONSTANTS requester, chief, deputy

MCUsers == {requester, chief, deputy}
MCDeciders == {requester, chief, deputy}
MCRoles == <<{requester, chief, deputy}, {requester, chief}>>
MCPreparation == Gates
Symmetry == Permutations(Requests) \cup Permutations(Tasks)
=============================================================================
