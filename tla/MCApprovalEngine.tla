-------------------------- MODULE MCApprovalEngine --------------------------
(* expenseAccount.bpmn20.xml on a small staff: draft (single), bizCheck     *)
(* (every owner signs), finCheck (one of the owners signs).                 *)
EXTENDS ApprovalEngine

CONSTANTS ann, bob

MCPerson == {ann, bob}
MCSignRule == <<"single", "all", "one">>

(* taskOwners of requests: everybody asked everywhere; a single reviewer    *)
MCOwnerChoices == {<<{ann}, {ann, bob}, {ann, bob}>>, <<{}, {bob}, {}>>}
=============================================================================
