----------------------- MODULE ProvisioningRefinement -----------------------
(* Provisioning implements ProvisioningContract. *)
EXTENDS Provisioning

Contract == INSTANCE ProvisioningContract WITH
    kinds <- [c \in Credentials |-> [r \in 1..cursor[c] |-> op[c][r].kind]],
    placed <- [c \in Credentials |-> Rows(c)]

\* Everything the operation workers, the reconciler and the agents do is, for
\* access-service, a step of the contract: the newest command is answered at
\* most once and only by what the nodes of the credential really applied
\* (completeOperationWithEvent, CompleteProvision, CompleteRevoke).
ImplementsContract == Contract!Spec
=============================================================================
