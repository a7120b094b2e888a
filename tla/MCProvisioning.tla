-------------------------- MODULE MCProvisioning --------------------------
(* Small instances of Provisioning and of its refinement. *)
EXTENDS ProvisioningRefinement, TLC

\* A node row with room for one client.
OneClient == [limit |-> 2, reserve |-> 50]
TightSeeds == {OneClient}

\* The histories explored: one credential with any two of the workers and the
\* reconciler at work, through its first command with all its attempts or through
\* two commands with one attempt each; one credential through three commands with
\* all their attempts and one of them at work; and two credentials with one
\* command and one attempt each and both workers.
Actors == {w \in Workers : worker[w] # Idle} \cup {k \in Reconcilers : recon[k] # Resting}
InUse == {c \in Credentials : cursor[c] > 0}
TriedAgain(c) == \E r \in Revisions : op[c][r].attempts > 1
AtWork(c) == IF cursor[c] = 1 \/ (cursor[c] = 2 /\ ~TriedAgain(c)) THEN 2 ELSE 1
Scope ==
    \/ /\ Cardinality(InUse) <= 1
       /\ \A c \in InUse : Cardinality(Actors) <= AtWork(c)
    \/ /\ \A c \in InUse : cursor[c] = 1 /\ ~TriedAgain(c)
       /\ \A k \in Reconcilers : recon[k] = Resting

Interchangeable == Permutations(Workers) \cup Permutations(Credentials)
===========================================================================
