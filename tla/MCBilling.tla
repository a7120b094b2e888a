------------------------------ MODULE MCBilling ------------------------------
(* Small instances of Billing. *)
EXTENDS Billing, TLC

CONSTANTS k1, k2, p1, p2

MCPlan == [k \in Keys |-> "month"]
\* One order under every disturbance, and two orders, with and without
\* overlapping requests.
MCBudgets == {[processes |-> {p1, p2}, faults |-> 2, keys |-> {k1}, notices |-> Topics],
              [processes |-> {p1}, faults |-> 1, keys |-> {k1, k2}, notices |-> {"canceled"}],
              [processes |-> {p1, p2}, faults |-> 0, keys |-> {k1, k2}, notices |-> {}]}
ProcessSymmetry == Permutations(Processes)
=============================================================================
