-------------------------- MODULE MCOrderLifecycle --------------------------
(* OrderLifecycle on small instances: clients, orders and tables are        *)
(* interchangeable, which the safety runs use as symmetry.                  *)
EXTENDS OrderLifecycleLedger, TLC

Interchangeable ==
    Permutations(Client) \cup Permutations(Order) \cup Permutations(Table)

=============================================================================
