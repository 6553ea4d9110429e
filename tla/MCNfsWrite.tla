----------------------------- MODULE MCNfsWrite -----------------------------
(* Instances of NfsWrite for TLC. *)
EXTENDS NfsWrite, TLC

CONSTANT w1

\* Every writer may use all its requests, or w1 alone uses any.
Equal == [w \in Writers |-> MaxRequests]
First == [w \in Writers |-> IF w = w1 THEN MaxRequests ELSE 0]

Interchangeable == Permutations(IoTasks)

=============================================================================
