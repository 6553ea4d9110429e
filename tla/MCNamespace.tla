---------------------------- MODULE MCNamespace ----------------------------
EXTENDS Namespace

\* A new drive: its root and nothing else.
MCParent == [n \in Nodes |-> None]
MCPath == [n \in Nodes |-> IF n = Root THEN {<<Root, 0>>} ELSE {}]
=============================================================================
