--------------------------- MODULE MCDriveAccess ---------------------------
EXTENDS DriveAccess

CONSTANTS Outer, Inner, Manager

\* A directory below the root; the inner one is yet to be created.
MCParent == [n \in Nodes |-> IF n = Outer THEN Root ELSE None]
MCPath ==
  [n \in Nodes |->
     CASE n = Root  -> {<<Root, 0>>}
       [] n = Outer -> {<<Root, 1>>, <<Outer, 0>>}
       [] OTHER     -> {}]

\* A group that manages the outer directory, with one member.
MCMember == [u \in Users |-> IF u = Manager THEN Groups ELSE {}]
MCRules ==
  {[on |-> Outer, to |-> g, rule |-> [action |-> a, effect |-> "allow", scope |-> "tree"]] :
     g \in Groups, a \in Actions}

\* A recursive share of the outer directory with all actions, and one of the inner
\* directory alone.
MCShares ==
  [on: {Outer}, to: Users \ {Owner}, by: Users, preset: {"manager"}, scope: {"tree"}]
  \cup [on: {Inner}, to: Users \ {Owner}, by: {Owner}, preset: {"contributor"}, scope: {"self"}]

\* The group loses everything, and a user is denied what is in the directory.
MCReplacements ==
  [on: {Outer}, to: Groups, rules: {{}}]
  \cup [on: {Outer}, to: Users \ {Owner},
        rules: {{[action |-> "USE", effect |-> "deny", scope |-> "children"]}}]

\* Requests for one node, and a rename between the root and the outer directory.
MCRequests ==
  {Actions \X {Outer}, {"USE", "SHARE"} \X {Inner}, {<<"USE", Root>>},
   {"USE"} \X {Root, Outer, Inner}}
=============================================================================
