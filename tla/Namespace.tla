----------------------------- MODULE Namespace -----------------------------
(***************************************************************************)
(* The tree of one drive.  A node has a parent and a closure of ancestry   *)
(* rows, one for every ancestor with its distance, which authorization,    *)
(* trash and the cycle check of a rename read instead of walking parents.  *)
(* Trashing a node marks what is live below it with the node as its trash  *)
(* root; restoring it unmarks what carries that root.  Every operation is  *)
(* one transaction that holds the row of the drive, so operations do not   *)
(* overlap, and every one advances the drive's namespace generation.       *)
(*                                                                         *)
(* Names are left out: the unique index on live names only refuses.  So do *)
(* the generation of a node that a client sends and, on NFS, its kind.     *)
(***************************************************************************)
EXTENDS Naturals

CONSTANTS
  Nodes, Root,
  None,
  MaxDepth,       \* the longest distance an ancestry row can hold, 128 in the schema
  MaxNamespace,   \* bounds the drive's namespace generation
  InitialParent,  \* the tree at the beginning, its parents
  InitialPath     \* and its ancestry rows

\* The rows of a node below one with these rows: the same ancestors, one further
\* away, and itself.
Below(n, rows) == {<<row[1], row[2] + 1>> : row \in rows} \cup {<<n, 0>>}

\* Every node has the rows that its parent gives it.
RowsFollowParents(par, rows) ==
  \A n \in Nodes : rows[n] # {} =>
    IF par[n] = None THEN rows[n] = {<<n, 0>>}
    ELSE rows[par[n]] # {} /\ rows[n] = Below(n, rows[par[n]])

\* One distance to every ancestor, and none to itself.
DistancesUnique(rows) ==
  \A n \in Nodes : \A r, s \in rows[n] :
    /\ r[1] = s[1] => r[2] = s[2]
    /\ r[2] = 0 <=> r[1] = n

\* The ancestors of an ancestor are ancestors, at the sum of the distances, and of
\* two ancestors the farther one is above the nearer.
RowsCompose(rows) ==
  \A n \in Nodes : \A r \in rows[n] :
    /\ <<r[1], 0>> \in rows[r[1]]
    /\ \A s \in rows[r[1]] : <<s[1], r[2] + s[2]>> \in rows[n]
    /\ \A s \in rows[n] : r[2] <= s[2] => <<s[1], s[2] - r[2]>> \in rows[r[1]]

ASSUME NamespaceAssumption ==
  /\ Root \in Nodes /\ None \notin Nodes
  /\ MaxDepth \in Nat /\ MaxNamespace \in Nat
  /\ InitialParent \in [Nodes -> Nodes \cup {None}]
  /\ InitialPath \in [Nodes -> SUBSET (Nodes \X (0..MaxDepth))]
  /\ InitialParent[Root] = None /\ InitialPath[Root] # {}
  /\ RowsFollowParents(InitialParent, InitialPath)
  /\ DistancesUnique(InitialPath) /\ RowsCompose(InitialPath)

VARIABLES
  parent,       \* nodes.parent_id
  path,         \* node_ancestry: the rows <<ancestor, depth>> of a descendant
  trash,        \* nodes.trash_root_id
  namespaceGen  \* drives.namespace_generation

tree == <<parent, path, trash>>
namespace == <<parent, path, trash, namespaceGen>>

NamespaceTyped ==
  /\ parent \in [Nodes -> Nodes \cup {None}]
  /\ path \in [Nodes -> SUBSET (Nodes \X (0..MaxDepth))]
  /\ trash \in [Nodes -> Nodes \cup {None}]
  /\ namespaceGen \in 0..MaxNamespace

\* A drive with nothing in its trash; a new one has its root only.
NamespaceInit ==
  /\ parent = InitialParent
  /\ path = InitialPath
  /\ trash = [n \in Nodes |-> None]
  /\ namespaceGen = 0

Exists(n) == path[n] # {}
Live(n) == Exists(n) /\ trash[n] = None
AncestorsOf(n) == {row[1] : row \in path[n]}
Subtree(n) == {d \in Nodes : n \in AncestorsOf(d)}
Advance == namespaceGen < MaxNamespace /\ namespaceGen' = namespaceGen + 1

-----------------------------------------------------------------------------
(* Operations *)

\* create_directory: the parent's generation is compared, its trash state and
\* its kind are not.
CreateDirectory(n, p) ==
  /\ ~Exists(n) /\ Exists(p)
  /\ Below(n, path[p]) \subseteq Nodes \X (0..MaxDepth)
  /\ parent' = [parent EXCEPT ![n] = p]
  /\ path' = [path EXCEPT ![n] = Below(n, path[p])]
  /\ UNCHANGED trash /\ Advance

\* create, mkdir and symlink through NFS need a live parent.
NfsCreate(n, p) == Live(p) /\ CreateDirectory(n, p)

\* Mutation: everything below the node gets the new root, what is in the trash
\* already too.
TrashedAll(n) == [d \in Nodes |-> IF d \in Subtree(n) THEN n ELSE trash[d]]

\* What is in the trash already keeps its own root.
Trashed(n) ==
  [d \in Nodes |-> IF d \in Subtree(n) /\ trash[d] = None THEN n ELSE trash[d]]

\* set_node_trash_state with trash set: not the root, and not in the trash.
TrashNode(n) ==
  /\ Exists(n) /\ parent[n] # None /\ trash[n] = None
  /\ trash' = Trashed(n)
  /\ UNCHANGED <<parent, path>> /\ Advance

\* remove through NFS, whose fence also asks for a live parent.
NfsRemove(n) == parent[n] # None /\ Live(parent[n]) /\ TrashNode(n)

\* Only what was trashed with the node returns with it.
Restored(n) ==
  [d \in Nodes |-> IF d \in Subtree(n) /\ trash[d] = n THEN None ELSE trash[d]]

\* Mutation: the parent's trash state is not looked at.
RestoreAnywhere(n) ==
  /\ Exists(n) /\ parent[n] # None /\ trash[n] = n
  /\ trash' = Restored(n)
  /\ UNCHANGED <<parent, path>> /\ Advance

\* set_node_trash_state with trash clear: a root of the trash, below a live node.
RestoreNode(n) ==
  /\ Exists(n) /\ parent[n] # None /\ trash[n] = n
  /\ trash[parent[n]] = None
  /\ trash' = Restored(n)
  /\ UNCHANGED <<parent, path>> /\ Advance

\* Mutation: only the rows of the node itself are replaced.
MovedAlone(n, target) == [path EXCEPT ![n] = Below(n, path[target])]

\* The rows from the proper ancestors of the node to its subtree are deleted, and
\* one is inserted from every ancestor of the target to everything below the node.
Moved(n, target) ==
  [d \in Nodes |->
     IF n \notin AncestorsOf(d) THEN path[d]
     ELSE {row \in path[d] : row[1] \notin AncestorsOf(n) \ {n}}
            \cup {<<up[1], up[2] + 1 + own[2]>> :
                    up \in path[target], own \in {row \in path[d] : row[1] = n}}]

\* Mutation: nothing stops a rename below the node itself.
RenameableAnywhere(n, target) == parent[n] # None /\ Live(n) /\ Live(target)

\* A live node that is not the root goes below a live one that is not below it.
Renameable(n, target) ==
  /\ parent[n] # None /\ Live(n) /\ Live(target)
  /\ Live(parent[n])
  /\ n \notin AncestorsOf(target)

\* rename through NFS; under the same parent only the name changes.
NfsRename(n, target) ==
  /\ Renameable(n, target)
  /\ path' = IF target = parent[n] THEN path ELSE Moved(n, target)
  /\ \A d \in Nodes : path'[d] \subseteq Nodes \X (0..MaxDepth)
  /\ parent' = [parent EXCEPT ![n] = target]
  /\ UNCHANGED trash /\ Advance

\* A new version, attributes or extended attributes: only the generation moves.
TouchNode(n) == Exists(n) /\ UNCHANGED tree /\ Advance

NamespaceNext ==
  \E n \in Nodes :
    \/ \E p \in Nodes : CreateDirectory(n, p) \/ NfsCreate(n, p) \/ NfsRename(n, p)
    \/ TrashNode(n) \/ NfsRemove(n) \/ RestoreNode(n) \/ TouchNode(n)

NamespaceSpec == NamespaceInit /\ [][NamespaceNext]_namespace

-----------------------------------------------------------------------------
(* Properties *)

\* The ancestry rows of every node are those of its parent, one further away, and
\* its own: what a rename does to the closure of a whole subtree (mutate_nfs_namespace)
\* and what a creation copies agree with the parents, in every order of the two.
AncestryExact == RowsFollowParents(parent, path)

\* The rows are the closure of a tree, whatever is created and renamed in between:
\* no node is a proper ancestor of itself, every ancestor has one distance (the key of
\* node_ancestry never refuses a rename of mutate_nfs_namespace), and the distances
\* add up along the path.
NoCycle == DistancesUnique(path) /\ RowsCompose(path)

\* The root that a trashed node names is above it and is its own root, and everything
\* between the two is in the trash, under roots that are not above that one: no
\* restore, rename or creation strands a node in the trash with nothing left to
\* restore it by (set_node_trash_state).
TrashRooted ==
  \A n \in Nodes : trash[n] # None =>
    /\ trash[n] \in AncestorsOf(n)
    /\ trash[trash[n]] = trash[n]
    /\ \A m \in AncestorsOf(n) : trash[n] \in AncestorsOf(m) =>
         trash[m] # None /\ trash[n] \in AncestorsOf(trash[m])

\* What was trashed on its own stays in the trash until it is restored itself,
\* whatever happens to the nodes above it (set_node_trash_state keeps the roots of
\* nodes that are in the trash already, and clears only its own).
TrashedApart ==
  [][\A n \in Nodes :
       trash[n] = n /\ trash'[n] # n =>
         /\ trash'[n] = None
         /\ \A m \in Nodes \ {n} : trash[m] \notin {None, n} => trash'[m] = trash[m]]_namespace

=============================================================================
