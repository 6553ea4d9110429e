--------------------------- MODULE NamespaceProofs ---------------------------
(***************************************************************************)
(* The ancestry closure and the trash of a drive, for every set of nodes   *)
(* and every depth.  The algebra of ancestry is done on the relation       *)
(* Up(rows, d, a, k), "a is k above d", whose definition the algebraic     *)
(* lemmas never expand.                                                    *)
(***************************************************************************)
EXTENDS Namespace, TLAPS

Rows == [Nodes -> SUBSET (Nodes \X Nat)]

Up(rows, d, a, k) == <<a, k>> \in rows[d]

Above(rows, a, d) == \E k \in Nat : Up(rows, d, a, k)

Tree(rows) ==
  \A d, a \in Nodes : \A j \in Nat : Up(rows, d, a, j) =>
    /\ Up(rows, a, a, 0)
    /\ j = 0 <=> a = d
    /\ \A k \in Nat : Up(rows, d, a, k) => j = k
    /\ \A b \in Nodes : \A k \in Nat : Up(rows, a, b, k) <=> Up(rows, d, b, j + k)

\* The rows of new are those of rows after n has been moved below target.
Moves(rows, new, n, target) ==
  \A d, a \in Nodes : \A k \in Nat :
    Up(new, d, a, k) <=>
      IF Above(rows, n, d)
      THEN \/ Up(rows, d, a, k) /\ (a = n \/ ~Above(rows, a, n))
           \/ \E i, j \in Nat : Up(rows, target, a, i) /\ Up(rows, d, n, j) /\ k = i + 1 + j
      ELSE Up(rows, d, a, k)

\* The parents and the rows agree.
Follows(par, rows) ==
  \A d \in Nodes : (\E a \in Nodes : Above(rows, a, d)) =>
    /\ par[d] = None =>
         \A a \in Nodes : \A k \in Nat : Up(rows, d, a, k) <=> a = d /\ k = 0
    /\ par[d] # None =>
         /\ \E a \in Nodes : Above(rows, a, par[d])
         /\ \A a \in Nodes : \A k \in Nat :
              Up(rows, d, a, k) <=>
                \/ a = d /\ k = 0
                \/ \E j \in Nat : k = j + 1 /\ Up(rows, par[d], a, j)

\* What is in the trash hangs together.
Rooted(tr, rows) ==
  \A d \in Nodes : tr[d] # None =>
    /\ Above(rows, tr[d], d)
    /\ tr[tr[d]] = tr[d]
    /\ \A m \in Nodes : Above(rows, m, d) /\ Above(rows, tr[d], m) =>
         tr[m] # None /\ Above(rows, tr[d], tr[m])

-----------------------------------------------------------------------------
(* The algebra of ancestry *)

\* Ancestry is transitive.
LEMMA AboveTransitive ==
  ASSUME NEW rows, Tree(rows), NEW a \in Nodes, NEW b \in Nodes, NEW c \in Nodes,
         Above(rows, a, b), Above(rows, b, c)
  PROVE  Above(rows, a, c)
<1>1. PICK j \in Nat : Up(rows, b, a, j)
  BY DEF Above
<1>2. PICK k \in Nat : Up(rows, c, b, k)
  BY DEF Above
<1>3. Up(rows, c, a, k + j)
  BY <1>1, <1>2 DEF Tree
<1>4. k + j \in Nat
  OBVIOUS
<1> QED
  BY <1>3, <1>4 DEF Above

\* Two nodes that are above each other are one.
LEMMA AboveAntisymmetric ==
  ASSUME NEW rows, Tree(rows), NEW a \in Nodes, NEW b \in Nodes,
         Above(rows, a, b), Above(rows, b, a)
  PROVE  a = b
<1>1. PICK j \in Nat : Up(rows, b, a, j)
  BY DEF Above
<1>2. PICK k \in Nat : Up(rows, a, b, k)
  BY DEF Above
<1>3. Up(rows, b, b, j + k) /\ Up(rows, b, b, 0)
  BY <1>1, <1>2 DEF Tree
<1>4. j + k = 0
  BY <1>3, j + k \in Nat, 0 \in Nat DEF Tree
<1>5. j = 0
  BY <1>4
<1> QED
  BY <1>1, <1>5 DEF Tree

\* Of two ancestors of a node one is above the other.
LEMMA AboveLinear ==
  ASSUME NEW rows, Tree(rows), NEW a \in Nodes, NEW b \in Nodes, NEW d \in Nodes,
         Above(rows, a, d), Above(rows, b, d)
  PROVE  Above(rows, a, b) \/ Above(rows, b, a)
<1>1. PICK j \in Nat : Up(rows, d, a, j)
  BY DEF Above
<1>2. PICK k \in Nat : Up(rows, d, b, k)
  BY DEF Above
<1>3. CASE j <= k
  <2>1. k - j \in Nat /\ k = j + (k - j)
    BY <1>3
  <2>2. Up(rows, a, b, k - j)
    BY <1>1, <1>2, <2>1 DEF Tree
  <2> QED
    BY <2>1, <2>2 DEF Above
<1>4. CASE k <= j
  <2>1. j - k \in Nat /\ j = k + (j - k)
    BY <1>4
  <2>2. Up(rows, b, a, j - k)
    BY <1>1, <1>2, <2>1 DEF Tree
  <2> QED
    BY <2>1, <2>2 DEF Above
<1> QED
  BY <1>3, <1>4

\* A node above another has a row of its own, and so is above itself.
LEMMA AboveItself ==
  ASSUME NEW rows, Tree(rows), NEW a \in Nodes, NEW d \in Nodes, Above(rows, a, d)
  PROVE  Up(rows, a, a, 0) /\ Above(rows, a, a)
BY DEF Above, Tree

-----------------------------------------------------------------------------
(* A rename *)

\* Outside the moved subtree nothing changes, and nothing outside it has an ancestor
\* inside it.
LEMMA MoveOutside ==
  ASSUME NEW rows, NEW new, Tree(rows), NEW n \in Nodes, NEW target \in Nodes,
         Moves(rows, new, n, target), NEW d \in Nodes, ~Above(rows, n, d)
  PROVE  /\ \A a \in Nodes : \A k \in Nat : Up(new, d, a, k) <=> Up(rows, d, a, k)
         /\ \A a \in Nodes : Above(new, a, d) <=> Above(rows, a, d)
         /\ \A a \in Nodes : Above(rows, a, d) => ~Above(rows, n, a)
<1>1. \A a \in Nodes : \A k \in Nat : Up(new, d, a, k) <=> Up(rows, d, a, k)
  BY DEF Moves
<1>2. \A a \in Nodes : Above(new, a, d) <=> Above(rows, a, d)
  BY <1>1 DEF Above
<1>3. \A a \in Nodes : Above(rows, a, d) => ~Above(rows, n, a)
  BY AboveTransitive
<1> QED
  BY <1>1, <1>2, <1>3

\* The rows that a node of the moved subtree keeps lead to nodes of that subtree.
LEMMA MoveKept ==
  ASSUME NEW rows, NEW new, Tree(rows), NEW n \in Nodes, NEW target \in Nodes,
         Moves(rows, new, n, target),
         NEW d \in Nodes, NEW h \in Nat, Up(rows, d, n, h),
         NEW a \in Nodes, NEW k \in Nat, Up(rows, d, a, k), a = n \/ ~Above(rows, a, n)
  PROVE  /\ Above(rows, n, a) /\ Up(new, d, a, k)
         /\ k <= h /\ Up(rows, a, n, h - k)
<1>1. Above(rows, n, d) /\ Above(rows, a, d)
  BY DEF Above
<1>2. Above(rows, n, a)
  BY <1>1, AboveLinear, AboveItself
<1>3. PICK g \in Nat : Up(rows, a, n, g)
  BY <1>2 DEF Above
<1>4. Up(rows, d, n, k + g) /\ k + g \in Nat
  BY <1>3 DEF Tree
<1>5. h = k + g
  BY <1>4 DEF Tree
<1>6. Up(new, d, a, k)
  BY <1>1 DEF Moves
<1>7. k <= h /\ h - k = g
  BY <1>5
<1> QED
  BY <1>2, <1>3, <1>6, <1>7

\* The rows that it gains lead to nodes outside, which keep theirs.
LEMMA MoveGained ==
  ASSUME NEW rows, NEW new, Tree(rows), NEW n \in Nodes, NEW target \in Nodes,
         Moves(rows, new, n, target), ~Above(rows, n, target),
         NEW d \in Nodes, NEW h \in Nat, Up(rows, d, n, h),
         NEW a \in Nodes, NEW i \in Nat, Up(rows, target, a, i)
  PROVE  /\ ~Above(rows, n, a) /\ a # d /\ Up(new, d, a, i + 1 + h)
         /\ \A b \in Nodes : \A k \in Nat : Up(new, a, b, k) <=> Up(rows, a, b, k)
<1>1. Above(rows, n, d) /\ Above(rows, a, target)
  BY DEF Above
<1>2. ~Above(rows, n, a)
  BY <1>1, AboveTransitive
<1>3. i + 1 + h \in Nat
  OBVIOUS
<1>4. Up(new, d, a, i + 1 + h)
  BY <1>1, <1>3 DEF Moves
<1> QED
  BY <1>1, <1>2, <1>4, MoveOutside

\* A row of a node of the moved subtree is kept or gained.
LEMMA MoveInside ==
  ASSUME NEW rows, NEW new, Tree(rows), NEW n \in Nodes, NEW target \in Nodes,
         Moves(rows, new, n, target),
         NEW d \in Nodes, NEW h \in Nat, Up(rows, d, n, h),
         NEW a \in Nodes, NEW k \in Nat, Up(new, d, a, k)
  PROVE  \/ Up(rows, d, a, k) /\ (a = n \/ ~Above(rows, a, n))
         \/ \E i \in Nat : Up(rows, target, a, i) /\ k = i + 1 + h
<1>1. Above(rows, n, d)
  BY DEF Above
<1>2. \/ Up(rows, d, a, k) /\ (a = n \/ ~Above(rows, a, n))
      \/ \E i, j \in Nat : Up(rows, target, a, i) /\ Up(rows, d, n, j) /\ k = i + 1 + j
  BY <1>1 DEF Moves
<1>3. \A j \in Nat : Up(rows, d, n, j) => j = h
  BY DEF Tree
<1> QED
  BY <1>2, <1>3

\* The rows of a node of the moved subtree are again those of a tree.
LEMMA MoveInsideTree ==
  ASSUME NEW rows, NEW new, Tree(rows), NEW n \in Nodes, NEW target \in Nodes,
         Moves(rows, new, n, target), ~Above(rows, n, target), Up(rows, n, n, 0),
         NEW d \in Nodes, Above(rows, n, d),
         NEW a \in Nodes, NEW j \in Nat, Up(new, d, a, j)
  PROVE  /\ Up(new, a, a, 0)
         /\ j = 0 <=> a = d
         /\ \A k \in Nat : Up(new, d, a, k) => j = k
         /\ \A b \in Nodes : \A k \in Nat : Up(new, a, b, k) <=> Up(new, d, b, j + k)
<1>a. \A x, b \in Nodes : \A g, k \in Nat :
        /\ Up(rows, x, n, g) /\ Up(rows, x, b, k) /\ (b = n \/ ~Above(rows, b, n))
        => Above(rows, n, b) /\ Up(new, x, b, k) /\ k <= g /\ Up(rows, b, n, g - k)
  BY MoveKept
<1>b. \A x, b \in Nodes : \A g, i \in Nat :
        /\ Up(rows, x, n, g) /\ Up(rows, target, b, i)
        => /\ ~Above(rows, n, b) /\ b # x /\ Up(new, x, b, i + 1 + g)
           /\ \A c \in Nodes : \A k \in Nat : Up(new, b, c, k) <=> Up(rows, b, c, k)
  <2> SUFFICES ASSUME NEW x \in Nodes, NEW b \in Nodes, NEW g \in Nat, NEW i \in Nat,
                      Up(rows, x, n, g), Up(rows, target, b, i)
      PROVE  /\ ~Above(rows, n, b) /\ b # x /\ Up(new, x, b, i + 1 + g)
             /\ \A c \in Nodes : \A k \in Nat : Up(new, b, c, k) <=> Up(rows, b, c, k)
    OBVIOUS
  <2>1. ~Above(rows, n, b) /\ b # x /\ Up(new, x, b, i + 1 + g)
    BY MoveGained
  <2>2. \A c \in Nodes : \A k \in Nat : Up(new, b, c, k) <=> Up(rows, b, c, k)
    BY <2>1, MoveOutside
  <2> QED
    BY <2>1, <2>2
<1>c. \A x, b \in Nodes : \A g, k \in Nat :
        /\ Up(rows, x, n, g) /\ Up(new, x, b, k)
        => \/ Up(rows, x, b, k) /\ (b = n \/ ~Above(rows, b, n))
           \/ \E i \in Nat : Up(rows, target, b, i) /\ k = i + 1 + g
  BY MoveInside
<1>1. PICK h \in Nat : Up(rows, d, n, h)
  BY DEF Above
<1>2. CASE Up(rows, d, a, j) /\ (a = n \/ ~Above(rows, a, n))
  <2>1. Above(rows, n, a) /\ j <= h /\ Up(rows, a, n, h - j) /\ h - j \in Nat
    BY <1>1, <1>2, <1>a
  <2>2. Up(rows, a, a, 0) /\ (j = 0 <=> a = d)
    BY <1>2 DEF Tree
  <2>3. Up(new, a, a, 0)
    BY <1>2, <2>1, <2>2, 0 \in Nat, <1>a
  <2>4. ASSUME NEW k \in Nat, Up(new, d, a, k)
        PROVE  j = k
    <3>1. CASE Up(rows, d, a, k)
      BY <1>2, <3>1 DEF Tree
    <3>2. CASE \E i \in Nat : Up(rows, target, a, i)
      BY <1>1, <2>1, <3>2, <1>b
    <3> QED
      BY <1>1, <2>4, <3>1, <3>2, <1>c
  <2>5. ASSUME NEW b \in Nodes, NEW k \in Nat, Up(new, a, b, k)
        PROVE  Up(new, d, b, j + k)
    <3>1. CASE Up(rows, a, b, k) /\ (b = n \/ ~Above(rows, b, n))
      <4>1. Up(rows, d, b, j + k) /\ j + k \in Nat
        BY <1>2, <3>1 DEF Tree
      <4> QED
        BY <1>1, <3>1, <4>1, <1>a
    <3>2. ASSUME NEW i \in Nat, Up(rows, target, b, i), k = i + 1 + (h - j)
          PROVE  Up(new, d, b, j + k)
      <4>1. Up(new, d, b, i + 1 + h)
        BY <1>1, <3>2, <1>b
      <4>2. j + k = i + 1 + h
        BY <2>1, <3>2
      <4> QED
        BY <4>1, <4>2
    <3> QED
      BY <2>1, <2>5, <3>1, <3>2, <1>c
  <2>6. ASSUME NEW b \in Nodes, NEW k \in Nat, Up(new, d, b, j + k)
        PROVE  Up(new, a, b, k)
    <3>0. j + k \in Nat
      OBVIOUS
    <3>1. CASE Up(rows, d, b, j + k) /\ (b = n \/ ~Above(rows, b, n))
      <4>1. Up(rows, a, b, k)
        BY <1>2, <3>1 DEF Tree
      <4> QED
        BY <2>1, <3>1, <4>1, <1>a
    <3>2. ASSUME NEW i \in Nat, Up(rows, target, b, i), j + k = i + 1 + h
          PROVE  Up(new, a, b, k)
      <4>1. Up(new, a, b, i + 1 + (h - j))
        BY <2>1, <3>2, <1>b
      <4>2. k = i + 1 + (h - j)
        BY <2>1, <3>2
      <4> QED
        BY <4>1, <4>2
    <3> QED
      BY <1>1, <2>6, <3>0, <3>1, <3>2, <1>c
  <2> QED
    BY <2>2, <2>3, <2>4, <2>5, <2>6
<1>3. ASSUME NEW i \in Nat, Up(rows, target, a, i), j = i + 1 + h
      PROVE  /\ Up(new, a, a, 0)
             /\ j = 0 <=> a = d
             /\ \A k \in Nat : Up(new, d, a, k) => j = k
             /\ \A b \in Nodes : \A k \in Nat : Up(new, a, b, k) <=> Up(new, d, b, j + k)
  <2>1. /\ ~Above(rows, n, a) /\ a # d
        /\ \A b \in Nodes : \A k \in Nat : Up(new, a, b, k) <=> Up(rows, a, b, k)
    BY <1>1, <1>3, <1>b
  <2>2. Up(new, a, a, 0)
    BY <1>3, <2>1, 0 \in Nat DEF Tree
  <2>3. j # 0
    BY <1>3
  <2>4. \A b \in Nodes : \A k \in Nat :
          Up(rows, d, b, k) /\ (b = n \/ ~Above(rows, b, n)) => k <= h /\ Above(rows, n, b)
    BY <1>1, <1>a
  <2>5. ASSUME NEW k \in Nat, Up(new, d, a, k)
        PROVE  j = k
    <3>1. PICK g \in Nat : Up(rows, target, a, g) /\ k = g + 1 + h
      BY <1>1, <2>1, <2>4, <2>5, <1>c
    <3>2. g = i
      BY <1>3, <3>1 DEF Tree
    <3> QED
      BY <1>3, <3>1, <3>2
  <2>6. ASSUME NEW b \in Nodes, NEW k \in Nat, Up(new, a, b, k)
        PROVE  Up(new, d, b, j + k)
    <3>1. Up(rows, target, b, i + k) /\ i + k \in Nat
      BY <1>3, <2>1, <2>6 DEF Tree
    <3>2. Up(new, d, b, (i + k) + 1 + h)
      BY <1>1, <3>1, <1>b
    <3>3. (i + k) + 1 + h = j + k
      BY <1>3
    <3> QED
      BY <3>2, <3>3
  <2>7. ASSUME NEW b \in Nodes, NEW k \in Nat, Up(new, d, b, j + k)
        PROVE  Up(new, a, b, k)
    <3>1. j + k \in Nat /\ ~(j + k <= h)
      BY <1>3
    <3>2. PICK g \in Nat : Up(rows, target, b, g) /\ j + k = g + 1 + h
      BY <1>1, <2>4, <2>7, <3>1, <1>c
    <3>3. g = i + k
      BY <1>3, <3>2
    <3> QED
      BY <1>3, <2>1, <3>2, <3>3 DEF Tree
  <2> QED
    BY <2>1, <2>2, <2>3, <2>5, <2>6, <2>7
<1> QED
  BY <1>1, <1>2, <1>3, <1>c

\* A move keeps the ancestry a tree's.
LEMMA MoveTree ==
  ASSUME NEW rows, NEW new, Tree(rows), NEW n \in Nodes, NEW target \in Nodes,
         Moves(rows, new, n, target), ~Above(rows, n, target), Up(rows, n, n, 0)
  PROVE  Tree(new)
<1> SUFFICES ASSUME NEW d \in Nodes, NEW a \in Nodes, NEW j \in Nat, Up(new, d, a, j)
    PROVE  /\ Up(new, a, a, 0)
           /\ j = 0 <=> a = d
           /\ \A k \in Nat : Up(new, d, a, k) => j = k
           /\ \A b \in Nodes : \A k \in Nat : Up(new, a, b, k) <=> Up(new, d, b, j + k)
  BY DEF Tree
<1>1. CASE Above(rows, n, d)
  <2>1. Up(new, a, a, 0) /\ (j = 0 <=> a = d)
    BY <1>1, MoveInsideTree
  <2>2. \A k \in Nat : Up(new, d, a, k) => j = k
    BY <1>1, MoveInsideTree
  <2>3. \A b \in Nodes : \A k \in Nat : Up(new, a, b, k) <=> Up(new, d, b, j + k)
    BY <1>1, MoveInsideTree
  <2> QED
    BY <2>1, <2>2, <2>3
<1>2. CASE ~Above(rows, n, d)
  <2>1. \A b \in Nodes : \A k \in Nat : Up(new, d, b, k) <=> Up(rows, d, b, k)
    BY <1>2, MoveOutside
  <2>2. Up(rows, d, a, j)
    BY <2>1
  <2>3. ~Above(rows, n, a)
    BY <1>2, <2>2, MoveOutside DEF Above
  <2>4. \A b \in Nodes : \A k \in Nat : Up(new, a, b, k) <=> Up(rows, a, b, k)
    BY <2>3, MoveOutside
  <2>5. Up(rows, a, a, 0) /\ (j = 0 <=> a = d)
    BY <2>2 DEF Tree
  <2>6. \A k \in Nat : Up(rows, d, a, k) => j = k
    BY <2>2 DEF Tree
  <2>7. \A b \in Nodes : \A k \in Nat : Up(rows, a, b, k) <=> Up(rows, d, b, j + k)
    BY <2>2 DEF Tree
  <2>8. \A k \in Nat : j + k \in Nat
    OBVIOUS
  <2> QED
    BY <2>1, <2>4, <2>5, <2>6, <2>7, <2>8, 0 \in Nat
<1> QED
  BY <1>1, <1>2

\* After a move the parents and the rows agree again.
LEMMA MoveFollows ==
  ASSUME NEW rows, NEW new, Tree(rows), NEW n \in Nodes, NEW target \in Nodes,
         Moves(rows, new, n, target), ~Above(rows, n, target),
         Up(rows, n, n, 0), Up(rows, target, target, 0),
         None \notin Nodes,
         NEW par \in [Nodes -> Nodes \cup {None}], NEW now \in [Nodes -> Nodes \cup {None}],
         Follows(par, rows), now = [par EXCEPT ![n] = target]
  PROVE  Follows(now, new)
<1>0. \A d \in Nodes : (\E a \in Nodes : Above(new, a, d)) =>
                         \E a \in Nodes : Above(rows, a, d)
  BY DEF Moves, Above
<1> SUFFICES ASSUME NEW d \in Nodes, \E a \in Nodes : Above(new, a, d)
    PROVE  /\ now[d] = None =>
                \A a \in Nodes : \A k \in Nat : Up(new, d, a, k) <=> a = d /\ k = 0
           /\ now[d] # None =>
                /\ \E a \in Nodes : Above(new, a, now[d])
                /\ \A a \in Nodes : \A k \in Nat :
                     Up(new, d, a, k) <=>
                       \/ a = d /\ k = 0
                       \/ \E j \in Nat : k = j + 1 /\ Up(new, now[d], a, j)
  BY DEF Follows
<1>1. /\ par[d] = None =>
           \A a \in Nodes : \A k \in Nat : Up(rows, d, a, k) <=> a = d /\ k = 0
      /\ par[d] # None =>
           /\ \E a \in Nodes : Above(rows, a, par[d])
           /\ \A a \in Nodes : \A k \in Nat :
                Up(rows, d, a, k) <=>
                  \/ a = d /\ k = 0
                  \/ \E j \in Nat : k = j + 1 /\ Up(rows, par[d], a, j)
  BY <1>0 DEF Follows
<1>2. CASE ~Above(rows, n, d)
  <2>1. \A a \in Nodes : \A k \in Nat : Up(new, d, a, k) <=> Up(rows, d, a, k)
    BY <1>2, MoveOutside
  <2>2. d # n /\ now[d] = par[d]
    BY <1>2, 0 \in Nat DEF Above
  <2>3. CASE par[d] = None
    BY <1>1, <2>1, <2>2, <2>3
  <2>4. CASE par[d] # None
    <3>0. par[d] \in Nodes
      BY <2>4
    <3>1. ~Above(rows, n, par[d])
      <4> SUFFICES ASSUME NEW j \in Nat, Up(rows, par[d], n, j)
          PROVE  FALSE
        BY DEF Above
      <4>1. Up(rows, d, n, j + 1) /\ j + 1 \in Nat
        BY <1>1, <2>4
      <4> QED
        BY <1>2, <4>1 DEF Above
    <3>2. \A a \in Nodes : \A k \in Nat : Up(new, par[d], a, k) <=> Up(rows, par[d], a, k)
      BY <3>0, <3>1, MoveOutside
    <3>3. \E a \in Nodes : Above(new, a, par[d])
      BY <1>1, <2>4, <3>2 DEF Above
    <3> QED
      BY <1>1, <2>1, <2>2, <2>4, <3>2, <3>3
  <2> QED
    BY <2>3, <2>4
<1>3. CASE d = n
  <2>1. now[d] = target /\ target # None
    BY <1>3
  <2>2. \A a \in Nodes : \A k \in Nat : Up(new, target, a, k) <=> Up(rows, target, a, k)
    BY MoveOutside
  <2>3. \E a \in Nodes : Above(new, a, target)
    BY <2>2, 0 \in Nat DEF Above
  <2>4. Above(rows, n, n) /\ \A j \in Nat : Up(rows, n, n, j) <=> j = 0
    BY 0 \in Nat DEF Above, Tree
  <2>5. \A a \in Nodes : \A k \in Nat :
          Up(rows, n, a, k) /\ (a = n \/ ~Above(rows, a, n)) <=> a = n /\ k = 0
    BY <2>4 DEF Above
  <2>6. ASSUME NEW a \in Nodes, NEW k \in Nat
        PROVE  Up(new, n, a, k) <=>
                 \/ a = n /\ k = 0
                 \/ \E i, j \in Nat : Up(rows, target, a, i) /\ Up(rows, n, n, j) /\ k = i + 1 + j
    BY <2>4, <2>5 DEF Moves
  <2>7. ASSUME NEW a \in Nodes, NEW k \in Nat
        PROVE  Up(new, n, a, k) <=>
                 \/ a = n /\ k = 0
                 \/ \E j \in Nat : k = j + 1 /\ Up(rows, target, a, j)
    <3>1. (\E i, j \in Nat : Up(rows, target, a, i) /\ Up(rows, n, n, j) /\ k = i + 1 + j)
            => \E j \in Nat : k = j + 1 /\ Up(rows, target, a, j)
      BY <2>4
    <3>2. ASSUME NEW j \in Nat, k = j + 1, Up(rows, target, a, j)
          PROVE  \E i, g \in Nat : Up(rows, target, a, i) /\ Up(rows, n, n, g) /\ k = i + 1 + g
      <4>1. k = j + 1 + 0 /\ 0 \in Nat
        BY <3>2
      <4> QED
        BY <3>2, <4>1
    <3> QED
      BY <2>6, <3>1, <3>2
  <2> QED
    BY <1>3, <2>1, <2>2, <2>3, <2>7
<1>4. CASE Above(rows, n, d) /\ d # n
  <2>1. PICK h \in Nat : Up(rows, d, n, h)
    BY <1>4 DEF Above
  <2>2. par[d] # None /\ par[d] \in Nodes /\ now[d] = par[d]
    BY <1>1, <1>4, <2>1
  <2>3. PICK g \in Nat : h = g + 1 /\ Up(rows, par[d], n, g)
    BY <1>1, <1>4, <2>1, <2>2
  <2>4. d = n \/ ~Above(rows, d, n)
    BY <1>4, AboveAntisymmetric
  <2>5. \A x \in {d, par[d]} : \A a \in Nodes : \A k, e \in Nat : Up(rows, x, n, e) =>
          (Up(new, x, a, k) <=>
             \/ Up(rows, x, a, k) /\ (a = n \/ ~Above(rows, a, n))
             \/ \E i \in Nat : Up(rows, target, a, i) /\ k = i + 1 + e)
    <3> SUFFICES ASSUME NEW x \in Nodes, NEW a \in Nodes, NEW k \in Nat, NEW e \in Nat,
                        Up(rows, x, n, e)
        PROVE  Up(new, x, a, k) <=>
                 \/ Up(rows, x, a, k) /\ (a = n \/ ~Above(rows, a, n))
                 \/ \E i \in Nat : Up(rows, target, a, i) /\ k = i + 1 + e
      BY <2>2
    <3>1. Above(rows, n, x) /\ \A j \in Nat : Up(rows, x, n, j) <=> j = e
      BY DEF Above, Tree
    <3> QED
      BY <3>1 DEF Moves
  <2>6. ASSUME NEW a \in Nodes, NEW k \in Nat
        PROVE  Up(new, d, a, k) <=>
                 \/ a = d /\ k = 0
                 \/ \E j \in Nat : k = j + 1 /\ Up(new, par[d], a, j)
    <3>1. Up(new, d, a, k) <=>
            \/ Up(rows, d, a, k) /\ (a = n \/ ~Above(rows, a, n))
            \/ \E i \in Nat : Up(rows, target, a, i) /\ k = i + 1 + h
      BY <2>1, <2>5
    <3>2. \A j \in Nat : Up(new, par[d], a, j) <=>
            \/ Up(rows, par[d], a, j) /\ (a = n \/ ~Above(rows, a, n))
            \/ \E i \in Nat : Up(rows, target, a, i) /\ j = i + 1 + g
      BY <2>3, <2>5
    <3>3. Up(rows, d, a, k) /\ (a = n \/ ~Above(rows, a, n)) <=>
            \/ a = d /\ k = 0
            \/ \E j \in Nat : k = j + 1 /\ Up(rows, par[d], a, j) /\ (a = n \/ ~Above(rows, a, n))
      BY <1>1, <2>2, <2>4
    <3>4. ASSUME NEW i \in Nat, Up(rows, target, a, i), k = i + 1 + h
          PROVE  \E j \in Nat : k = j + 1 /\ Up(new, par[d], a, j)
      <4>1. i + 1 + g \in Nat /\ k = (i + 1 + g) + 1
        BY <2>3, <3>4
      <4>2. Up(new, par[d], a, i + 1 + g)
        BY <3>2, <3>4, <4>1
      <4> QED
        BY <4>1, <4>2
    <3>5. ASSUME NEW j \in Nat, k = j + 1, NEW i \in Nat, Up(rows, target, a, i), j = i + 1 + g
          PROVE  k = i + 1 + h
      BY <2>3, <3>5
    <3> QED
      BY <3>1, <3>2, <3>3, <3>4, <3>5
  <2>7. Up(new, par[d], n, g)
    BY <2>2, <2>3, <2>5
  <2> QED
    BY <2>2, <2>6, <2>7 DEF Above
<1> QED
  BY <1>2, <1>3, <1>4

\* Moving a live node leaves every trashed one below its root: a root above a moved
\* node would have taken that node along.
LEMMA MoveRooted ==
  ASSUME NEW rows, NEW new, Tree(rows), NEW n \in Nodes, NEW target \in Nodes,
         Moves(rows, new, n, target), ~Above(rows, n, target), Up(rows, n, n, 0),
         NEW tr \in [Nodes -> Nodes \cup {None}], None \notin Nodes,
         Rooted(tr, rows), tr[n] = None
  PROVE  Rooted(tr, new)
<1> SUFFICES ASSUME NEW d \in Nodes, tr[d] # None
    PROVE  /\ Above(new, tr[d], d)
           /\ tr[tr[d]] = tr[d]
           /\ \A m \in Nodes : Above(new, m, d) /\ Above(new, tr[d], m) =>
                tr[m] # None /\ Above(new, tr[d], tr[m])
  BY DEF Rooted
<1>1. /\ Above(rows, tr[d], d) /\ tr[tr[d]] = tr[d] /\ tr[d] \in Nodes
      /\ \A m \in Nodes : Above(rows, m, d) /\ Above(rows, tr[d], m) =>
           tr[m] # None /\ Above(rows, tr[d], tr[m])
  BY DEF Rooted
<1>2. CASE ~Above(rows, n, d)
  <2>1. \A a \in Nodes : Above(new, a, d) <=> Above(rows, a, d)
    BY <1>2, MoveOutside
  <2>2. ASSUME NEW m \in Nodes, Above(new, m, d), Above(new, tr[d], m)
        PROVE  tr[m] # None /\ Above(new, tr[d], tr[m])
    <3>1. Above(rows, m, d) /\ ~Above(rows, n, m)
      BY <1>2, <2>1, <2>2, AboveTransitive
    <3>2. Above(rows, tr[d], m)
      BY <1>1, <2>2, <3>1, MoveOutside
    <3>3. tr[m] # None /\ Above(rows, tr[d], tr[m]) /\ tr[m] \in Nodes
      BY <1>1, <3>1, <3>2
    <3>4. Above(rows, tr[m], m)
      BY <3>3 DEF Rooted
    <3>5. ~Above(rows, n, tr[m])
      BY <3>1, <3>3, <3>4, AboveTransitive
    <3> QED
      BY <1>1, <3>3, <3>5, MoveOutside
  <2> QED
    BY <1>1, <2>1, <2>2
<1>3. CASE Above(rows, n, d)
  <2>1. PICK h \in Nat : Up(rows, d, n, h)
    BY <1>3 DEF Above
  <2>2. ~Above(rows, tr[d], n)
    BY <1>1, <1>3
  <2>3. Above(rows, n, tr[d])
    BY <1>1, <1>3, <2>2, AboveLinear
  <2>4. ASSUME NEW x \in Nodes, Above(rows, n, x), Above(rows, tr[d], x)
        PROVE  Above(new, tr[d], x)
    <3>1. PICK e \in Nat : Up(rows, x, tr[d], e)
      BY <2>4 DEF Above
    <3>2. Up(new, x, tr[d], e)
      BY <1>1, <2>2, <2>4, <3>1 DEF Moves
    <3> QED
      BY <3>2 DEF Above
  <2>5. ASSUME NEW m \in Nodes, Above(new, m, d), Above(new, tr[d], m)
        PROVE  tr[m] # None /\ Above(new, tr[d], tr[m])
    <3>1. PICK k \in Nat : Up(new, d, m, k)
      BY <2>5 DEF Above
    <3>2. ~Above(rows, tr[d], target)
      BY <1>1, <2>3, AboveTransitive
    <3>3. Above(rows, n, m)
      <4> SUFFICES ASSUME ~Above(rows, n, m)
          PROVE  FALSE
        OBVIOUS
      <4>1. Above(rows, tr[d], m)
        BY <1>1, <2>5, MoveOutside
      <4> QED
        BY <1>1, <2>3, <4>1, AboveTransitive
    <3>4. PICK f \in Nat : Up(rows, m, n, f)
      BY <3>3 DEF Above
    <3>5. PICK e \in Nat : Up(new, m, tr[d], e)
      BY <2>5 DEF Above
    <3>6. Up(rows, m, tr[d], e)
      <4>1. Up(rows, m, tr[d], e) \/ \E i \in Nat : Up(rows, target, tr[d], i)
        BY <1>1, <3>4, <3>5, MoveInside
      <4> QED
        BY <3>2, <4>1 DEF Above
    <3>7. Above(rows, m, d)
      <4>1. ~Above(rows, m, target)
        BY <3>3, AboveTransitive
      <4>2. Up(rows, d, m, k) \/ \E i \in Nat : Up(rows, target, m, i)
        BY <2>1, <3>1, MoveInside
      <4> QED
        BY <4>1, <4>2 DEF Above
    <3>8. tr[m] # None /\ Above(rows, tr[d], tr[m]) /\ tr[m] \in Nodes
      BY <1>1, <3>6, <3>7 DEF Above
    <3>9. Above(rows, n, tr[m])
      BY <1>1, <2>3, <3>8, AboveTransitive
    <3> QED
      BY <2>4, <3>8, <3>9
  <2> QED
    BY <1>1, <1>3, <2>4, <2>5
<1> QED
  BY <1>2, <1>3

-----------------------------------------------------------------------------
(* A new node *)

\* The rows of new are those of rows and, for n, those of the parent, one further.
Grows(rows, new, n, p) ==
  \A d, a \in Nodes : \A k \in Nat :
    Up(new, d, a, k) <=>
      IF d = n THEN (a = n /\ k = 0) \/ \E j \in Nat : k = j + 1 /\ Up(rows, p, a, j)
      ELSE Up(rows, d, a, k)

\* A node without rows is nobody's ancestor.
LEMMA AbsentNotAbove ==
  ASSUME NEW rows, Tree(rows), NEW n \in Nodes, ~Up(rows, n, n, 0), NEW d \in Nodes
  PROVE  ~Above(rows, n, d)
BY AboveItself

\* A new leaf keeps the ancestry a tree's.
LEMMA GrowTree ==
  ASSUME NEW rows, NEW new, Tree(rows), NEW n \in Nodes, NEW p \in Nodes,
         ~Up(rows, n, n, 0), p # n, Grows(rows, new, n, p)
  PROVE  Tree(new)
<1>1. \A d \in Nodes : \A j \in Nat : ~Up(rows, d, n, j)
  BY AbsentNotAbove DEF Above
<1>2. \A d, a \in Nodes : \A k \in Nat : d # n => (Up(new, d, a, k) <=> Up(rows, d, a, k))
  BY DEF Grows
<1>3. \A a \in Nodes : \A k \in Nat :
        Up(new, n, a, k) <=> (a = n /\ k = 0) \/ \E j \in Nat : k = j + 1 /\ Up(rows, p, a, j)
  BY DEF Grows
<1> SUFFICES ASSUME NEW d \in Nodes, NEW a \in Nodes, NEW j \in Nat, Up(new, d, a, j)
    PROVE  /\ Up(new, a, a, 0)
           /\ j = 0 <=> a = d
           /\ \A k \in Nat : Up(new, d, a, k) => j = k
           /\ \A b \in Nodes : \A k \in Nat : Up(new, a, b, k) <=> Up(new, d, b, j + k)
  BY DEF Tree
<1>4. CASE d # n
  <2>1. Up(rows, d, a, j) /\ a # n
    BY <1>1, <1>2, <1>4
  <2>2. Up(rows, a, a, 0) /\ (j = 0 <=> a = d)
    BY <2>1 DEF Tree
  <2>3. \A k \in Nat : Up(rows, d, a, k) => j = k
    BY <2>1 DEF Tree
  <2>4. \A b \in Nodes : \A k \in Nat : Up(rows, a, b, k) <=> Up(rows, d, b, j + k)
    BY <2>1 DEF Tree
  <2>5. \A k \in Nat : j + k \in Nat
    OBVIOUS
  <2> QED
    BY <1>2, <1>4, <2>1, <2>2, <2>3, <2>4, <2>5, 0 \in Nat
<1>5. CASE d = n /\ a = n
  <2>1. j = 0
    BY <1>1, <1>3, <1>5
  <2> QED
    BY <1>1, <1>3, <1>5, <2>1
<1>6. CASE d = n /\ a # n
  <2>1. PICK i \in Nat : j = i + 1 /\ Up(rows, p, a, i)
    BY <1>3, <1>6
  <2>2. Up(rows, a, a, 0) /\ \A k \in Nat : Up(rows, p, a, k) => i = k
    BY <2>1 DEF Tree
  <2>3. \A b \in Nodes : \A k \in Nat : Up(rows, a, b, k) <=> Up(rows, p, b, i + k)
    BY <2>1 DEF Tree
  <2>4. Up(new, a, a, 0)
    BY <1>2, <1>6, <2>2, 0 \in Nat
  <2>5. \A k \in Nat : Up(new, n, a, k) => j = k
    BY <1>3, <1>6, <2>1, <2>2
  <2>6. ASSUME NEW b \in Nodes, NEW k \in Nat
        PROVE  Up(new, a, b, k) <=> Up(new, n, b, j + k)
    <3>1. Up(new, a, b, k) <=> Up(rows, p, b, i + k)
      BY <1>2, <1>6, <2>3
    <3>2. j + k \in Nat /\ i + k \in Nat /\ j + k = (i + k) + 1 /\ j + k # 0
      BY <2>1
    <3>3. Up(new, n, b, j + k) <=> \E g \in Nat : j + k = g + 1 /\ Up(rows, p, b, g)
      BY <1>3, <3>2
    <3>4. \A g \in Nat : j + k = g + 1 <=> g = i + k
      BY <3>2
    <3> QED
      BY <3>1, <3>2, <3>3, <3>4
  <2>7. j # 0
    BY <2>1
  <2> QED
    BY <1>6, <2>4, <2>5, <2>6, <2>7
<1> QED
  BY <1>4, <1>5, <1>6

\* With a new leaf the parents and the rows agree.
LEMMA GrowFollows ==
  ASSUME NEW rows, NEW new, Tree(rows), NEW n \in Nodes, NEW p \in Nodes,
         ~Up(rows, n, n, 0), Up(rows, p, p, 0), p # n, Grows(rows, new, n, p),
         None \notin Nodes,
         NEW par \in [Nodes -> Nodes \cup {None}], NEW now \in [Nodes -> Nodes \cup {None}],
         Follows(par, rows), now = [par EXCEPT ![n] = p]
  PROVE  Follows(now, new)
<1>1. \A d \in Nodes : \A j \in Nat : ~Up(rows, d, n, j)
  BY AbsentNotAbove DEF Above
<1>2. \A d, a \in Nodes : \A k \in Nat : d # n => (Up(new, d, a, k) <=> Up(rows, d, a, k))
  BY DEF Grows
<1>3. \A a \in Nodes : \A k \in Nat :
        Up(new, n, a, k) <=> (a = n /\ k = 0) \/ \E j \in Nat : k = j + 1 /\ Up(rows, p, a, j)
  BY DEF Grows
<1>4. \A d, a \in Nodes : d # n => (Above(new, a, d) <=> Above(rows, a, d))
  BY <1>2 DEF Above
<1> SUFFICES ASSUME NEW d \in Nodes, \E a \in Nodes : Above(new, a, d)
    PROVE  /\ now[d] = None =>
                \A a \in Nodes : \A k \in Nat : Up(new, d, a, k) <=> a = d /\ k = 0
           /\ now[d] # None =>
                /\ \E a \in Nodes : Above(new, a, now[d])
                /\ \A a \in Nodes : \A k \in Nat :
                     Up(new, d, a, k) <=>
                       \/ a = d /\ k = 0
                       \/ \E j \in Nat : k = j + 1 /\ Up(new, now[d], a, j)
  BY DEF Follows
<1>5. CASE d = n
  <2>1. now[d] = p /\ p # None
    BY <1>5
  <2>2. Above(new, p, p)
    BY <1>4, 0 \in Nat DEF Above
  <2> QED
    BY <1>2, <1>3, <1>5, <2>1, <2>2
<1>6. CASE d # n
  <2>1. now[d] = par[d]
    BY <1>6
  <2>2. /\ par[d] = None =>
             \A a \in Nodes : \A k \in Nat : Up(rows, d, a, k) <=> a = d /\ k = 0
        /\ par[d] # None =>
             /\ \E a \in Nodes : Above(rows, a, par[d])
             /\ \A a \in Nodes : \A k \in Nat :
                  Up(rows, d, a, k) <=>
                    \/ a = d /\ k = 0
                    \/ \E j \in Nat : k = j + 1 /\ Up(rows, par[d], a, j)
    BY <1>4, <1>6 DEF Follows
  <2>3. CASE par[d] = None
    BY <1>2, <1>6, <2>1, <2>2, <2>3
  <2>4. CASE par[d] # None
    <3>1. par[d] \in Nodes
      BY <2>4
    <3>2. PICK a \in Nodes : Above(rows, a, par[d])
      BY <2>2, <2>4
    <3>3. Up(rows, par[d], par[d], 0)
      <4>1. \/ par[par[d]] = None /\ Up(rows, par[d], par[d], 0)
            \/ par[par[d]] # None /\ Up(rows, par[d], par[d], 0)
        BY <3>1, <3>2, 0 \in Nat DEF Follows
      <4> QED
        BY <4>1
    <3>4. par[d] # n
      BY <3>3
    <3>5. \E b \in Nodes : Above(new, b, par[d])
      BY <1>4, <3>1, <3>2, <3>4
    <3> QED
      BY <1>2, <1>6, <2>1, <2>2, <2>4, <3>1, <3>4, <3>5
  <2> QED
    BY <2>3, <2>4
<1> QED
  BY <1>5, <1>6

\* A new leaf is in no trash, and takes nothing from what is.
LEMMA GrowRooted ==
  ASSUME NEW rows, NEW new, Tree(rows), NEW n \in Nodes, NEW p \in Nodes,
         ~Up(rows, n, n, 0), Grows(rows, new, n, p), None \notin Nodes,
         \A a \in Nodes : ~Above(rows, a, n),
         NEW tr \in [Nodes -> Nodes \cup {None}], Rooted(tr, rows)
  PROVE  Rooted(tr, new)
<1>1. \A d, a \in Nodes : d # n => (Above(new, a, d) <=> Above(rows, a, d))
  BY DEF Above, Grows
<1>2. \A d \in Nodes : ~Above(rows, n, d)
  BY AbsentNotAbove
<1>3. \A d \in Nodes : tr[d] # None => d # n /\ tr[d] # n /\ tr[d] \in Nodes
  BY <1>2 DEF Rooted
<1> SUFFICES ASSUME NEW d \in Nodes, tr[d] # None
    PROVE  /\ Above(new, tr[d], d)
           /\ tr[tr[d]] = tr[d]
           /\ \A m \in Nodes : Above(new, m, d) /\ Above(new, tr[d], m) =>
                tr[m] # None /\ Above(new, tr[d], tr[m])
  BY DEF Rooted
<1>4. /\ Above(rows, tr[d], d) /\ tr[tr[d]] = tr[d]
      /\ \A m \in Nodes : Above(rows, m, d) /\ Above(rows, tr[d], m) =>
           tr[m] # None /\ Above(rows, tr[d], tr[m])
  BY DEF Rooted
<1>5. ASSUME NEW m \in Nodes, Above(new, m, d), Above(new, tr[d], m)
      PROVE  tr[m] # None /\ Above(new, tr[d], tr[m])
  <2>1. Above(rows, m, d) /\ m # n
    BY <1>1, <1>2, <1>3, <1>5
  <2>2. Above(rows, tr[d], m)
    BY <1>1, <1>3, <1>5, <2>1
  <2>3. tr[m] # None /\ Above(rows, tr[d], tr[m])
    BY <1>4, <2>1, <2>2
  <2> QED
    BY <1>1, <1>3, <2>3
<1> QED
  BY <1>1, <1>3, <1>4, <1>5

-----------------------------------------------------------------------------
(* The trash *)

\* Trashing a live node marks what is live below it.
LEMMA TrashKeepsRooted ==
  ASSUME NEW rows, Tree(rows), NEW n \in Nodes, None \notin Nodes, Above(rows, n, n),
         NEW tr \in [Nodes -> Nodes \cup {None}], Rooted(tr, rows), tr[n] = None,
         NEW now, now = [d \in Nodes |-> IF Above(rows, n, d) /\ tr[d] = None THEN n ELSE tr[d]]
  PROVE  Rooted(now, rows)
<1>1. now[n] = n
  OBVIOUS
<1>2. \A m \in Nodes : Above(rows, n, m) =>
        now[m] # None /\ now[m] \in Nodes /\ Above(rows, n, now[m])
  <2> SUFFICES ASSUME NEW m \in Nodes, Above(rows, n, m)
      PROVE  now[m] # None /\ now[m] \in Nodes /\ Above(rows, n, now[m])
    OBVIOUS
  <2>1. CASE tr[m] = None
    BY <2>1
  <2>2. CASE tr[m] # None
    <3>1. now[m] = tr[m] /\ tr[m] \in Nodes
      BY <2>2
    <3>2. /\ Above(rows, tr[m], m)
          /\ Above(rows, n, m) /\ Above(rows, tr[m], n) => tr[n] # None
      BY <2>2 DEF Rooted
    <3>3. Above(rows, n, tr[m])
      BY <3>1, <3>2, AboveLinear
    <3> QED
      BY <2>2, <3>1, <3>3
  <2> QED
    BY <2>1, <2>2
<1>3. \A m \in Nodes : tr[m] # None => now[m] = tr[m]
  OBVIOUS
<1> SUFFICES ASSUME NEW d \in Nodes, now[d] # None
    PROVE  /\ Above(rows, now[d], d)
           /\ now[now[d]] = now[d]
           /\ \A m \in Nodes : Above(rows, m, d) /\ Above(rows, now[d], m) =>
                now[m] # None /\ Above(rows, now[d], now[m])
  BY DEF Rooted
<1>4. CASE tr[d] = None
  <2>1. now[d] = n /\ Above(rows, n, d)
    BY <1>4
  <2> QED
    BY <1>1, <1>2, <2>1
<1>5. CASE tr[d] # None
  <2>1. /\ now[d] = tr[d] /\ tr[d] \in Nodes /\ Above(rows, tr[d], d) /\ tr[tr[d]] = tr[d]
        /\ \A m \in Nodes : Above(rows, m, d) /\ Above(rows, tr[d], m) =>
             tr[m] # None /\ Above(rows, tr[d], tr[m])
    BY <1>3, <1>5 DEF Rooted
  <2>2. now[tr[d]] = tr[d]
    BY <1>3, <1>5, <2>1
  <2> QED
    BY <1>3, <2>1, <2>2
<1> QED
  BY <1>4, <1>5

\* The ancestors of n are n and those of p.
NextAbove(rows, p, n) ==
  Above(rows, p, n) /\ \A a \in Nodes : Above(rows, a, n) => a = n \/ Above(rows, a, p)

\* Restoring a root whose parent p is live clears what names that root and nothing
\* that another node of the trash depends on.
LEMMA RestoreKeepsRooted ==
  ASSUME NEW rows, Tree(rows), NEW n \in Nodes, NEW p \in Nodes, None \notin Nodes,
         NextAbove(rows, p, n),
         NEW tr \in [Nodes -> Nodes \cup {None}], Rooted(tr, rows), tr[p] = None,
         NEW now, now = [d \in Nodes |-> IF Above(rows, n, d) /\ tr[d] = n THEN None ELSE tr[d]]
  PROVE  Rooted(now, rows)
<1>1. \A m \in Nodes : tr[m] # None /\ tr[m] # n => now[m] = tr[m]
  OBVIOUS
<1> SUFFICES ASSUME NEW d \in Nodes, now[d] # None
    PROVE  /\ Above(rows, now[d], d)
           /\ now[now[d]] = now[d]
           /\ \A m \in Nodes : Above(rows, m, d) /\ Above(rows, now[d], m) =>
                now[m] # None /\ Above(rows, now[d], now[m])
  BY DEF Rooted
<1>2. tr[d] # None /\ now[d] = tr[d] /\ tr[d] \in Nodes
  OBVIOUS
<1>3. /\ Above(rows, tr[d], d) /\ tr[tr[d]] = tr[d]
      /\ \A m \in Nodes : Above(rows, m, d) /\ Above(rows, tr[d], m) =>
           tr[m] # None /\ Above(rows, tr[d], tr[m])
  BY <1>2 DEF Rooted
<1>4. tr[d] # n
  BY <1>2, <1>3
<1>5. now[tr[d]] = tr[d]
  BY <1>1, <1>2, <1>3, <1>4
<1>6. ASSUME NEW m \in Nodes, Above(rows, m, d), Above(rows, tr[d], m)
      PROVE  now[m] # None /\ Above(rows, tr[d], now[m])
  <2>1. tr[m] # None /\ Above(rows, tr[d], tr[m])
    BY <1>3, <1>6
  <2>2. tr[m] # n
    <3> SUFFICES ASSUME tr[m] = n
        PROVE  FALSE
      OBVIOUS
    <3>1. Above(rows, n, m)
      BY <2>1 DEF Rooted
    <3>2. Above(rows, n, d)
      BY <1>6, <3>1, AboveTransitive
    <3>3. Above(rows, p, d)
      BY <3>2, AboveTransitive DEF NextAbove
    <3>4. Above(rows, tr[d], p)
      BY <1>2, <1>4, <2>1 DEF NextAbove
    <3> QED
      BY <1>3, <3>3, <3>4
  <2> QED
    BY <1>1, <2>1, <2>2
<1> QED
  BY <1>2, <1>3, <1>5, <1>6

-----------------------------------------------------------------------------
(* The model's operators in terms of Up *)

\* A row is a node and a distance.
LEMMA RowIsPair ==
  ASSUME NEW rows \in Rows, NEW d \in Nodes, NEW r \in rows[d]
  PROVE  \E a \in Nodes, k \in Nat : r = <<a, k>>
BY DEF Rows

\* A node has rows when some node is above it.
LEMMA PresentAbove ==
  ASSUME NEW rows \in Rows, NEW d \in Nodes
  PROVE  rows[d] # {} <=> \E a \in Nodes : Above(rows, a, d)
<1>1. ASSUME NEW r \in rows[d]
      PROVE  \E a \in Nodes : Above(rows, a, d)
  <2>1. PICK a \in Nodes, k \in Nat : r = <<a, k>>
    BY RowIsPair
  <2>2. Up(rows, d, a, k)
    BY <1>1, <2>1 DEF Up
  <2> QED
    BY <2>2 DEF Above
<1>2. ASSUME NEW a \in Nodes, Above(rows, a, d)
      PROVE  rows[d] # {}
  BY <1>2 DEF Above, Up
<1> QED
  BY <1>1, <1>2

\* An ancestor of a node is a node above it.
LEMMA AncestorsAbove ==
  ASSUME NEW rows \in Rows, NEW d \in Nodes
  PROVE  \A a : a \in {row[1] : row \in rows[d]} <=> a \in Nodes /\ Above(rows, a, d)
<1>1. ASSUME NEW a, a \in {row[1] : row \in rows[d]}
      PROVE  a \in Nodes /\ Above(rows, a, d)
  <2>1. PICK r \in rows[d] : a = r[1]
    BY <1>1
  <2>2. PICK b \in Nodes, k \in Nat : r = <<b, k>>
    BY RowIsPair
  <2>3. a = b /\ Up(rows, d, b, k)
    BY <2>1, <2>2 DEF Up
  <2> QED
    BY <2>3 DEF Above
<1>2. ASSUME NEW a \in Nodes, Above(rows, a, d)
      PROVE  a \in {row[1] : row \in rows[d]}
  <2>1. PICK k \in Nat : <<a, k>> \in rows[d]
    BY <1>2 DEF Above, Up
  <2>2. <<a, k>>[1] = a
    OBVIOUS
  <2> QED
    BY <2>1, <2>2
<1> QED
  BY <1>1, <1>2

\* The rows of a tree, in the words of the model.
LEMMA RowsTree ==
  ASSUME NEW rows \in Rows
  PROVE  DistancesUnique(rows) /\ RowsCompose(rows) <=> Tree(rows)
<1>1. ASSUME DistancesUnique(rows), RowsCompose(rows)
      PROVE  Tree(rows)
  <2> SUFFICES ASSUME NEW d \in Nodes, NEW a \in Nodes, NEW j \in Nat, <<a, j>> \in rows[d]
      PROVE  /\ <<a, 0>> \in rows[a]
             /\ j = 0 <=> a = d
             /\ \A k \in Nat : <<a, k>> \in rows[d] => j = k
             /\ \A b \in Nodes : \A k \in Nat : <<b, k>> \in rows[a] <=> <<b, j + k>> \in rows[d]
    BY DEF Tree, Up
  <2>1. <<a, 0>> \in rows[a]
    BY <1>1 DEF RowsCompose
  <2>2. j = 0 <=> a = d
    BY <1>1 DEF DistancesUnique
  <2>3. ASSUME NEW k \in Nat, <<a, k>> \in rows[d]
        PROVE  j = k
    BY <1>1, <2>3 DEF DistancesUnique
  <2>4. ASSUME NEW b \in Nodes, NEW k \in Nat, <<b, k>> \in rows[a]
        PROVE  <<b, j + k>> \in rows[d]
    BY <1>1, <2>4 DEF RowsCompose
  <2>5. ASSUME NEW b \in Nodes, NEW k \in Nat, <<b, j + k>> \in rows[d]
        PROVE  <<b, k>> \in rows[a]
    <3>1. j <= j + k => <<b, (j + k) - j>> \in rows[a]
      BY <1>1, <2>5 DEF RowsCompose
    <3>2. j <= j + k /\ (j + k) - j = k
      OBVIOUS
    <3> QED
      BY <3>1, <3>2
  <2> QED
    BY <2>1, <2>2, <2>3, <2>4, <2>5
<1>2. ASSUME Tree(rows)
      PROVE  DistancesUnique(rows) /\ RowsCompose(rows)
  <2>2. DistancesUnique(rows)
    <3> SUFFICES ASSUME NEW d \in Nodes, NEW r \in rows[d], NEW s \in rows[d]
        PROVE  (r[1] = s[1] => r[2] = s[2]) /\ (r[2] = 0 <=> r[1] = d)
      BY DEF DistancesUnique
    <3>1. PICK a \in Nodes, j \in Nat : r = <<a, j>>
      BY RowIsPair
    <3>2. PICK b \in Nodes, k \in Nat : s = <<b, k>>
      BY RowIsPair
    <3>3. r[1] = a /\ r[2] = j /\ s[1] = b /\ s[2] = k
      BY <3>1, <3>2
    <3>4. Up(rows, d, a, j) /\ Up(rows, d, b, k)
      BY <3>1, <3>2 DEF Up
    <3>5. (a = b => j = k) /\ (j = 0 <=> a = d)
      BY <1>2, <3>4 DEF Tree
    <3> QED
      BY <3>3, <3>5
  <2>3. RowsCompose(rows)
    <3> SUFFICES ASSUME NEW d \in Nodes, NEW r \in rows[d]
        PROVE  /\ <<r[1], 0>> \in rows[r[1]]
               /\ \A s \in rows[r[1]] : <<s[1], r[2] + s[2]>> \in rows[d]
               /\ \A s \in rows[d] : r[2] <= s[2] => <<s[1], s[2] - r[2]>> \in rows[r[1]]
      BY DEF RowsCompose
    <3>1. PICK a \in Nodes, j \in Nat : r = <<a, j>>
      BY RowIsPair
    <3>2. r[1] = a /\ r[2] = j /\ Up(rows, d, a, j)
      BY <3>1 DEF Up
    <3>3. Up(rows, a, a, 0)
      BY <1>2, <3>2 DEF Tree
    <3>4. ASSUME NEW s \in rows[a]
          PROVE  <<s[1], j + s[2]>> \in rows[d]
      <4>1. PICK b \in Nodes, k \in Nat : s = <<b, k>>
        BY RowIsPair
      <4>2. s[1] = b /\ s[2] = k /\ Up(rows, a, b, k)
        BY <4>1, <3>4 DEF Up
      <4>3. Up(rows, d, b, j + k)
        BY <1>2, <3>2, <4>2 DEF Tree
      <4> QED
        BY <4>2, <4>3 DEF Up
    <3>5. ASSUME NEW s \in rows[d], j <= s[2]
          PROVE  <<s[1], s[2] - j>> \in rows[a]
      <4>1. PICK b \in Nodes, k \in Nat : s = <<b, k>>
        BY RowIsPair
      <4>2. s[1] = b /\ s[2] = k /\ Up(rows, d, b, k) /\ j <= k
        BY <4>1, <3>5 DEF Up
      <4>3. k - j \in Nat /\ j + (k - j) = k
        BY <4>2
      <4>4. Up(rows, a, b, k - j)
        BY <1>2, <3>2, <4>2, <4>3 DEF Tree
      <4> QED
        BY <4>2, <4>4 DEF Up
    <3> QED
      BY <3>2, <3>3, <3>4, <3>5 DEF Up
  <2> QED
    BY <2>2, <2>3
<1> QED
  BY <1>1, <1>2

\* The rows of a node below one with these rows.
LEMMA BelowUp ==
  ASSUME NEW n \in Nodes, NEW rows \in SUBSET (Nodes \X Nat)
  PROVE  /\ Below(n, rows) \in SUBSET (Nodes \X Nat)
         /\ \A a \in Nodes : \A k \in Nat :
              <<a, k>> \in Below(n, rows) <=>
                (a = n /\ k = 0) \/ \E j \in Nat : k = j + 1 /\ <<a, j>> \in rows
<1>1. Below(n, rows) \in SUBSET (Nodes \X Nat)
  BY DEF Below
<1>2. ASSUME NEW a \in Nodes, NEW k \in Nat, <<a, k>> \in Below(n, rows)
      PROVE  (a = n /\ k = 0) \/ \E j \in Nat : k = j + 1 /\ <<a, j>> \in rows
  <2>1. CASE <<a, k>> = <<n, 0>>
    BY <2>1
  <2>2. ASSUME NEW row \in rows, <<a, k>> = <<row[1], row[2] + 1>>
        PROVE  \E j \in Nat : k = j + 1 /\ <<a, j>> \in rows
    <3>1. row = <<row[1], row[2]>> /\ row[2] \in Nat
      OBVIOUS
    <3> QED
      BY <2>2, <3>1
  <2> QED
    BY <1>2, <2>1, <2>2 DEF Below
<1>3. ASSUME NEW a \in Nodes, NEW j \in Nat, <<a, j>> \in rows
      PROVE  <<a, j + 1>> \in Below(n, rows)
  BY <1>3 DEF Below
<1>4. <<n, 0>> \in Below(n, rows)
  BY DEF Below
<1> QED
  BY <1>1, <1>2, <1>3, <1>4

\* Parents and rows agree, in the words of the model.
LEMMA RowsFollow ==
  ASSUME NEW rows \in Rows, NEW par \in [Nodes -> Nodes \cup {None}], None \notin Nodes
  PROVE  RowsFollowParents(par, rows) <=> Follows(par, rows)
<1>1. \A d \in Nodes : rows[d] \in SUBSET (Nodes \X Nat)
  BY DEF Rows
<1>2. \A d \in Nodes : rows[d] # {} <=> \E a \in Nodes : Above(rows, a, d)
  BY PresentAbove
<1>3. ASSUME NEW d \in Nodes, par[d] = None
      PROVE  rows[d] = {<<d, 0>>} <=>
               \A a \in Nodes : \A k \in Nat : Up(rows, d, a, k) <=> a = d /\ k = 0
  <2>1. rows[d] = {<<d, 0>>} =>
          \A a \in Nodes : \A k \in Nat : <<a, k>> \in rows[d] <=> a = d /\ k = 0
    OBVIOUS
  <2>2. ASSUME \A a \in Nodes : \A k \in Nat : <<a, k>> \in rows[d] <=> a = d /\ k = 0
        PROVE  rows[d] = {<<d, 0>>}
    BY <1>1, <2>2
  <2> QED
    BY <2>1, <2>2 DEF Up
<1>4. ASSUME NEW d \in Nodes, par[d] # None
      PROVE  rows[d] = Below(d, rows[par[d]]) <=>
               \A a \in Nodes : \A k \in Nat :
                 Up(rows, d, a, k) <=>
                   (a = d /\ k = 0) \/ \E j \in Nat : k = j + 1 /\ Up(rows, par[d], a, j)
  <2>0. par[d] \in Nodes
    BY <1>4
  <2>1. /\ Below(d, rows[par[d]]) \in SUBSET (Nodes \X Nat)
        /\ \A a \in Nodes : \A k \in Nat :
             <<a, k>> \in Below(d, rows[par[d]]) <=>
               (a = d /\ k = 0) \/ \E j \in Nat : k = j + 1 /\ <<a, j>> \in rows[par[d]]
    BY <1>1, <2>0, BelowUp
  <2>2. \A R, S \in SUBSET (Nodes \X Nat) :
          R = S <=> \A a \in Nodes : \A k \in Nat : <<a, k>> \in R <=> <<a, k>> \in S
    OBVIOUS
  <2>3. rows[d] = Below(d, rows[par[d]]) <=>
          \A a \in Nodes : \A k \in Nat : <<a, k>> \in rows[d] <=> <<a, k>> \in Below(d, rows[par[d]])
    BY <1>1, <2>1, <2>2
  <2> QED
    BY <2>1, <2>3 DEF Up
<1>5. \A d \in Nodes : par[d] # None => (rows[par[d]] # {} <=> \E a \in Nodes : Above(rows, a, par[d]))
  BY <1>2
<1> QED
  BY <1>2, <1>3, <1>4, <1>5 DEF RowsFollowParents, Follows

\* TrashRooted, of any trash and rows.
RootedIn(tr, rows) ==
  \A n \in Nodes : tr[n] # None =>
    /\ tr[n] \in {row[1] : row \in rows[n]}
    /\ tr[tr[n]] = tr[n]
    /\ \A m \in {row[1] : row \in rows[n]} : tr[n] \in {row[1] : row \in rows[m]} =>
         tr[m] # None /\ tr[n] \in {row[1] : row \in rows[tr[m]]}

\* The trash hangs together, in the words of the model.
LEMMA TrashRootedIs ==
  ASSUME NEW rows \in Rows, NEW tr \in [Nodes -> Nodes \cup {None}], None \notin Nodes
  PROVE  RootedIn(tr, rows) <=> Rooted(tr, rows)
<1>1. \A d \in Nodes : \A a : a \in {row[1] : row \in rows[d]} <=> a \in Nodes /\ Above(rows, a, d)
  BY AncestorsAbove
<1>2. \A d \in Nodes : tr[d] # None => tr[d] \in Nodes
  OBVIOUS
<1>3. ASSUME RootedIn(tr, rows)
      PROVE  Rooted(tr, rows)
  BY <1>1, <1>2, <1>3 DEF RootedIn, Rooted
<1>4. ASSUME Rooted(tr, rows)
      PROVE  RootedIn(tr, rows)
  BY <1>1, <1>2, <1>4 DEF RootedIn, Rooted
<1> QED
  BY <1>3, <1>4

\* A creation grows the rows by a leaf.
LEMMA CreateGrows ==
  ASSUME path \in Rows, NEW n \in Nodes, NEW p \in Nodes,
         NEW new, new = [path EXCEPT ![n] = Below(n, path[p])]
  PROVE  Grows(path, new, n, p)
<1>1. path[p] \in SUBSET (Nodes \X Nat)
  BY DEF Rows
<1>2. \A a \in Nodes : \A k \in Nat :
        <<a, k>> \in Below(n, path[p]) <=>
          (a = n /\ k = 0) \/ \E j \in Nat : k = j + 1 /\ <<a, j>> \in path[p]
  BY <1>1, BelowUp
<1>3. new[n] = Below(n, path[p]) /\ \A d \in Nodes : d # n => new[d] = path[d]
  BY DEF Rows
<1>4. \A a \in Nodes : \A k \in Nat :
        Up(new, n, a, k) <=> (a = n /\ k = 0) \/ \E j \in Nat : k = j + 1 /\ Up(path, p, a, j)
  BY <1>2, <1>3 DEF Up
<1>5. \A d, a \in Nodes : \A k \in Nat : d # n => (Up(new, d, a, k) <=> Up(path, d, a, k))
  BY <1>3 DEF Up
<1>6. ASSUME NEW d \in Nodes, NEW a \in Nodes, NEW k \in Nat
      PROVE  Up(new, d, a, k) <=>
               IF d = n THEN (a = n /\ k = 0) \/ \E j \in Nat : k = j + 1 /\ Up(path, p, a, j)
               ELSE Up(path, d, a, k)
  <2>1. CASE d = n
    BY <1>4, <2>1
  <2>2. CASE d # n
    BY <1>5, <2>2
  <2> QED
    BY <2>1, <2>2
<1> QED
  BY <1>6 DEF Grows

\* What a rename does to the rows is a move.
LEMMA MovedMoves ==
  ASSUME path \in Rows, NEW n \in Nodes, NEW target \in Nodes
  PROVE  Moves(path, Moved(n, target), n, target)
<1>1. \A d \in Nodes : \A a : a \in AncestorsOf(d) <=> a \in Nodes /\ Above(path, a, d)
  BY AncestorsAbove DEF AncestorsOf
<1> SUFFICES ASSUME NEW d \in Nodes, NEW a \in Nodes, NEW k \in Nat
    PROVE  Up(Moved(n, target), d, a, k) <=>
             IF Above(path, n, d)
             THEN \/ Up(path, d, a, k) /\ (a = n \/ ~Above(path, a, n))
                  \/ \E i, j \in Nat : Up(path, target, a, i) /\ Up(path, d, n, j) /\ k = i + 1 + j
             ELSE Up(path, d, a, k)
  BY DEF Moves
<1>2. CASE ~Above(path, n, d)
  <2>1. Moved(n, target)[d] = path[d]
    BY <1>1, <1>2 DEF Moved
  <2> QED
    BY <1>2, <2>1 DEF Up
<1>3. CASE Above(path, n, d)
  <2> DEFINE kept == {row \in path[d] : row[1] \notin AncestorsOf(n) \ {n}}
             own == {row \in path[d] : row[1] = n}
             gained == {<<up[1], up[2] + 1 + o[2]>> : up \in path[target], o \in own}
  <2>1. Moved(n, target)[d] = kept \cup gained
    BY <1>1, <1>3 DEF Moved
  <2>2. <<a, k>> \in kept <=> Up(path, d, a, k) /\ (a = n \/ ~Above(path, a, n))
    <3>1. <<a, k>> \in kept <=> <<a, k>> \in path[d] /\ a \notin AncestorsOf(n) \ {n}
      OBVIOUS
    <3> QED
      BY <1>1, <3>1 DEF Up
  <2>3. ASSUME <<a, k>> \in gained
        PROVE  \E i, j \in Nat : Up(path, target, a, i) /\ Up(path, d, n, j) /\ k = i + 1 + j
    <3>1. PICK up \in path[target], o \in own : <<a, k>> = <<up[1], up[2] + 1 + o[2]>>
      BY <2>3
    <3>2. PICK b \in Nodes, i \in Nat : up = <<b, i>>
      BY <3>1, RowIsPair
    <3>3. PICK c \in Nodes, j \in Nat : o = <<c, j>>
      BY <3>1, RowIsPair
    <3>4. o[1] = n /\ o \in path[d]
      BY <3>1
    <3>5. a = b /\ k = i + 1 + j /\ c = n
      BY <3>1, <3>2, <3>3, <3>4
    <3>6. <<a, i>> \in path[target] /\ <<n, j>> \in path[d]
      BY <3>1, <3>2, <3>3, <3>4, <3>5
    <3> QED
      BY <3>5, <3>6 DEF Up
  <2>4. ASSUME NEW i \in Nat, NEW j \in Nat,
               Up(path, target, a, i), Up(path, d, n, j), k = i + 1 + j
        PROVE  <<a, k>> \in gained
    <3>1. <<a, i>> \in path[target] /\ <<n, j>> \in own
      BY <2>4 DEF Up
    <3>2. <<a, k>> = <<(<<a, i>>)[1], (<<a, i>>)[2] + 1 + (<<n, j>>)[2]>>
      BY <2>4
    <3> QED
      BY <3>1, <3>2
  <2>5. Up(Moved(n, target), d, a, k) <=> <<a, k>> \in kept \/ <<a, k>> \in gained
    BY <2>1 DEF Up
  <2> HIDE DEF kept, gained
  <2> QED
    BY <1>3, <2>2, <2>3, <2>4, <2>5
<1> QED
  BY <1>2, <1>3

-----------------------------------------------------------------------------
(* The invariant of the drive *)

NamespaceInv == NamespaceTyped /\ AncestryExact /\ NoCycle /\ TrashRooted

\* The invariant of given parents, rows and trash, on Up.
Sound(par, rows, tr) == Tree(rows) /\ Follows(par, rows) /\ Rooted(tr, rows)

\* Typed rows are rows.
LEMMA TypedRows ==
  ASSUME MaxDepth \in Nat, NEW rows \in [Nodes -> SUBSET (Nodes \X (0..MaxDepth))]
  PROVE  rows \in Rows
BY DEF Rows

\* The invariant and its form on Up are one.
LEMMA SoundIs ==
  ASSUME None \notin Nodes, NEW rows \in Rows,
         NEW par \in [Nodes -> Nodes \cup {None}], NEW tr \in [Nodes -> Nodes \cup {None}]
  PROVE  /\ RowsFollowParents(par, rows) /\ DistancesUnique(rows) /\ RowsCompose(rows)
         /\ RootedIn(tr, rows)
         <=> Sound(par, rows, tr)
BY RowsTree, RowsFollow, TrashRootedIs DEF Sound

\* In a sound drive a node that exists has its own row and, unless it is the root, the
\* ancestors of its parent.
LEMMA SoundNode ==
  ASSUME NEW par \in [Nodes -> Nodes \cup {None}], NEW rows, NEW tr, None \notin Nodes,
         Sound(par, rows, tr), NEW d \in Nodes, \E a \in Nodes : Above(rows, a, d)
  PROVE  /\ Up(rows, d, d, 0)
         /\ par[d] # None =>
              /\ par[d] \in Nodes /\ Above(rows, par[d], d)
              /\ \A a \in Nodes : Above(rows, a, d) => a = d \/ Above(rows, a, par[d])
<1>1. Up(rows, d, d, 0)
  BY 0 \in Nat DEF Sound, Follows
<1>2. ASSUME par[d] # None
      PROVE  /\ par[d] \in Nodes /\ Above(rows, par[d], d)
             /\ \A a \in Nodes : Above(rows, a, d) => a = d \/ Above(rows, a, par[d])
  <2>1. par[d] \in Nodes /\ \E a \in Nodes : Above(rows, a, par[d])
    BY <1>2 DEF Sound, Follows
  <2>2. \A a \in Nodes : \A k \in Nat :
          Up(rows, d, a, k) <=>
            (a = d /\ k = 0) \/ \E j \in Nat : k = j + 1 /\ Up(rows, par[d], a, j)
    BY <1>2 DEF Sound, Follows
  <2>3. Up(rows, par[d], par[d], 0)
    BY <2>1, 0 \in Nat DEF Sound, Follows
  <2>4. Up(rows, d, par[d], 1)
    BY <2>1, <2>2, <2>3, 1 = 0 + 1, 0 \in Nat, 1 \in Nat
  <2>5. ASSUME NEW a \in Nodes, Above(rows, a, d)
        PROVE  a = d \/ Above(rows, a, par[d])
    BY <2>2, <2>5 DEF Above
  <2> QED
    BY <2>1, <2>4, <2>5, 1 \in Nat DEF Above
<1> QED
  BY <1>1, <1>2

\* Every operation keeps the types: a row that would be too deep is refused.
LEMMA StepTyped ==
  ASSUME NamespaceTyped, [NamespaceNext]_namespace
  PROVE  NamespaceTyped'
<1> USE NamespaceAssumption
<1>1. ASSUME Advance
      PROVE  namespaceGen' \in 0..MaxNamespace
  BY <1>1 DEF NamespaceTyped, Advance
<1>2. ASSUME NEW n \in Nodes, NEW p \in Nodes, CreateDirectory(n, p)
      PROVE  NamespaceTyped'
  BY <1>1, <1>2 DEF CreateDirectory, NamespaceTyped
<1>3. ASSUME NEW n \in Nodes, NEW p \in Nodes, NfsRename(n, p)
      PROVE  NamespaceTyped'
  <2>1. path' \in [Nodes -> SUBSET (Nodes \X (0..MaxDepth))]
    <3>1. path' = path \/ path' = Moved(n, p)
      BY <1>3 DEF NfsRename
    <3>2. path' = [d \in Nodes |-> path'[d]]
      BY <3>1 DEF NamespaceTyped, Moved
    <3>3. \A d \in Nodes : path'[d] \in SUBSET (Nodes \X (0..MaxDepth))
      BY <1>3 DEF NfsRename
    <3> QED
      BY <3>2, <3>3
  <2> QED
    BY <1>1, <1>3, <2>1 DEF NfsRename, NamespaceTyped
<1>4. ASSUME NEW n \in Nodes, TrashNode(n)
      PROVE  NamespaceTyped'
  BY <1>1, <1>4 DEF TrashNode, Trashed, NamespaceTyped
<1>5. ASSUME NEW n \in Nodes, RestoreNode(n)
      PROVE  NamespaceTyped'
  BY <1>1, <1>5 DEF RestoreNode, Restored, NamespaceTyped
<1>6. ASSUME NEW n \in Nodes, TouchNode(n)
      PROVE  NamespaceTyped'
  BY <1>1, <1>6 DEF TouchNode, tree, NamespaceTyped
<1>7. CASE UNCHANGED namespace
  BY <1>7 DEF namespace, NamespaceTyped
<1> QED
  BY <1>2, <1>3, <1>4, <1>5, <1>6, <1>7 DEF NamespaceNext, NfsCreate, NfsRemove

\* Every operation keeps the tree sound.
LEMMA StepSound ==
  ASSUME NamespaceTyped, NamespaceTyped', Sound(parent, path, trash),
         [NamespaceNext]_namespace
  PROVE  Sound(parent', path', trash')
<1> USE NamespaceAssumption
<1>0. /\ path \in Rows /\ path' \in Rows
      /\ parent \in [Nodes -> Nodes \cup {None}] /\ parent' \in [Nodes -> Nodes \cup {None}]
      /\ trash \in [Nodes -> Nodes \cup {None}] /\ trash' \in [Nodes -> Nodes \cup {None}]
      /\ None \notin Nodes
  BY TypedRows DEF NamespaceTyped
<1>1. \A d \in Nodes : Exists(d) => Up(path, d, d, 0) /\ Above(path, d, d)
  BY <1>0, SoundNode, PresentAbove, 0 \in Nat DEF Exists, Above
<1>2. \A d \in Nodes : ~Exists(d) => ~Up(path, d, d, 0) /\ \A a \in Nodes : ~Above(path, a, d)
  BY <1>0, PresentAbove, 0 \in Nat DEF Exists, Above
<1>3. \A d \in Nodes : \A a : a \in AncestorsOf(d) <=> a \in Nodes /\ Above(path, a, d)
  BY <1>0, AncestorsAbove DEF AncestorsOf
<1>4. \A n \in Nodes : Subtree(n) = {d \in Nodes : Above(path, n, d)}
  BY <1>3 DEF Subtree
<1>5. ASSUME NEW n \in Nodes, NEW p \in Nodes, CreateDirectory(n, p)
      PROVE  Sound(parent', path', trash')
  <2>1. ~Exists(n) /\ Exists(p) /\ p # n
    BY <1>5 DEF CreateDirectory
  <2>2. Grows(path, path', n, p)
    BY <1>0, <1>5, CreateGrows DEF CreateDirectory
  <2>3. /\ ~Up(path, n, n, 0) /\ Up(path, p, p, 0)
        /\ \A a \in Nodes : ~Above(path, a, n)
    BY <1>1, <1>2, <2>1
  <2>4. parent' = [parent EXCEPT ![n] = p] /\ trash' = trash
    BY <1>5 DEF CreateDirectory
  <2>5. Tree(path) /\ Follows(parent, path) /\ Rooted(trash, path)
    BY DEF Sound
  <2>6. Tree(path')
    BY <2>1, <2>2, <2>3, <2>5, GrowTree
  <2>7. Follows(parent', path')
    BY <1>0, <2>1, <2>2, <2>3, <2>4, <2>5, GrowFollows
  <2>8. Rooted(trash', path')
    BY <1>0, <2>2, <2>3, <2>4, <2>5, GrowRooted
  <2> QED
    BY <2>6, <2>7, <2>8 DEF Sound
<1>6. ASSUME NEW n \in Nodes, NEW target \in Nodes, NfsRename(n, target)
      PROVE  Sound(parent', path', trash')
  <2>1. /\ Exists(n) /\ trash[n] = None /\ Exists(target) /\ n \notin AncestorsOf(target)
        /\ parent' = [parent EXCEPT ![n] = target] /\ trash' = trash
    BY <1>6 DEF NfsRename, Renameable, Live
  <2>2. CASE target = parent[n]
    <3>1. path' = path /\ parent' = parent
      BY <1>0, <1>6, <2>1, <2>2 DEF NfsRename
    <3> QED
      BY <2>1, <3>1
  <2>3. CASE target # parent[n]
    <3>1. path' = Moved(n, target)
      BY <1>6, <2>3 DEF NfsRename
    <3>2. Moves(path, path', n, target)
      BY <1>0, <3>1, MovedMoves
    <3>3. Up(path, n, n, 0) /\ Up(path, target, target, 0) /\ ~Above(path, n, target)
      BY <1>1, <1>3, <2>1
    <3>4. Tree(path) /\ Follows(parent, path) /\ Rooted(trash, path)
      BY DEF Sound
    <3>5. Tree(path')
      BY <3>2, <3>3, <3>4, MoveTree
    <3>6. Follows(parent', path')
      BY <1>0, <2>1, <3>2, <3>3, <3>4, MoveFollows
    <3>7. Rooted(trash', path')
      BY <1>0, <2>1, <3>2, <3>3, <3>4, MoveRooted
    <3> QED
      BY <3>5, <3>6, <3>7 DEF Sound
  <2> QED
    BY <2>2, <2>3
<1>7. ASSUME NEW n \in Nodes, TrashNode(n)
      PROVE  Sound(parent', path', trash')
  <2>1. /\ Exists(n) /\ trash[n] = None /\ parent' = parent /\ path' = path
        /\ trash' = [d \in Nodes |-> IF Above(path, n, d) /\ trash[d] = None THEN n ELSE trash[d]]
    BY <1>4, <1>7 DEF TrashNode, Trashed
  <2>2. Above(path, n, n) /\ Tree(path) /\ Follows(parent, path) /\ Rooted(trash, path)
    BY <1>1, <2>1 DEF Sound
  <2>3. Rooted(trash', path)
    BY <1>0, <2>1, <2>2, TrashKeepsRooted
  <2> QED
    BY <2>1, <2>2, <2>3 DEF Sound
<1>8. ASSUME NEW n \in Nodes, RestoreNode(n)
      PROVE  Sound(parent', path', trash')
  <2>1. /\ Exists(n) /\ parent[n] # None /\ trash[parent[n]] = None
        /\ parent' = parent /\ path' = path
        /\ trash' = [d \in Nodes |-> IF Above(path, n, d) /\ trash[d] = n THEN None ELSE trash[d]]
    BY <1>4, <1>8 DEF RestoreNode, Restored
  <2>2. \E a \in Nodes : Above(path, a, n)
    BY <1>1, <2>1
  <2>3. /\ parent[n] \in Nodes /\ Above(path, parent[n], n)
        /\ \A a \in Nodes : Above(path, a, n) => a = n \/ Above(path, a, parent[n])
    BY <1>0, <2>1, <2>2, SoundNode
  <2>4. Tree(path) /\ Follows(parent, path) /\ Rooted(trash, path)
    BY DEF Sound
  <2>5. Rooted(trash', path)
    <3>1. PICK p \in Nodes : p = parent[n]
      BY <2>3
    <3>2. trash[p] = None /\ NextAbove(path, p, n)
      BY <2>1, <2>3, <3>1 DEF NextAbove
    <3>3. trash' = [d \in Nodes |-> IF Above(path, n, d) /\ trash[d] = n THEN None ELSE trash[d]]
      BY <2>1
    <3> QED
      BY <1>0, <2>4, <3>2, <3>3, RestoreKeepsRooted
  <2> QED
    BY <2>1, <2>4, <2>5 DEF Sound
<1>9. CASE UNCHANGED tree
  BY <1>9 DEF tree
<1> QED
  BY <1>5, <1>6, <1>7, <1>8, <1>9
     DEF NamespaceNext, NfsCreate, NfsRemove, TouchNode, namespace, tree

\* The types, the exact closure, the tree and the chains of the trash hold together in
\* every state that the operations on a drive reach.
THEOREM NamespaceInductive == NamespaceSpec => []NamespaceInv
<1> USE NamespaceAssumption
<1>1. NamespaceInit => NamespaceInv
  <2> SUFFICES ASSUME NamespaceInit
      PROVE  NamespaceInv
    OBVIOUS
  <2>1. NamespaceTyped
    BY DEF NamespaceInit, NamespaceTyped
  <2>2. AncestryExact /\ NoCycle
    BY DEF NamespaceInit, AncestryExact, NoCycle
  <2>3. TrashRooted
    BY DEF NamespaceInit, TrashRooted
  <2> QED
    BY <2>1, <2>2, <2>3 DEF NamespaceInv
<1>2. NamespaceInv /\ [NamespaceNext]_namespace => NamespaceInv'
  <2> SUFFICES ASSUME NamespaceInv, [NamespaceNext]_namespace
      PROVE  NamespaceInv'
    OBVIOUS
  <2>1. NamespaceTyped /\ NamespaceTyped'
    BY StepTyped DEF NamespaceInv
  <2>2. /\ path \in Rows /\ path' \in Rows
        /\ parent \in [Nodes -> Nodes \cup {None}] /\ parent' \in [Nodes -> Nodes \cup {None}]
        /\ trash \in [Nodes -> Nodes \cup {None}] /\ trash' \in [Nodes -> Nodes \cup {None}]
        /\ None \notin Nodes
    BY <2>1, TypedRows DEF NamespaceTyped
  <2>3. /\ RowsFollowParents(parent, path) /\ DistancesUnique(path) /\ RowsCompose(path)
        /\ RootedIn(trash, path)
    BY DEF NamespaceInv, AncestryExact, NoCycle, TrashRooted, RootedIn, AncestorsOf
  <2>4. Sound(parent, path, trash)
    BY <2>2, <2>3, SoundIs
  <2>5. Sound(parent', path', trash')
    BY <2>1, <2>4, StepSound
  <2>6. /\ RowsFollowParents(parent', path') /\ DistancesUnique(path') /\ RowsCompose(path')
        /\ RootedIn(trash', path')
    BY <2>2, <2>5, SoundIs
  <2>7. AncestryExact' /\ NoCycle'
    BY <2>6 DEF AncestryExact, NoCycle, RowsFollowParents, DistancesUnique, RowsCompose
  <2>8. TrashRooted'
    BY <2>6 DEF TrashRooted, RootedIn, AncestorsOf
  <2> QED
    BY <2>1, <2>7, <2>8 DEF NamespaceInv
<1> QED
  BY <1>1, <1>2, PTL DEF NamespaceSpec

\* The closure that authorization and trash read is always the one the parents give,
\* for every tree, every depth and every order of creations and renames.
THEOREM AncestryAlwaysExact == NamespaceSpec => []AncestryExact
<1>1. NamespaceInv => AncestryExact
  BY DEF NamespaceInv
<1> QED
  BY <1>1, NamespaceInductive, PTL

\* No sequence of renames makes a cycle or a second distance to an ancestor.
THEOREM NeverCycle == NamespaceSpec => []NoCycle
<1>1. NamespaceInv => NoCycle
  BY DEF NamespaceInv
<1> QED
  BY <1>1, NamespaceInductive, PTL

\* No node is stranded in the trash.
THEOREM TrashAlwaysRooted == NamespaceSpec => []TrashRooted
<1>1. NamespaceInv => TrashRooted
  BY DEF NamespaceInv
<1> QED
  BY <1>1, NamespaceInductive, PTL

\* The state of a drive keeps its types, distances within the schema's bound included.
THEOREM NamespaceAlwaysTyped == NamespaceSpec => []NamespaceTyped
<1>1. NamespaceInv => NamespaceTyped
  BY DEF NamespaceInv
<1> QED
  BY <1>1, NamespaceInductive, PTL

\* What was trashed on its own leaves the trash only by its own restore, which takes
\* nothing else that has a root of its own along.
THEOREM TrashedStaysApart == NamespaceSpec => TrashedApart
<1> DEFINE Apart ==
      \A n \in Nodes :
        trash[n] = n /\ trash'[n] # n =>
          /\ trash'[n] = None
          /\ \A m \in Nodes \ {n} : trash[m] \notin {None, n} => trash'[m] = trash[m]
<1>1. NamespaceTyped /\ [NamespaceNext]_namespace => [Apart]_namespace
  <2> SUFFICES ASSUME NamespaceTyped, NamespaceNext
      PROVE  Apart
    BY DEF namespace
  <2> USE NamespaceAssumption
  <2>1. CASE trash' = trash
    BY <2>1
  <2>2. ASSUME NEW r \in Nodes, trash' = Trashed(r)
        PROVE  Apart
    <3>1. \A n \in Nodes : trash[n] # None => trash'[n] = trash[n]
      BY <2>2 DEF Trashed
    <3> QED
      BY <3>1
  <2>3. ASSUME NEW r \in Nodes, trash' = Restored(r)
        PROVE  Apart
    <3>1. \A n \in Nodes : trash'[n] = IF n \in Subtree(r) /\ trash[n] = r THEN None ELSE trash[n]
      BY <2>3 DEF Restored
    <3> QED
      BY <3>1
  <2> QED
    BY <2>1, <2>2, <2>3
       DEF NamespaceNext, CreateDirectory, NfsCreate, NfsRename, TrashNode, NfsRemove,
           RestoreNode, TouchNode, tree
<1> QED
  BY <1>1, NamespaceAlwaysTyped, PTL DEF NamespaceSpec, TrashedApart

=============================================================================
