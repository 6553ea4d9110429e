------------------------- MODULE DriveAccessProofs -------------------------
(***************************************************************************)
(* Proofs about access to a drive: the type invariant, that the comparison *)
(* of generations stands for a second evaluation, that no capability is    *)
(* honoured that would not be given now, that a ring of recursive shares   *)
(* holds nothing of its own, and that the requests do to the tree what     *)
(* Namespace says.                                                         *)
(*                                                                         *)
(* The rounds of the evaluation are shown to end in the least set that is  *)
(* closed under the shares.  What a user holds is then the intersection of *)
(* the closed sets, and a change to one user who has given no recursive    *)
(* share leaves that intersection alone for every other user.              *)
(***************************************************************************)
EXTENDS DriveAccess, NamespaceProofs, FiniteSetTheorems

-----------------------------------------------------------------------------
(* The evaluation is a least fixed point *)

LEMMA NatMin ==
  ASSUME NEW S \in SUBSET Nat, S # {}
  PROVE  \E x \in S : \A y \in S : x <= y
<1> DEFINE R == OpToRel(<, Nat)
<1>1. IsWellFoundedOn(R, Nat)
  BY NatLessThanWellFounded
<1> HIDE DEF R
<1>2. PICK x \in S : \A y \in S : ~(<<y, x>> \in R)
  BY <1>1, WFMin
<1>3. \A y \in S : ~(y < x)
  BY <1>2 DEF R, OpToRel
<1> QED
  BY <1>3

\* The rounds of the evaluation for a node, the first k of them.
AreRounds(f, k, n) ==
  f = [i \in 0..k |-> IF i = 0 THEN Roots(n) ELSE f[i - 1] \cup Gained(n, f[i - 1])]

LEMMA RoundsExist ==
  ASSUME NEW n, NEW k \in Nat
  PROVE  \E f : AreRounds(f, k, n)
<1> DEFINE Missing == {i \in 0..k : ~\E f : AreRounds(f, i, n)}
<1> SUFFICES Missing = {}
  OBVIOUS
<1>1. SUFFICES ASSUME Missing # {} PROVE FALSE
  OBVIOUS
<1>2. PICK i \in Missing : \A j \in Missing : i <= j
  <2>1. Missing \in SUBSET Nat
    OBVIOUS
  <2> HIDE DEF Missing
  <2> QED
    BY <1>1, <2>1, NatMin
<1>3. CASE i = 0
  <2> DEFINE g == [j \in 0..0 |-> Roots(n)]
  <2>1. AreRounds(g, 0, n)
    BY DEF AreRounds
  <2> QED
    BY <1>3, <2>1
<1>4. CASE i # 0
  <2>1. i - 1 \in 0..k /\ i - 1 \notin Missing
    BY <1>2, <1>4
  <2>2. PICK f : AreRounds(f, i - 1, n)
    BY <2>1
  <2> DEFINE g == [j \in 0..i |-> IF j = i THEN f[i - 1] \cup Gained(n, f[i - 1]) ELSE f[j]]
  <2>3. ASSUME NEW j \in 0..i
        PROVE  g[j] = IF j = 0 THEN Roots(n) ELSE g[j - 1] \cup Gained(n, g[j - 1])
    <3>1. CASE j = i
      BY <1>4, <3>1
    <3>2. CASE j # i
      <4>1. j \in 0..(i - 1) /\ (j # 0 => j - 1 \in 0..i /\ j - 1 # i)
        BY <3>2
      <4>2. f[j] = IF j = 0 THEN Roots(n) ELSE f[j - 1] \cup Gained(n, f[j - 1])
        BY <2>2, <4>1 DEF AreRounds
      <4> QED
        BY <3>2, <4>1, <4>2
    <3> QED
      BY <3>1, <3>2
  <2>4. g = [j \in 0..i |-> g[j]]
    OBVIOUS
  <2> HIDE DEF g
  <2>5. AreRounds(g, i, n)
    BY <2>3, <2>4 DEF AreRounds
  <2> QED
    BY <2>5
<1> QED
  BY <1>3, <1>4

LEMMA KeysFinite ==
  ASSUME active \in SUBSET Users, NEW n
  PROVE  /\ IsFiniteSet(Keys) /\ IsFiniteSet(Candidates(n))
         /\ Cardinality(Keys) \in Nat /\ Cardinality(Candidates(n)) \in 0..Cardinality(Keys)
<1>1. IsFiniteSet(active)
  BY AccessAssumption, FS_Subset
<1>2. IsFiniteSet(Actions)
  <2>1. IsFiniteSet({"USE"}) 
    BY FS_Singleton
  <2>2. IsFiniteSet({"USE"} \cup {"SHARE"})
    BY <2>1, FS_AddElement
  <2>3. IsFiniteSet(({"USE"} \cup {"SHARE"}) \cup {"MANAGE_ACL"})
    BY <2>2, FS_AddElement
  <2>4. Actions = ({"USE"} \cup {"SHARE"}) \cup {"MANAGE_ACL"}
    BY DEF Actions
  <2> QED
    BY <2>3, <2>4
<1>3. IsFiniteSet(Keys)
  BY <1>1, <1>2, FS_Product DEF Keys
<1>4. Candidates(n) \subseteq Keys
  BY DEF Candidates
<1>5. IsFiniteSet(Candidates(n)) /\ Cardinality(Candidates(n)) <= Cardinality(Keys)
  BY <1>3, <1>4, FS_Subset
<1>6. Cardinality(Keys) \in Nat /\ Cardinality(Candidates(n)) \in Nat
  BY <1>3, <1>5, FS_CardinalityType
<1> QED
  BY <1>3, <1>5, <1>6

\* The rounds of the evaluation, and its result.
LEMMA ProvenRounds ==
  ASSUME active \in SUBSET Users, NEW n
  PROVE  \E f : /\ AreRounds(f, Cardinality(Keys), n)
                /\ Proven(n) = f[Cardinality(Candidates(n))]
<1>1. \E f : AreRounds(f, Cardinality(Keys), n)
  BY KeysFinite, RoundsExist
<1> QED
  BY <1>1 DEF Proven, AreRounds

\* A set of what users hold on a node is closed: it has what is held independently and
\* what a recursive share gives when its giver holds SHARE and the action.
Closed(A, n, S) ==
  \A u \in A : \A a \in Actions :
    \/ Independent(u, a, n)
    \/ ~Denied(u, a, n) /\ \E v \in Givers(u, "tree", a, n) : <<v, "SHARE">> \in S /\ <<v, a>> \in S
    => <<u, a>> \in S

\* The user holds the action on the node, or would if active.
Holds(u, a, n) ==
  \A S \in SUBSET ((active \cup {u}) \X Actions) : Closed(active \cup {u}, n, S) => <<u, a>> \in S

LEMMA RoundsBelow ==
  ASSUME active \in SUBSET Users, NEW n, NEW k \in Nat, NEW f, AreRounds(f, k, n),
         NEW S \in SUBSET Keys, Closed(active, n, S)
  PROVE  \A i \in 0..k : f[i] \subseteq S
<1> DEFINE Bad == {i \in 0..k : ~(f[i] \subseteq S)}
<1>1. SUFFICES ASSUME Bad # {} PROVE FALSE
  OBVIOUS
<1>2. PICK i \in Bad : \A j \in Bad : i <= j
  <2>1. Bad \in SUBSET Nat
    OBVIOUS
  <2> HIDE DEF Bad
  <2> QED
    BY <1>1, <2>1, NatMin
<1>3. f[i] = IF i = 0 THEN Roots(n) ELSE f[i - 1] \cup Gained(n, f[i - 1])
  BY DEF AreRounds
<1>4. Roots(n) \subseteq S
  BY DEF Roots, Keys, Closed
<1>5. i # 0
  BY <1>3, <1>4
<1>6. f[i - 1] \subseteq S
  BY <1>2, <1>5
<1>7. Gained(n, f[i - 1]) \subseteq S
  <2> SUFFICES ASSUME NEW x \in Gained(n, f[i - 1]) PROVE x \in S
    OBVIOUS
  <2>1. x \in Keys /\ ~Denied(x[1], x[2], n)
    BY DEF Gained, Candidates
  <2>2. PICK v \in Givers(x[1], "tree", x[2], n) : <<v, "SHARE">> \in S /\ <<v, x[2]>> \in S
    BY <1>6 DEF Gained
  <2>3. PICK u \in active, a \in Actions : x = <<u, a>>
    BY <2>1 DEF Keys
  <2>4. x[1] = u /\ x[2] = a
    BY <2>3
  <2> QED
    BY <2>1, <2>2, <2>3, <2>4 DEF Closed
<1> QED
  BY <1>2, <1>3, <1>5, <1>6, <1>7

\* Until the rounds are stable each one adds a candidate, so as many rounds as there are
\* candidates are enough.
LEMMA RoundsStable ==
  ASSUME active \in SUBSET Users, NEW n, NEW f, AreRounds(f, Cardinality(Keys), n)
  PROVE  /\ f[Cardinality(Candidates(n))] \in SUBSET Keys
         /\ Roots(n) \subseteq f[Cardinality(Candidates(n))]
         /\ Gained(n, f[Cardinality(Candidates(n))]) \subseteq f[Cardinality(Candidates(n))]
<1> DEFINE K == Cardinality(Keys)
           C == Cardinality(Candidates(n))
           In(i) == f[i] \cap Candidates(n)
           Fine(i) == /\ f[i] \in SUBSET Keys /\ Roots(n) \subseteq f[i]
                      /\ Gained(n, f[i]) \subseteq f[i] \/ Cardinality(In(i)) >= i
           Bad == {i \in 0..K : ~Fine(i)}
<1>1. /\ K \in Nat /\ C \in 0..K /\ IsFiniteSet(Candidates(n))
      /\ \A i \in 0..K : IsFiniteSet(In(i)) /\ Cardinality(In(i)) \in Nat /\ Cardinality(In(i)) <= C
  <2>1. \A i \in 0..K : In(i) \subseteq Candidates(n)
    OBVIOUS
  <2> QED
    BY <2>1, KeysFinite, FS_Subset, FS_CardinalityType
<1>2. Bad = {}
  <2>1. SUFFICES ASSUME Bad # {} PROVE FALSE
    OBVIOUS
  <2>2. PICK i \in Bad : \A j \in Bad : i <= j
    <3>1. Bad \in SUBSET Nat
      BY <1>1
    <3> HIDE DEF Bad
    <3> QED
      BY <2>1, <3>1, NatMin
  <2>3. i \in 0..K /\ ~Fine(i)
    BY <2>2
  <2>4. f[i] = IF i = 0 THEN Roots(n) ELSE f[i - 1] \cup Gained(n, f[i - 1])
    BY <2>3 DEF AreRounds
  <2>5. Roots(n) \in SUBSET Keys /\ \A S : Gained(n, S) \in SUBSET Keys /\ Gained(n, S) \subseteq Candidates(n)
    BY DEF Roots, Gained, Candidates
  <2>6. CASE i = 0
    BY <1>1, <2>3, <2>4, <2>5, <2>6
  <2>7. CASE i # 0
    <3>1. i - 1 \in 0..K /\ Fine(i - 1)
      <4>1. i - 1 \in 0..K /\ i - 1 \notin Bad
        BY <1>1, <2>2, <2>3, <2>7
      <4> QED
        BY <4>1
    <3>2. f[i] \in SUBSET Keys /\ Roots(n) \subseteq f[i]
      BY <2>4, <2>5, <2>7, <3>1
    <3>3. CASE Gained(n, f[i - 1]) \subseteq f[i - 1]
      <4>1. f[i] = f[i - 1]
        BY <2>4, <2>7, <3>3
      <4> QED
        BY <2>3, <3>2, <3>3, <4>1
    <3>4. CASE ~(Gained(n, f[i - 1]) \subseteq f[i - 1])
      <4>1. PICK x \in Gained(n, f[i - 1]) : x \notin f[i - 1]
        BY <3>4
      <4>2. x \in Candidates(n) /\ x \in In(i) /\ x \notin In(i - 1) /\ In(i - 1) \cup {x} \subseteq In(i)
        BY <2>4, <2>5, <2>7, <4>1
      <4>3. IsFiniteSet(In(i - 1)) /\ Cardinality(In(i - 1)) >= i - 1 /\ Cardinality(In(i - 1)) \in Nat
        BY <1>1, <3>1, <3>4
      <4> DEFINE P == In(i - 1)
                 Q == In(i)
      <4>4. IsFiniteSet(Q) /\ Cardinality(Q) \in Nat
        BY <1>1, <2>3
      <4> HIDE DEF P, Q
      <4>5. IsFiniteSet(P \cup {x}) /\ Cardinality(P \cup {x}) = Cardinality(P) + 1
        BY <4>2, <4>3, FS_AddElement DEF P
      <4>6. Cardinality(P \cup {x}) <= Cardinality(Q)
        <5>1. P \cup {x} \subseteq Q
          BY <4>2 DEF P, Q
        <5> QED
          BY <4>4, <5>1, FS_Subset
      <4>7. Cardinality(In(i)) >= i
        BY <2>3, <4>3, <4>4, <4>5, <4>6 DEF P, Q
      <4> QED
        BY <2>3, <3>2, <4>7
    <3> QED
      BY <3>3, <3>4
  <2> QED
    BY <2>6, <2>7
<1>3. Fine(C)
  BY <1>1, <1>2
<1>4. Gained(n, f[C]) \subseteq f[C]
  <2>1. SUFFICES ASSUME Cardinality(In(C)) >= C PROVE Gained(n, f[C]) \subseteq f[C]
    BY <1>3
  <2> DEFINE Q == In(C)
  <2>2. Q \subseteq Candidates(n) /\ Cardinality(Q) = Cardinality(Candidates(n))
    BY <1>1, <2>1
  <2> HIDE DEF Q
  <2>3. Q = Candidates(n)
    BY <1>1, <2>2, FS_Subset
  <2> QED
    BY <2>3 DEF Q, Gained
<1> QED
  BY <1>3, <1>4

\* What the evaluation proves is the least closed set.
LEMMA ProvenClosed ==
  ASSUME active \in SUBSET Users, NEW n
  PROVE  Proven(n) \in SUBSET Keys /\ Closed(active, n, Proven(n))
<1>1. PICK f : AreRounds(f, Cardinality(Keys), n) /\ Proven(n) = f[Cardinality(Candidates(n))]
  BY ProvenRounds
<1>2. /\ Proven(n) \in SUBSET Keys /\ Roots(n) \subseteq Proven(n)
      /\ Gained(n, Proven(n)) \subseteq Proven(n)
  BY <1>1, RoundsStable
<1>3. ASSUME NEW u \in active, NEW a \in Actions,
             \/ Independent(u, a, n)
             \/ /\ ~Denied(u, a, n)
                /\ \E v \in Givers(u, "tree", a, n) : <<v, "SHARE">> \in Proven(n) /\ <<v, a>> \in Proven(n)
      PROVE  <<u, a>> \in Proven(n)
  <2> DEFINE k == <<u, a>>
  <2>1. k \in Keys /\ k[1] = u /\ k[2] = a
    BY DEF Keys
  <2> HIDE DEF k
  <2>2. CASE Independent(u, a, n)
    BY <1>2, <2>1, <2>2 DEF Roots, k
  <2>3. CASE ~Independent(u, a, n)
    <3>1. k \in Candidates(n)
      BY <1>3, <2>1, <2>3 DEF Candidates, Roots
    <3>2. k \in Gained(n, Proven(n))
      BY <1>3, <2>1, <2>3, <3>1 DEF Gained
    <3> QED
      BY <1>2, <3>2 DEF k
  <2> QED
    BY <2>2, <2>3
<1> QED
  BY <1>2, <1>3 DEF Closed

LEMMA ProvenLeast ==
  ASSUME active \in SUBSET Users, NEW n, NEW S \in SUBSET Keys, Closed(active, n, S)
  PROVE  Proven(n) \subseteq S
<1>1. PICK f : AreRounds(f, Cardinality(Keys), n) /\ Proven(n) = f[Cardinality(Candidates(n))]
  BY ProvenRounds
<1> QED
  BY <1>1, KeysFinite, RoundsBelow

LEMMA ProvenIs ==
  ASSUME active \in SUBSET Users, NEW u \in active, NEW a \in Actions, NEW n
  PROVE  <<u, a>> \in Proven(n) <=> Holds(u, a, n)
<1>1. active \cup {u} = active
  OBVIOUS
<1>2. ASSUME <<u, a>> \in Proven(n) PROVE Holds(u, a, n)
  BY <1>1, <1>2, ProvenLeast DEF Holds, Keys
<1>3. ASSUME Holds(u, a, n) PROVE <<u, a>> \in Proven(n)
  BY <1>1, <1>3, ProvenClosed DEF Holds, Keys
<1> QED
  BY <1>2, <1>3

\* What is held independently of this user and whom the shares come from depend on the
\* user's own groups only.
LEMMA OwnGroups ==
  ASSUME NEW u, path' = path, rule' = rule, share' = share, member'[u] = member[u]
  PROVE  \A a, n : /\ Independent(u, a, n)' <=> Independent(u, a, n)
                   /\ Denied(u, a, n)' <=> Denied(u, a, n)
                   /\ Givers(u, "tree", a, n)' = Givers(u, "tree", a, n)
<1> TAKE a, n
<1>1. \A on, scope : Applies(on, scope, n)' <=> Applies(on, scope, n)
  BY DEF Applies
<1>2. Subjects(u)' = Subjects(u)
  BY DEF Subjects
<1>3. \A effect : HasRule(u, effect, a, n)' <=> HasRule(u, effect, a, n)
  BY <1>1, <1>2 DEF HasRule
<1>4. \A scope : Givers(u, scope, a, n)' = Givers(u, scope, a, n)
  BY <1>1 DEF Givers
<1>5. Denied(u, a, n)' <=> Denied(u, a, n)
  BY <1>3 DEF Denied
<1> QED
  BY <1>3, <1>4, <1>5 DEF Independent

\* A change to one user who has given no recursive share takes nothing from another.
LEMMA OthersHold ==
  ASSUME NEW w \in Users, NEW u \in Users \ {w}, NEW a \in Actions, NEW n,
         path' = path, rule' = rule, share' = share,
         \A v \in Users \ {w} : member'[v] = member[v],
         active \in SUBSET Users, active' \in SUBSET Users, active' \ {w} = active \ {w},
         ~\E s \in share : s.by = w /\ s.scope = "tree",
         Holds(u, a, n)
  PROVE  Holds(u, a, n)'
<1> DEFINE A == active \cup {u}
           B == active' \cup {u}
<1> SUFFICES ASSUME NEW T \in SUBSET (B \X Actions), Closed(active \cup {u}, n, T)'
             PROVE  <<u, a>> \in T
  BY DEF Holds
<1> DEFINE S == {k \in A \X Actions : k[1] = w \/ k \in T}
<1>1. \A v \in B : \A b \in Actions :
        (\/ Independent(v, b, n)'
         \/ /\ ~Denied(v, b, n)'
            /\ \E g \in Givers(v, "tree", b, n)' : <<g, "SHARE">> \in T /\ <<g, b>> \in T)
        => <<v, b>> \in T
  BY DEF Closed
<1>2. ASSUME NEW v \in A, NEW b \in Actions,
             \/ Independent(v, b, n)
             \/ /\ ~Denied(v, b, n)
                /\ \E g \in Givers(v, "tree", b, n) : <<g, "SHARE">> \in S /\ <<g, b>> \in S
      PROVE  <<v, b>> \in S
  <2>1. CASE v = w
    BY <2>1
  <2>2. CASE v # w
    <3>1. v \in B /\ v \in Users \ {w}
      BY <2>2
    <3>2. /\ Independent(v, b, n)' <=> Independent(v, b, n)
          /\ Denied(v, b, n)' <=> Denied(v, b, n)
          /\ Givers(v, "tree", b, n)' = Givers(v, "tree", b, n)
      BY <3>1, OwnGroups
    <3>3. w \notin Givers(v, "tree", b, n)
      BY DEF Givers
    <3>4. \A g \in Givers(v, "tree", b, n) : \A c : <<g, c>> \in S => <<g, c>> \in T
      BY <3>3
    <3>5. <<v, b>> \in T
      BY <1>1, <1>2, <3>1, <3>2, <3>4
    <3> QED
      BY <3>5
  <2> QED
    BY <2>1, <2>2
<1>3. S \in SUBSET ((active \cup {u}) \X Actions)
  OBVIOUS
<1> HIDE DEF S
<1>4. Closed(active \cup {u}, n, S)
  BY <1>2 DEF Closed
<1>5. <<u, a>> \in S
  BY <1>3, <1>4 DEF Holds
<1> QED
  BY <1>5 DEF S

-----------------------------------------------------------------------------
(* The inductive invariant *)

\* A request was granted under generations that were current then, and while they are it
\* would be granted again, or would if its user were active.
GrantInv(u) ==
  ~At(u, "idle") =>
    /\ request[u].at.user = u /\ request[u].needs # {}
    /\ request[u].at.ns <= namespaceGen /\ request[u].at.acl <= aclGen
    /\ request[u].at.member <= memberGen[u]
    /\ request[u].at = Generations(u) =>
         \A need \in request[u].needs : Exists(need[2]) /\ Holds(u, need[1], need[2])

\* The projection has no row of an inactive user or of older generations.
ProjectionInv == \A row \in projection : row.at.user \in active /\ row.at = Generations(row.at.user)

AccessInv == TypeOK /\ (\A u \in Users : GrantInv(u)) /\ ProjectionInv

Grant == [step: {"granted", "bound"}, needs: SUBSET (Actions \X Nodes), at: Generation]

\* The types of everything but the tree.
PolicyTyped ==
  /\ rule \subseteq PlacedRule /\ share \subseteq Share /\ OnePerTarget(share)
  /\ member \in [Users -> SUBSET Groups]
  /\ active \in SUBSET Users
  /\ aclGen \in 0..MaxRules
  /\ memberGen \in [Users -> 0..MaxMember]
  /\ projection \subseteq [on: Nodes, at: Generation]
  /\ request \in [Users -> Grant \cup {Idle}]

LEMMA TypedIs == TypeOK <=> NamespaceTyped /\ PolicyTyped
BY DEF TypeOK, PolicyTyped, Grant

LEMMA TypedNext == NamespaceTyped' /\ PolicyTyped' => TypeOK'
BY DEF TypeOK, PolicyTyped, Grant

LEMMA GrantTyped ==
  ASSUME TypeOK, NEW u \in Users, ~At(u, "idle")
  PROVE  /\ request[u] \in Grant /\ request[u].at \in Generation
         /\ request[u].needs \in SUBSET (Actions \X Nodes)
BY TypedIs DEF PolicyTyped, At, Idle, Grant

\* The request that a step ends, and those it leaves alone.
LEMMA EndsRequest ==
  ASSUME TypeOK, NEW u \in Users, request' = [request EXCEPT ![u] = Idle]
  PROVE  /\ request' \in [Users -> Grant \cup {Idle}] /\ At(u, "idle")'
         /\ \A v \in Users \ {u} : request'[v] = request[v]
BY TypedIs DEF PolicyTyped, At, Idle

\* After a step that advances a generation of the drive, no earlier grant is current.
LEMMA Outdated ==
  ASSUME AccessInv, NEW v \in Users, request'[v] = request[v],
         memberGen'[v] \in Nat, memberGen'[v] >= memberGen[v],
         \/ namespaceGen' = namespaceGen + 1 /\ aclGen' = aclGen
         \/ namespaceGen' = namespaceGen /\ aclGen' = aclGen + 1
  PROVE  GrantInv(v)'
<1> SUFFICES ASSUME ~At(v, "idle")' PROVE GrantInv(v)'
  BY DEF GrantInv
<1>1. ~At(v, "idle")
  BY DEF At
<1>2. request[v].at \in Generation
  BY <1>1, GrantTyped DEF AccessInv
<1>3. /\ request[v].at.user = v /\ request[v].needs # {}
      /\ request[v].at.ns <= namespaceGen /\ request[v].at.acl <= aclGen
      /\ request[v].at.member <= memberGen[v]
      /\ request[v].at.ns \in Nat /\ request[v].at.acl \in Nat /\ request[v].at.member \in Nat
  BY <1>1, <1>2, NamespaceAssumption, AccessAssumption DEF AccessInv, GrantInv, Generation
<1>4. namespaceGen \in Nat /\ aclGen \in Nat /\ memberGen[v] \in Nat
  BY TypedIs, NamespaceAssumption, AccessAssumption DEF AccessInv, PolicyTyped, NamespaceTyped
<1>5. request'[v].at # Generations(v)'
  BY <1>3, <1>4 DEF Generations
<1> QED
  BY <1>3, <1>4, <1>5 DEF GrantInv

\* What a user holds depends on the tree, the rules, the shares and the users only.
LEMMA HoldsSame ==
  ASSUME UNCHANGED <<path, rule, share, member, active>>, NEW u, NEW a, NEW n
  PROVE  /\ Holds(u, a, n)' <=> Holds(u, a, n)
         /\ Exists(n)' <=> Exists(n)
<1>1. \A b, v : /\ Independent(v, b, n)' <=> Independent(v, b, n)
                /\ Denied(v, b, n)' <=> Denied(v, b, n)
                /\ Givers(v, "tree", b, n)' = Givers(v, "tree", b, n)
  BY OwnGroups
<1>2. ASSUME NEW S PROVE Closed(active \cup {u}, n, S)' <=> Closed(active \cup {u}, n, S)
  <2> DEFINE A == active \cup {u}
  <2>1. A' = A
    OBVIOUS
  <2>2. ASSUME NEW v \in A, NEW b \in Actions
        PROVE  (\/ Independent(v, b, n)'
                \/ /\ ~Denied(v, b, n)'
                   /\ \E g \in Givers(v, "tree", b, n)' : <<g, "SHARE">> \in S /\ <<g, b>> \in S)
               <=>
               (\/ Independent(v, b, n)
                \/ /\ ~Denied(v, b, n)
                   /\ \E g \in Givers(v, "tree", b, n) : <<g, "SHARE">> \in S /\ <<g, b>> \in S)
    BY <1>1
  <2>3. Closed(A, n, S)' <=> \A v \in A : \A b \in Actions :
               (\/ Independent(v, b, n)'
                \/ /\ ~Denied(v, b, n)'
                   /\ \E g \in Givers(v, "tree", b, n)' : <<g, "SHARE">> \in S /\ <<g, b>> \in S)
               => <<v, b>> \in S
    BY <2>1 DEF Closed
  <2>4. Closed(A, n, S) <=> \A v \in A : \A b \in Actions :
               (\/ Independent(v, b, n)
                \/ /\ ~Denied(v, b, n)
                   /\ \E g \in Givers(v, "tree", b, n) : <<g, "SHARE">> \in S /\ <<g, b>> \in S)
               => <<v, b>> \in S
    BY DEF Closed
  <2> QED
    BY <2>2, <2>3, <2>4
<1>3. Holds(u, a, n)' <=> Holds(u, a, n)
  BY <1>2 DEF Holds
<1> QED
  BY <1>3 DEF Exists

\* While nothing that the evaluation of a user reads has changed, a grant stays what it was.
LEMMA Kept ==
  ASSUME AccessInv, NEW v \in Users, UNCHANGED <<namespace, policy, aclGen>>,
         memberGen'[v] = memberGen[v], request'[v] = request[v]
  PROVE  GrantInv(v)'
<1> SUFFICES ASSUME ~At(v, "idle")' PROVE GrantInv(v)'
  BY DEF GrantInv
<1>1. ~At(v, "idle") /\ GrantInv(v)
  BY DEF At, AccessInv
<1>2. Generations(v)' = Generations(v)
  BY DEF Generations, namespace
<1>3. \A a, n : (Holds(v, a, n)' <=> Holds(v, a, n)) /\ (Exists(n)' <=> Exists(n))
  BY HoldsSame DEF namespace, policy
<1> QED
  BY <1>1, <1>2, <1>3 DEF GrantInv, namespace

LEMMA AuthorizeStep ==
  ASSUME AccessInv, NEW u \in Users, NEW needs \in Requests, Authorize(u, needs)
  PROVE  AccessInv'
<1> DEFINE g == [step |-> "granted", needs |-> needs, at |-> Generations(u)]
<1>1. /\ TypeOK /\ NamespaceTyped /\ PolicyTyped /\ May(u, needs)
      /\ request' = [request EXCEPT ![u] = g]
      /\ UNCHANGED <<namespace, policy, aclGen, memberGen, projection>>
  BY TypedIs DEF AccessInv, Authorize
<1>2. Generations(u) \in Generation
  BY <1>1 DEF Generations, Generation, NamespaceTyped, PolicyTyped
<1>3. needs \in SUBSET (Actions \X Nodes) /\ needs # {}
  BY AccessAssumption
<1>4. g \in Grant /\ g.step = "granted" /\ g.needs = needs /\ g.at = Generations(u)
  BY <1>2, <1>3 DEF Grant
<1> HIDE DEF g
<1>5. request'[u] = g /\ \A v \in Users \ {u} : request'[v] = request[v]
  BY <1>1 DEF PolicyTyped
<1>6. TypeOK'
  <2>1. PolicyTyped'
    BY <1>1, <1>4 DEF PolicyTyped, policy
  <2>2. NamespaceTyped'
    BY <1>1 DEF NamespaceTyped, namespace
  <2> QED
    BY <2>1, <2>2, TypedNext
<1>7. GrantInv(u)'
  <2>1. u \in active /\ active \in SUBSET Users
    BY <1>1 DEF May, PolicyTyped
  <2>2. ASSUME NEW need \in needs PROVE Exists(need[2])' /\ Holds(u, need[1], need[2])'
    <3>1. need[1] \in Actions /\ need[2] \in Nodes
      BY <1>3
    <3>2. Exists(need[2]) /\ Holds(u, need[1], need[2])
      BY <1>1, <2>1, <3>1, ProvenIs DEF May
    <3> QED
      BY <1>1, <3>2, HoldsSame DEF namespace, policy
  <2>3. Generations(u)' = Generations(u) /\ Generations(u).user = u
        /\ Generations(u).ns = namespaceGen /\ Generations(u).acl = aclGen
        /\ Generations(u).member = memberGen[u]
    BY <1>1 DEF Generations, namespace
  <2>4. namespaceGen' = namespaceGen /\ aclGen' = aclGen /\ memberGen' = memberGen
        /\ namespaceGen \in Nat /\ aclGen \in Nat /\ memberGen[u] \in Nat
    BY <1>1, NamespaceAssumption, AccessAssumption DEF namespace, NamespaceTyped, PolicyTyped
  <2> QED
    BY <1>3, <1>4, <1>5, <2>2, <2>3, <2>4 DEF GrantInv
<1>8. \A v \in Users \ {u} : GrantInv(v)'
  BY <1>1, <1>5, Kept
<1>9. ProjectionInv'
  BY <1>1 DEF AccessInv, ProjectionInv, Generations, namespace, policy
<1> QED
  BY <1>6, <1>7, <1>8, <1>9 DEF AccessInv

LEMMA PublishStep ==
  ASSUME AccessInv, NEW u \in Users, Publish(u)
  PROVE  AccessInv'
<1> DEFINE g == [request[u] EXCEPT !.step = "bound"]
<1>1. /\ TypeOK /\ NamespaceTyped /\ PolicyTyped /\ ~At(u, "idle") /\ Fresh(u)
      /\ request' = [request EXCEPT ![u] = g]
      /\ UNCHANGED <<namespace, policy, aclGen, memberGen>>
  BY TypedIs DEF AccessInv, Publish, At, PolicyTyped
<1>2. request[u] \in Grant /\ request[u].at \in Generation
  BY <1>1, GrantTyped
<1>3. g \in Grant /\ g.step = "bound" /\ g.needs = request[u].needs /\ g.at = request[u].at
  BY <1>2 DEF Grant
<1>4. PICK n \in Nodes : projection' = Projected(u, n)
  BY DEF Publish
<1> HIDE DEF g
<1>5. request'[u] = g /\ \A v \in Users \ {u} : request'[v] = request[v]
  BY <1>1 DEF PolicyTyped
<1>6. \A row \in projection' : row \in projection \/ row = [on |-> n, at |-> request[u].at]
  BY <1>4 DEF Projected
<1>7. TypeOK'
  <2>1. request' \in [Users -> Grant \cup {Idle}]
    BY <1>1, <1>3 DEF PolicyTyped
  <2>2. projection' \subseteq [on: Nodes, at: Generation]
    BY <1>1, <1>2, <1>6 DEF PolicyTyped
  <2>3. PolicyTyped'
    BY <1>1, <2>1, <2>2 DEF PolicyTyped, policy
  <2>4. NamespaceTyped'
    BY <1>1 DEF NamespaceTyped, namespace
  <2> QED
    BY <2>3, <2>4, TypedNext
<1>8. GrantInv(u)'
  <2>1. GrantInv(u)
    BY DEF AccessInv
  <2>2. Generations(u)' = Generations(u)
    BY <1>1 DEF Generations, namespace
  <2>3. \A a, m : (Holds(u, a, m)' <=> Holds(u, a, m)) /\ (Exists(m)' <=> Exists(m))
    BY <1>1, HoldsSame DEF namespace, policy
  <2> QED
    BY <1>1, <1>3, <1>5, <2>1, <2>2, <2>3 DEF GrantInv, namespace
<1>9. \A v \in Users \ {u} : GrantInv(v)'
  BY <1>1, <1>5, Kept
<1>10. ProjectionInv'
  <2> SUFFICES ASSUME NEW row \in projection'
               PROVE  row.at.user \in active' /\ row.at = Generations(row.at.user)'
    BY DEF ProjectionInv
  <2>1. row.at.user \in active /\ row.at = Generations(row.at.user)
    <3>1. CASE row \in projection
      BY <3>1 DEF AccessInv, ProjectionInv
    <3>2. CASE row = [on |-> n, at |-> request[u].at]
      BY <1>1, <3>2 DEF AccessInv, GrantInv, Fresh
    <3> QED
      BY <1>6, <3>1, <3>2
  <2> QED
    BY <1>1, <2>1 DEF Generations, namespace, policy
<1> QED
  BY <1>7, <1>8, <1>9, <1>10 DEF AccessInv

LEMMA EndSessionStep ==
  ASSUME AccessInv, NEW u \in Users, EndSession(u)
  PROVE  AccessInv'
<1>1. /\ TypeOK /\ NamespaceTyped /\ PolicyTyped /\ request' = [request EXCEPT ![u] = Idle]
      /\ projection' \subseteq projection
      /\ UNCHANGED <<namespace, policy, aclGen, memberGen>>
  BY TypedIs DEF AccessInv, EndSession
<1>2. /\ request' \in [Users -> Grant \cup {Idle}] /\ At(u, "idle")'
      /\ \A v \in Users \ {u} : request'[v] = request[v]
  BY <1>1, EndsRequest
<1>3. TypeOK'
  <2>1. PolicyTyped'
    BY <1>1, <1>2 DEF PolicyTyped, policy
  <2>2. NamespaceTyped'
    BY <1>1 DEF NamespaceTyped, namespace
  <2> QED
    BY <2>1, <2>2, TypedNext
<1>4. GrantInv(u)' /\ \A v \in Users \ {u} : GrantInv(v)'
  BY <1>1, <1>2, Kept DEF GrantInv
<1>5. ProjectionInv'
  BY <1>1 DEF AccessInv, ProjectionInv, Generations, namespace, policy
<1> QED
  BY <1>3, <1>4, <1>5 DEF AccessInv

\* A mutation commits: it advances a generation of the drive and empties the projection.
LEMMA CommitStep ==
  ASSUME AccessInv, NEW u \in Users, NEW step, NEW needs, Commits(u, step, needs), NamespaceTyped',
         rule' \subseteq PlacedRule, share' \subseteq Share, OnePerTarget(share'),
         aclGen' \in 0..MaxRules,
         \/ namespaceGen' = namespaceGen + 1 /\ aclGen' = aclGen
         \/ namespaceGen' = namespaceGen /\ aclGen' = aclGen + 1
  PROVE  AccessInv'
<1>1. /\ TypeOK /\ PolicyTyped /\ request' = [request EXCEPT ![u] = Idle]
      /\ projection' = {} /\ UNCHANGED <<memberGen, member, active>>
  BY TypedIs DEF AccessInv, Commits
<1>2. /\ request' \in [Users -> Grant \cup {Idle}] /\ At(u, "idle")'
      /\ \A v \in Users \ {u} : request'[v] = request[v]
  BY <1>1, EndsRequest
<1>3. TypeOK'
  <2>1. PolicyTyped'
    BY <1>1, <1>2 DEF PolicyTyped
  <2> QED
    BY <2>1, TypedNext
<1>4. ASSUME NEW v \in Users \ {u} PROVE GrantInv(v)'
  <2>1. memberGen'[v] \in Nat /\ memberGen'[v] >= memberGen[v]
    BY <1>1, AccessAssumption DEF PolicyTyped
  <2> QED
    BY <1>2, <2>1, Outdated
<1>5. GrantInv(u)'
  BY <1>2 DEF GrantInv
<1>6. ProjectionInv'
  BY <1>1 DEF ProjectionInv
<1> QED
  BY <1>3, <1>4, <1>5, <1>6 DEF AccessInv

\* The steps of requests that change the tree.
TreeStep ==
  \E u \in Users :
    \/ \E n, p \in Nodes : Create(u, n, p) \/ CreateNfs(u, n, p) \/ RenameNfs(u, n, p)
    \/ \E n \in Nodes : Trash(u, n) \/ Restore(u, n) \/ Touch(u, n) \/ RemoveNfs(u, n)

LEMMA TreeStepIs ==
  ASSUME TreeStep
  PROVE  /\ NamespaceNext /\ Advance /\ OfTree
         /\ \E u \in Users : \E step, needs : Commits(u, step, needs)
<1>1. NamespaceNext /\ Advance
  <2>1. CASE \E u \in Users, n, p \in Nodes :
               Create(u, n, p) \/ CreateNfs(u, n, p) \/ RenameNfs(u, n, p)
    <3>1. \E n, p \in Nodes : CreateDirectory(n, p) \/ NfsCreate(n, p) \/ NfsRename(n, p)
      BY <2>1 DEF Create, CreateNfs, RenameNfs
    <3> QED
      BY <3>1 DEF NamespaceNext, CreateDirectory, NfsCreate, NfsRename
  <2>2. CASE \E u \in Users, n \in Nodes :
               Trash(u, n) \/ Restore(u, n) \/ Touch(u, n) \/ RemoveNfs(u, n)
    <3>1. \E n \in Nodes : TrashNode(n) \/ RestoreNode(n) \/ TouchNode(n) \/ NfsRemove(n)
      BY <2>2 DEF Trash, Restore, Touch, RemoveNfs
    <3> QED
      BY <3>1 DEF NamespaceNext, TrashNode, RestoreNode, TouchNode, NfsRemove
  <2> QED
    BY <2>1, <2>2 DEF TreeStep
<1>2. OfTree /\ \E u \in Users : \E step, needs : Commits(u, step, needs)
  BY DEF TreeStep, Create, CreateNfs, RenameNfs, Trash, Restore, Touch, RemoveNfs
<1> QED
  BY <1>1, <1>2

LEMMA TreeStepLemma ==
  ASSUME AccessInv, TreeStep
  PROVE  AccessInv'
<1>1. NamespaceTyped /\ PolicyTyped
  BY TypedIs DEF AccessInv
<1>2. PICK u \in Users : \E step, needs : Commits(u, step, needs)
  BY TreeStepIs
<1>3. NamespaceTyped'
  BY <1>1, TreeStepIs, StepTyped
<1>4. namespaceGen' = namespaceGen + 1 /\ UNCHANGED <<rule, share, aclGen>>
  BY TreeStepIs DEF Advance, OfTree
<1>5. /\ rule' \subseteq PlacedRule /\ share' \subseteq Share /\ OnePerTarget(share')
      /\ aclGen' \in 0..MaxRules
  BY <1>1, <1>4 DEF PolicyTyped
<1> QED
  BY <1>2, <1>3, <1>4, <1>5, CommitStep

LEMMA PolicyStepTyped ==
  ASSUME AccessInv, OfPolicy
  PROVE  /\ NamespaceTyped' /\ aclGen' \in 0..MaxRules
         /\ namespaceGen' = namespaceGen /\ aclGen' = aclGen + 1
<1>1. NamespaceTyped /\ PolicyTyped
  BY TypedIs DEF AccessInv
<1>2. NamespaceTyped' /\ namespaceGen' = namespaceGen
  BY <1>1 DEF OfPolicy, NamespaceTyped, namespace
<1>3. aclGen' = aclGen + 1 /\ aclGen' \in 0..MaxRules
  BY <1>1, AccessAssumption DEF OfPolicy, PolicyTyped
<1> QED
  BY <1>2, <1>3

LEMMA ShareStep ==
  ASSUME AccessInv, NEW u \in Users,
         \/ \E new \in Shares : CreateShare(u, new)
         \/ \E old \in share : RevokeShare(u, old)
  PROVE  AccessInv'
<1>1. /\ PolicyTyped /\ OfPolicy /\ UNCHANGED rule /\ \E step, needs : Commits(u, step, needs)
  BY TypedIs DEF AccessInv, CreateShare, RevokeShare
<1>2. share' \subseteq Share /\ rule' \subseteq PlacedRule
  BY <1>1, AccessAssumption DEF PolicyTyped, CreateShare, RevokeShare
<1>3. OnePerTarget(share')
  BY <1>1 DEF PolicyTyped, OnePerTarget, CreateShare, RevokeShare
<1> QED
  BY <1>1, <1>2, <1>3, PolicyStepTyped, CommitStep

LEMMA ReplaceAclStep ==
  ASSUME AccessInv, NEW u \in Users, NEW by \in Replacements, ReplaceAcl(u, by)
  PROVE  AccessInv'
<1>1. /\ PolicyTyped /\ OfPolicy /\ UNCHANGED share /\ \E step, needs : Commits(u, step, needs)
  BY TypedIs DEF AccessInv, ReplaceAcl
<1>2. by.on \in Nodes /\ by.to \in Users \cup Groups /\ by.rules \in SUBSET Rule
  BY AccessAssumption
<1>3. {[on |-> by.on, to |-> by.to, rule |-> r] : r \in by.rules} \subseteq PlacedRule
  BY <1>2 DEF PlacedRule
<1>4. share' \subseteq Share /\ OnePerTarget(share') /\ rule' \subseteq PlacedRule
  BY <1>1, <1>3 DEF PolicyTyped, ReplaceAcl
<1> QED
  BY <1>1, <1>4, PolicyStepTyped, CommitStep

\* A change to user w: to the groups, with the generation of the user, or to the status.
UserChanges(w) ==
  /\ CreatorFanout(w)
  /\ \A v \in Users \ {w} : member'[v] = member[v] /\ memberGen'[v] = memberGen[v]
  /\ active' \ {w} = active \ {w}
  /\ memberGen'[w] >= memberGen[w]
  /\ memberGen'[w] = memberGen[w] => member'[w] = member[w]
  /\ member' \in [Users -> SUBSET Groups] /\ memberGen' \in [Users -> 0..MaxMember]
  /\ active' \in SUBSET Users
  /\ UNCHANGED <<namespace, rule, share, request>>

\* The change leaves to the user itself what the user held, active or not, as long as the
\* groups are the same.
LEMMA OwnHold ==
  ASSUME NEW w \in Users, NEW a, NEW n, UNCHANGED <<path, rule, share, member>>,
         active' \ {w} = active \ {w}, Holds(w, a, n)
  PROVE  Holds(w, a, n)'
<1> DEFINE A == active \cup {w}
<1>1. A' = A
  OBVIOUS
<1>2. \A b, v : /\ Independent(v, b, n)' <=> Independent(v, b, n)
                /\ Denied(v, b, n)' <=> Denied(v, b, n)
                /\ Givers(v, "tree", b, n)' = Givers(v, "tree", b, n)
  BY OwnGroups
<1> SUFFICES ASSUME NEW S \in SUBSET (A' \X Actions), Closed(active \cup {w}, n, S)'
             PROVE  <<w, a>> \in S
  BY DEF Holds
<1>3. \A v \in A' : \A b \in Actions :
        (\/ Independent(v, b, n)'
         \/ /\ ~Denied(v, b, n)'
            /\ \E g \in Givers(v, "tree", b, n)' : <<g, "SHARE">> \in S /\ <<g, b>> \in S)
        => <<v, b>> \in S
  BY DEF Closed
<1>4. Closed(A, n, S)
  BY <1>1, <1>2, <1>3 DEF Closed
<1> QED
  BY <1>1, <1>4 DEF Holds

LEMMA UserStep ==
  ASSUME AccessInv, NEW w \in Users, UserChanges(w)
  PROVE  AccessInv'
<1>1. TypeOK /\ NamespaceTyped /\ PolicyTyped
  BY TypedIs DEF AccessInv
<1>2. /\ UNCHANGED <<namespaceGen, path>> /\ request' = request
      /\ \A v \in Users : memberGen'[v] \in Nat /\ memberGen'[v] >= memberGen[v] /\ memberGen[v] \in Nat
  BY <1>1, AccessAssumption DEF UserChanges, namespace, PolicyTyped
<1>3. \/ /\ projection' = {} /\ aclGen < MaxRules /\ aclGen' = aclGen + 1
      \/ /\ ~\E s \in share : s.by = w /\ s.scope = "tree"
         /\ projection' = {row \in projection : row.at.user # w} /\ aclGen' = aclGen
  BY DEF UserChanges, CreatorFanout
<1>4. TypeOK'
  <2>1. aclGen' \in 0..MaxRules /\ projection' \subseteq [on: Nodes, at: Generation]
    BY <1>1, <1>3, AccessAssumption DEF PolicyTyped
  <2>2. PolicyTyped'
    BY <1>1, <2>1 DEF UserChanges, PolicyTyped
  <2>3. NamespaceTyped'
    BY <1>1 DEF UserChanges, NamespaceTyped, namespace
  <2> QED
    BY <2>2, <2>3, TypedNext
\* The user has given recursive shares: nothing that was granted is current.
<1>5. CASE projection' = {} /\ aclGen' = aclGen + 1
  <2>1. \A v \in Users : GrantInv(v)'
    BY <1>2, <1>5, Outdated
  <2>2. ProjectionInv'
    BY <1>5 DEF ProjectionInv
  <2> QED
    BY <1>4, <2>1, <2>2 DEF AccessInv
\* The user has given none: what others hold does not hang on the user.
<1>6. CASE /\ ~\E s \in share : s.by = w /\ s.scope = "tree"
           /\ projection' = {row \in projection : row.at.user # w} /\ aclGen' = aclGen
  <2>1. ASSUME NEW v \in Users, ~At(v, "idle"), request[v].at = Generations(v)', NEW need \in request[v].needs
        PROVE  Exists(need[2])' /\ Holds(v, need[1], need[2])'
    <3>1. GrantInv(v) /\ request[v].at \in Generation /\ need[1] \in Actions
      BY <1>1, <2>1, GrantTyped DEF AccessInv
    <3>2. request[v].at.member = memberGen'[v] /\ request[v].at.member <= memberGen[v]
      BY <2>1, <3>1 DEF GrantInv, Generations
    <3>3. memberGen'[v] = memberGen[v]
      BY <1>2, <3>2
    <3>4. Generations(v)' = Generations(v)
      BY <1>2, <1>6, <3>3 DEF Generations
    <3>5. Exists(need[2]) /\ Holds(v, need[1], need[2])
      BY <2>1, <3>1, <3>4 DEF GrantInv
    <3>6. CASE v = w
      <4>1. member' = member
        <5>1. \A x \in Users : member'[x] = member[x]
          BY <3>3, <3>6 DEF UserChanges
        <5> QED
          BY <1>1, <5>1 DEF UserChanges, PolicyTyped
      <4> QED
        BY <1>2, <3>5, <3>6, <4>1, OwnHold DEF UserChanges, Exists
    <3>7. CASE v # w
      <4>1. active \in SUBSET Users
        BY <1>1 DEF PolicyTyped
      <4> QED
        BY <1>2, <1>6, <3>1, <3>5, <3>7, <4>1, OthersHold DEF UserChanges, Exists
    <3> QED
      BY <3>6, <3>7
  <2>2. ASSUME NEW v \in Users, ~At(v, "idle")
        PROVE  /\ request[v].at.user = v /\ request[v].needs # {}
               /\ request[v].at.ns <= namespaceGen' /\ request[v].at.acl <= aclGen'
               /\ request[v].at.member <= memberGen'[v]
    <3>1. GrantInv(v) /\ request[v].at.member \in Nat
      BY <1>1, <2>2, GrantTyped, AccessAssumption DEF AccessInv, Generation
    <3> QED
      BY <1>2, <1>6, <2>2, <3>1 DEF GrantInv
  <2>3. \A v \in Users : GrantInv(v)'
    BY <1>2, <2>1, <2>2 DEF GrantInv, At
  <2>4. ProjectionInv'
    <3> SUFFICES ASSUME NEW row \in projection'
                 PROVE  row.at.user \in active' /\ row.at = Generations(row.at.user)'
      BY DEF ProjectionInv
    <3>1. row \in projection /\ row.at.user # w
      BY <1>6
    <3>2. row.at.user \in active /\ row.at = Generations(row.at.user) /\ row.at.user \in Users
      BY <1>1, <3>1 DEF AccessInv, ProjectionInv, PolicyTyped
    <3> QED
      BY <1>2, <1>6, <3>1, <3>2 DEF UserChanges, Generations
  <2> QED
    BY <1>4, <2>3, <2>4 DEF AccessInv
<1> QED
  BY <1>3, <1>5, <1>6

LEMMA ChangeMembershipStep ==
  ASSUME AccessInv, NEW w \in Users, NEW g \in Groups, ChangeMembership(w, g)
  PROVE  AccessInv'
<1>1. PolicyTyped
  BY TypedIs DEF AccessInv
<1>2. /\ memberGen' = [memberGen EXCEPT ![w] = memberGen[w] + 1] /\ memberGen[w] \in 0..MaxMember
      /\ memberGen[w] < MaxMember
  BY <1>1 DEF ChangeMembership, PolicyTyped
<1>3. /\ memberGen' \in [Users -> 0..MaxMember] /\ memberGen'[w] = memberGen[w] + 1
      /\ \A v \in Users \ {w} : memberGen'[v] = memberGen[v]
  BY <1>1, <1>2, AccessAssumption DEF PolicyTyped
<1>4. member' \in [Users -> SUBSET Groups] /\ \A v \in Users \ {w} : member'[v] = member[v]
  BY <1>1 DEF ChangeMembership, PolicyTyped
<1>5. memberGen'[w] >= memberGen[w] /\ memberGen'[w] # memberGen[w]
  BY <1>2, <1>3, AccessAssumption
<1>6. UserChanges(w)
  BY <1>1, <1>3, <1>4, <1>5 DEF ChangeMembership, UserChanges, PolicyTyped
<1> QED
  BY <1>6, UserStep

LEMMA ChangeStatusStep ==
  ASSUME AccessInv, NEW w \in Users, ChangeStatus(w)
  PROVE  AccessInv'
<1>1. PolicyTyped /\ memberGen[w] \in Nat
  BY TypedIs, AccessAssumption DEF AccessInv, PolicyTyped
<1>2. active' \in SUBSET Users /\ active' \ {w} = active \ {w}
  BY <1>1 DEF ChangeStatus, PolicyTyped
<1>3. UserChanges(w)
  BY <1>1, <1>2 DEF ChangeStatus, UserChanges, PolicyTyped
<1> QED
  BY <1>3, UserStep

LEMMA InitLemma == Init => AccessInv
<1> SUFFICES ASSUME Init PROVE AccessInv
  OBVIOUS
<1>1. NamespaceTyped
  BY NamespaceAssumption DEF Init, NamespaceInit, NamespaceTyped
<1>2. PolicyTyped
  BY AccessAssumption DEF Init, PolicyTyped, OnePerTarget
<1>3. TypeOK
  BY <1>1, <1>2, TypedIs
<1>4. \A u \in Users : GrantInv(u)
  BY DEF Init, GrantInv, At, Idle
<1> QED
  BY <1>3, <1>4 DEF AccessInv, ProjectionInv, Init

LEMMA NextLemma == AccessInv /\ [Next]_vars => AccessInv'
<1> SUFFICES ASSUME AccessInv, [Next]_vars PROVE AccessInv'
  OBVIOUS
<1>1. ASSUME NEW u \in Users, \E needs \in Requests : Authorize(u, needs) PROVE AccessInv'
  BY <1>1, AuthorizeStep
<1>2. ASSUME NEW u \in Users, Publish(u) \/ EndSession(u) PROVE AccessInv'
  BY <1>2, PublishStep, EndSessionStep
<1>3. ASSUME TreeStep PROVE AccessInv'
  BY <1>3, TreeStepLemma
<1>4. ASSUME NEW u \in Users,
             (\E new \in Shares : CreateShare(u, new)) \/ (\E old \in share : RevokeShare(u, old))
      PROVE  AccessInv'
  BY <1>4, ShareStep
<1>5. ASSUME NEW u \in Users, \E by \in Replacements : ReplaceAcl(u, by) PROVE AccessInv'
  BY <1>5, ReplaceAclStep
<1>6. ASSUME NEW u \in Users, (\E g \in Groups : ChangeMembership(u, g)) \/ ChangeStatus(u)
      PROVE  AccessInv'
  BY <1>6, ChangeMembershipStep, ChangeStatusStep
<1>7. CASE UNCHANGED vars
  <2>1. UNCHANGED <<namespace, policy, aclGen, memberGen, projection, request>>
    BY <1>7 DEF vars, namespace, policy
  <2>2. TypeOK'
    BY <2>1 DEF AccessInv, TypeOK, NamespaceTyped, namespace, policy
  <2>3. \A u \in Users : GrantInv(u)'
    BY <2>1, Kept
  <2>4. ProjectionInv'
    BY <2>1 DEF AccessInv, ProjectionInv, Generations, namespace, policy
  <2> QED
    BY <2>2, <2>3, <2>4 DEF AccessInv
<1> QED
  BY <1>1, <1>2, <1>3, <1>4, <1>5, <1>6, <1>7 DEF Next, TreeStep

\* Grants and the projection are what AccessInv says, for any number of users, groups,
\* shares, rules and requests.
THEOREM AccessInductive == Spec => []AccessInv
<1> QED
  BY InitLemma, NextLemma, PTL DEF Spec

\* Every row, grant and projection of the model has its type in every state the program
\* reaches, and no user has two active shares of a node.
THEOREM AccessTypeOK == Spec => []TypeOK
<1>1. AccessInv => TypeOK
  BY DEF AccessInv
<1> QED
  BY <1>1, AccessInductive, PTL

\* What an active user holds is what the evaluation of a new request would find.
LEMMA HoldsMay ==
  ASSUME AccessInv, NEW u \in Users, ~At(u, "idle"), Fresh(u)
  PROVE  May(u, request[u].needs)
<1>1. u \in active /\ active \in SUBSET Users /\ request[u].at = Generations(u)
  BY TypedIs DEF AccessInv, PolicyTyped, Fresh
<1>2. request[u].needs \in SUBSET (Actions \X Nodes)
  BY GrantTyped DEF AccessInv
<1>3. ASSUME NEW need \in request[u].needs
      PROVE  Exists(need[2]) /\ <<u, need[1]>> \in Proven(need[2])
  <2>1. Exists(need[2]) /\ Holds(u, need[1], need[2])
    BY <1>1, <1>3 DEF AccessInv, GrantInv
  <2>2. need[1] \in Actions
    BY <1>2
  <2> QED
    BY <1>1, <2>1, <2>2, ProvenIs
<1> QED
  BY <1>1, <1>3 DEF May

\* While the generations that lock_authorization_fence compares are those of the snapshot,
\* a second evaluation would grant the request again, whatever was renamed, shared, revoked
\* or replaced in between and whoever joined or left a group or was deactivated.
THEOREM FreshGrantsAlwaysHold == Spec => []FreshGrantsHold
<1>1. AccessInv => FreshGrantsHold
  BY HoldsMay DEF FreshGrantsHold, InProgress
<1> QED
  BY <1>1, AccessInductive, PTL

\* A capability that authorization_generations_match accepts is one that its user would be
\* given now.
THEOREM HonouredCapabilitiesAlwaysHold == Spec => []HonouredCapabilitiesHold
<1>1. ASSUME AccessInv, NEW u \in Users, Honours(u) PROVE May(u, request[u].needs)
  <2>1. ~At(u, "idle") /\ GrantInv(u)
    BY <1>1 DEF AccessInv, Honours, At
  <2>2. PICK need \in request[u].needs : [on |-> need[2], at |-> request[u].at] \in projection
    BY <1>1, <2>1 DEF GrantInv, Honours
  <2>3. Fresh(u)
    BY <1>1, <2>1, <2>2 DEF AccessInv, ProjectionInv, GrantInv, Fresh
  <2> QED
    BY <1>1, <2>1, <2>3, HoldsMay
<1>2. AccessInv => HonouredCapabilitiesHold
  BY <1>1 DEF HonouredCapabilitiesHold
<1> QED
  BY <1>2, AccessInductive, PTL

\* The users of a ring whose recursive shares all come from within it, and who hold nothing
\* independently, hold nothing (evaluate_recursive_direct_shares).
THEOREM RootlessRingsNeverHold == Spec => []RootlessRingsHoldNothing
<1>1. ASSUME AccessInv, NEW n \in Nodes, NEW a \in Actions,
             NEW ring \in SUBSET {u \in Users : ~Independent(u, a, n)},
             \A u \in ring : Givers(u, "tree", a, n) \subseteq ring,
             NEW u \in ring
      PROVE  <<u, a>> \notin Proven(n)
  <2> DEFINE S == {k \in Keys : ~(k[2] = a /\ k[1] \in ring)}
  <2>1. active \in SUBSET Users
    BY <1>1, TypedIs DEF AccessInv, PolicyTyped
  <2>2. ASSUME NEW v \in active, NEW b \in Actions,
               \/ Independent(v, b, n)
               \/ ~Denied(v, b, n) /\ \E g \in Givers(v, "tree", b, n) : <<g, "SHARE">> \in S /\ <<g, b>> \in S
        PROVE  <<v, b>> \in S
    <3>1. <<v, b>> \in Keys
      BY DEF Keys
    <3>2. SUFFICES ASSUME b = a, v \in ring PROVE FALSE
      BY <3>1
    <3>3. PICK g \in Givers(v, "tree", a, n) : <<g, a>> \in S
      BY <1>1, <2>2, <3>2
    <3>4. g \in ring
      BY <1>1, <3>2, <3>3
    <3> QED
      BY <3>3, <3>4
  <2>3. S \in SUBSET Keys /\ <<u, a>> \notin S
    BY <1>1
  <2> HIDE DEF S
  <2>4. Closed(active, n, S)
    BY <2>2 DEF Closed
  <2> QED
    BY <2>1, <2>3, <2>4, ProvenLeast
<1>2. AccessInv => RootlessRingsHoldNothing
  BY <1>1 DEF RootlessRingsHoldNothing
<1> QED
  BY <1>2, AccessInductive, PTL

\* No mutation commits without authority: at the moment of its transaction, its user would
\* be granted every action that it was asked for.
THEOREM CommitsAuthorized ==
  Spec => [][\A u \in Users, step \in {"granted", "bound"}, needs \in SUBSET (Actions \X Nodes) :
               Commits(u, step, needs) => May(u, needs)]_vars
<1>1. ASSUME AccessInv, NEW u \in Users, NEW step \in {"granted", "bound"},
             NEW needs \in SUBSET (Actions \X Nodes), Commits(u, step, needs)
      PROVE  May(u, needs)
  <2>1. ~At(u, "idle") /\ Fresh(u) /\ needs \subseteq request[u].needs
    BY <1>1 DEF Commits, At
  <2>2. May(u, request[u].needs)
    BY <1>1, <2>1, HoldsMay
  <2> QED
    BY <2>1, <2>2 DEF May
<1>2. AccessInv /\ [Next]_vars =>
        [\A u \in Users, step \in {"granted", "bound"}, needs \in SUBSET (Actions \X Nodes) :
           Commits(u, step, needs) => May(u, needs)]_vars
  BY <1>1
<1> QED
  BY <1>2, AccessInductive, PTL DEF Spec

-----------------------------------------------------------------------------
(* The tree *)

\* Whatever the requests of a drive do, they do to its tree what Namespace allows.
THEOREM AccessImplementsNamespace == Spec => NamespaceSpec
<1>1. Init => NamespaceInit
  BY DEF Init
<1>2. Next => [NamespaceNext]_namespace
  <2> SUFFICES ASSUME Next PROVE [NamespaceNext]_namespace
    OBVIOUS
  <2>1. CASE TreeStep
    BY <2>1, TreeStepIs
  <2>2. CASE ~TreeStep
    <3>1. UNCHANGED namespace
      BY <2>2 DEF Next, TreeStep, Authorize, Publish, EndSession, CreateShare, RevokeShare, ReplaceAcl,
                  OfPolicy, ChangeMembership, ChangeStatus
    <3> QED
      BY <3>1
  <2> QED
    BY <2>1, <2>2
<1>3. UNCHANGED vars => UNCHANGED namespace
  BY DEF vars, namespace
<1>4. [Next]_vars => [NamespaceNext]_namespace
  BY <1>2, <1>3
<1> QED
  BY <1>1, <1>4, PTL DEF Spec, NamespaceSpec

\* The ancestry rows by which rules and shares reach further down are those of the tree,
\* and nothing is stranded in the trash, under every interleaving of requests.
THEOREM AccessTreeSound == Spec => [](AncestryExact /\ NoCycle /\ TrashRooted)
<1> QED
  BY AccessImplementsNamespace, AncestryAlwaysExact, NeverCycle, TrashAlwaysRooted, PTL

============================================================================
