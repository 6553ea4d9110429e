---------------------------- MODULE DriveAccess ----------------------------
(***************************************************************************)
(* Who may change a drive, and when that is decided.  A request takes one  *)
(* snapshot of the tree, the rules, the shares and the groups, evaluates   *)
(* it, and later changes the drive in a transaction that compares the      *)
(* generations of the snapshot with the current ones.  In between, other   *)
(* requests rename and trash nodes, share, revoke and replace rules, and   *)
(* users join and leave groups or are deactivated.  A recursive share is   *)
(* worth what its creator holds at that moment, so a change to one user    *)
(* takes authority from others.                                            *)
(*                                                                         *)
(* Of the four generations that a fence compares the one of the resource's *)
(* rules is left out: it never advances without the drive's.  "USE" stands *)
(* for every action on content and names that an owner holds implicitly.   *)
(***************************************************************************)
EXTENDS Namespace, FiniteSets

CONSTANTS
  Users, Groups,
  Owner,         \* the drive belongs to this user
  InitialRules,  \* the rules at the beginning
  InitialMember, \* and the groups of every user
  Shares,        \* the shares that are given
  Replacements,  \* the replacements of a principal's rules on a node
  Requests,      \* what the requests need: sets of <<action, node>>
  MaxRules,      \* bounds the drive's ACL generation
  MaxChanges,    \* bounds the changes of the drive
  MaxMember,     \* bounds the membership generation of a user
  MaxChanged,    \* bounds the users that are inactive or have changed groups
  MaxRequests    \* requests in progress at a time

Actions == {"USE", "SHARE", "MANAGE_ACL"}
Presets == [contributor |-> {"USE"}, manager |-> Actions]
Rule == [action: Actions, effect: {"allow", "deny"}, scope: {"self", "children", "tree"}]
PlacedRule == [on: Nodes, to: Users \cup Groups, rule: Rule]
Share ==
  [on: Nodes, to: Users, by: Users, preset: DOMAIN Presets, scope: {"self", "tree"}]

ASSUME AccessAssumption ==
  /\ Owner \in Users /\ Users \cap Groups = {} /\ IsFiniteSet(Users)
  /\ InitialRules \subseteq PlacedRule /\ InitialMember \in [Users -> SUBSET Groups]
  /\ Shares \subseteq Share
  /\ Replacements \subseteq [on: Nodes, to: Users \cup Groups, rules: SUBSET Rule]
  /\ Requests \subseteq SUBSET (Actions \X Nodes) /\ {} \notin Requests
  /\ MaxRules \in Nat /\ MaxMember \in Nat /\ MaxChanged \in Nat
  /\ MaxChanges \in Nat /\ MaxRequests \in Nat

VARIABLES
  rule,        \* acl_entries that an ACL replacement wrote, [on, to, rule]
  share,       \* active direct_shares and their rows, [on, to, by, preset, scope]
  member,      \* the groups of a user
  active,      \* users that are not disabled
  aclGen,      \* drives.acl_generation
  memberGen,   \* principals.generation
  projection,  \* authorization_generations
  request      \* the requests in progress, one for a user

policy == <<rule, share, member, active>>
vars == <<parent, path, trash, namespaceGen, rule, share, member, active, aclGen,
          memberGen, projection, request>>

Generations(u) == [user |-> u, ns |-> namespaceGen, acl |-> aclGen, member |-> memberGen[u]]
Generation ==
  [user: Users, ns: 0..MaxNamespace, acl: 0..MaxRules, member: 0..MaxMember]

Idle == [step |-> "idle", needs |-> {}]

\* direct_shares_active_target: a node has one active share for a user, so that what
\* a share gives is revoked with it.
OnePerTarget(shares) == \A s, t \in shares : s.on = t.on /\ s.to = t.to => s = t

\* The rows, grants and projections have their types and a share its unique key.
TypeOK ==
  /\ NamespaceTyped
  /\ rule \subseteq PlacedRule /\ share \subseteq Share /\ OnePerTarget(share)
  /\ member \in [Users -> SUBSET Groups]
  /\ active \in SUBSET Users
  /\ aclGen \in 0..MaxRules
  /\ memberGen \in [Users -> 0..MaxMember]
  /\ projection \subseteq [on: Nodes, at: Generation]
  /\ request \in [Users -> [step: {"granted", "bound"},
                                needs: SUBSET (Actions \X Nodes), at: Generation]
                                 \cup {Idle}]

Init ==
  /\ NamespaceInit
  /\ rule = InitialRules /\ share = {}
  /\ member = InitialMember
  /\ active = Users
  /\ aclGen = 0
  /\ memberGen = [u \in Users |-> 0]
  /\ projection = {}
  /\ request = [u \in Users |-> Idle]

-----------------------------------------------------------------------------
(* The evaluation of a snapshot *)

\* A row applies to its own resource, and further down as far as its scope reaches.
Applies(on, scope, n) ==
  \E row \in path[n] :
    row[1] = on /\ (row[2] = 0 \/ scope = "tree" \/ (scope = "children" /\ row[2] = 1))

Subjects(u) == {u} \cup member[u]

HasRule(u, effect, a, n) ==
  \E r \in rule :
    /\ r.to \in Subjects(u) /\ r.rule.effect = effect /\ r.rule.action = a
    /\ Applies(r.on, r.rule.scope, n)

\* Whoever gave the user this action here through a share.
Givers(u, scope, a, n) ==
  {s.by : s \in {t \in share : /\ t.to = u /\ t.scope = scope /\ a \in Presets[t.preset]
                              /\ Applies(t.on, scope, n)}}

\* An applicable deny defeats every allow, except those of the owner.
Denied(u, a, n) == u # Owner /\ HasRule(u, "deny", a, n)

\* Authority that hangs on nobody else: the owner's, a rule's, that of a share of
\* this very node.  The owner is a user, organization or service: implicit_owner_reason
\* also lets the managers of a group own its drive, and withholds from every owner the
\* action BYPASS_REPOSITORY_RULES, which "USE" does not stand for.
Independent(u, a, n) ==
  \/ u = Owner
  \/ ~Denied(u, a, n) /\ (HasRule(u, "allow", a, n) \/ Givers(u, "self", a, n) # {})

Keys == active \X Actions
Roots(n) == {k \in Keys : Independent(k[1], k[2], n)}
Candidates(n) == {k \in Keys \ Roots(n) : ~Denied(k[1], k[2], n)}

\* A recursive share counts once its giver is proven to hold both SHARE and the action.
Gained(n, held) ==
  {k \in Candidates(n) :
     \E v \in Givers(k[1], "tree", k[2], n) : {<<v, "SHARE">>, <<v, k[2]>>} \subseteq held}

\* Mutation: every candidate counts until one of its givers is known to hold nothing.
ProvenUnlessRefuted(n) ==
  LET Round[i \in 0..Cardinality(Keys)] ==
        IF i = 0 THEN Roots(n) \cup Candidates(n) ELSE Roots(n) \cup Gained(n, Round[i - 1])
  IN Round[Cardinality(Candidates(n))]

\* What every user may do with a node, as the least fixed point.
Proven(n) ==
  LET Round[i \in 0..Cardinality(Keys)] ==
        IF i = 0 THEN Roots(n) ELSE Round[i - 1] \cup Gained(n, Round[i - 1])
  IN Round[Cardinality(Candidates(n))]

\* Whether a user holds each of these actions on its node.
May(u, needs) ==
  u \in active /\ \A need \in needs : Exists(need[2]) /\ <<u, need[1]>> \in Proven(need[2])

-----------------------------------------------------------------------------
(* A request *)

At(u, step) == request[u].step = step
InProgress == {u \in Users : ~At(u, "idle")}

\* authorization_snapshot reads everything in one repeatable-read transaction.  A
\* request that needs several actions takes a snapshot for each and goes on only if
\* all have the same generations.  What the evaluation refuses goes no further.
Authorize(u, needs) ==
  /\ At(u, "idle") /\ Cardinality(InProgress) < MaxRequests
  /\ May(u, needs)
  /\ request' = [request EXCEPT ![u] = [step |-> "granted", needs |-> needs,
                                        at |-> Generations(u)]]
  /\ UNCHANGED <<namespace, policy, aclGen, memberGen, projection>>

\* lock_authorization_fence: the user is active and the generations of the snapshot
\* are still the current ones.
Fresh(u) == u \in active /\ request[u].at = Generations(u)

\* The row of a request, in the place of its user's row for the node.
Projected(u, n) ==
  {row \in projection : row.on # n \/ row.at.user # u} \cup {[on |-> n, at |-> request[u].at]}

\* Mutation: the generations of the snapshot are projected as they are.
PublishUnchecked(u) ==
  /\ At(u, "granted")
  /\ request' = [request EXCEPT ![u].step = "bound"]
  /\ \E a \in Actions, n \in Nodes : <<a, n>> \in request[u].needs /\ projection' = Projected(u, n)
  /\ UNCHANGED <<namespace, policy, aclGen, memberGen>>

\* publish_authorization_generations: the grant of a request through the API, which
\* is for one node, is bound to its session, unless something has changed.
Publish(u) ==
  /\ At(u, "granted") /\ Fresh(u)
  /\ request' = [request EXCEPT ![u].step = "bound"]
  /\ \E n \in Nodes : request[u].needs \subseteq Actions \X {n} /\ projection' = Projected(u, n)
  /\ UNCHANGED <<namespace, policy, aclGen, memberGen>>

\* authorization_generations_match: a storage worker accepts the capability of a
\* request while the projection holds the generations that it was issued for.
Honours(u) ==
  /\ At(u, "bound")
  /\ \A need \in request[u].needs : [on |-> need[2], at |-> request[u].at] \in projection

\* A request is refused or fails and its user logs out: a trigger on the session
\* removes what the session projected.
EndSession(u) ==
  /\ ~At(u, "idle")
  /\ request' = [request EXCEPT ![u] = Idle]
  /\ projection' = {row \in projection : row.at.user # u}
  /\ UNCHANGED <<namespace, policy, aclGen, memberGen>>

\* The transaction of a mutation for which these actions were asked.  The triggers
\* on the drive, its nodes and its rules empty the projection.
Commits(u, step, needs) ==
  /\ At(u, step) /\ needs \subseteq request[u].needs /\ Fresh(u)
  /\ namespaceGen + aclGen < MaxChanges
  /\ request' = [request EXCEPT ![u] = Idle]
  /\ projection' = {}
  /\ UNCHANGED <<memberGen, member, active>>

OfTree == UNCHANGED <<rule, share, aclGen>>
OfPolicy == UNCHANGED namespace /\ aclGen < MaxRules /\ aclGen' = aclGen + 1
Use(n) == {<<"USE", n>>}

Create(u, n, p) == Commits(u, "bound", Use(p)) /\ CreateDirectory(n, p) /\ OfTree
Trash(u, n) == Commits(u, "bound", Use(n)) /\ TrashNode(n) /\ OfTree
Restore(u, n) == Commits(u, "bound", Use(n)) /\ RestoreNode(n) /\ OfTree
Touch(u, n) == Commits(u, "bound", Use(n)) /\ TouchNode(n) /\ OfTree

\* mutate_nfs_namespace compares the same generations, without a projection.
CreateNfs(u, n, p) == Commits(u, "granted", Use(p)) /\ NfsCreate(n, p) /\ OfTree
RemoveNfs(u, n) ==
  Commits(u, "granted", Use(n) \cup Use(parent[n])) /\ NfsRemove(n) /\ OfTree
RenameNfs(u, n, target) ==
  /\ Commits(u, "granted", Use(n) \cup Use(parent[n]) \cup Use(target))
  /\ NfsRename(n, target) /\ OfTree

\* Mutation: whoever may share gives a share, also to a user who has one of the node.
CreateShareAgain(u, new) ==
  /\ Commits(u, "bound", ({"SHARE"} \cup Presets[new.preset]) \X {new.on}) /\ OfPolicy
  /\ new.by = u /\ new.to \in active \ {u}
  /\ share' = share \cup {new}
  /\ UNCHANGED rule

\* create_direct_share_tx: one active share of a node for a user, never for oneself.
\* Whoever gives a share holds SHARE and all that it gives.
CreateShare(u, new) ==
  /\ Commits(u, "bound", ({"SHARE"} \cup Presets[new.preset]) \X {new.on}) /\ OfPolicy
  /\ new.by = u /\ new.to \in active \ {u}
  /\ \A s \in share : s.on # new.on \/ s.to # new.to
  /\ share' = share \cup {new}
  /\ UNCHANGED rule

\* revoke_direct_share: by anyone who may share the node, with all its rows.
RevokeShare(u, old) ==
  /\ Commits(u, "bound", {<<"SHARE", old.on>>}) /\ OfPolicy
  /\ share' = share \ {old}
  /\ UNCHANGED rule

\* replace_advanced_acl_entries: the rules of one principal on one node, by someone
\* who holds every action that the replacement writes or removes.  The owner has no
\* rules, and a replacement of nothing by nothing changes nothing.
ReplaceAcl(u, by) ==
  LET old == {r \in rule : r.on = by.on /\ r.to = by.to}
      new == {[on |-> by.on, to |-> by.to, rule |-> r] : r \in by.rules}
  IN /\ Commits(u, "bound", ({"MANAGE_ACL"} \cup {r.rule.action : r \in old \cup new})
                              \X {by.on})
     /\ OfPolicy
     /\ by.to \in (active \cup Groups) \ {Owner}
     /\ old \cup new # {}
     /\ rule' = (rule \ old) \cup new
     /\ UNCHANGED share

-----------------------------------------------------------------------------
(* Changes to users *)

\* Mutation: only the projections of the changed user are invalidated.
OwnRows(u) ==
  /\ projection' = {row \in projection : row.at.user # u}
  /\ UNCHANGED aclGen

\* The triggers of 000011: a user who has created recursive shares takes the ACL
\* generation of their drives along, as others' authority hangs on them.
CreatorFanout(u) ==
  IF \E s \in share : s.by = u /\ s.scope = "tree"
  THEN projection' = {} /\ aclGen < MaxRules /\ aclGen' = aclGen + 1
  ELSE projection' = {row \in projection : row.at.user # u} /\ UNCHANGED aclGen

Changeable(u) ==
  Cardinality({u} \cup (Users \ active) \cup {v \in Users : memberGen[v] > 0}) <= MaxChanged

\* A user joins or leaves a group.
ChangeMembership(u, g) ==
  /\ Changeable(u) /\ memberGen[u] < MaxMember
  /\ member' = [member EXCEPT ![u] = IF g \in @ THEN @ \ {g} ELSE @ \cup {g}]
  /\ memberGen' = [memberGen EXCEPT ![u] = @ + 1]
  /\ CreatorFanout(u)
  /\ UNCHANGED <<namespace, rule, share, active, request>>

\* A user is deactivated, or active again.  The generation of the user stays.
ChangeStatus(u) ==
  /\ Changeable(u)
  /\ active' = IF u \in active THEN active \ {u} ELSE active \cup {u}
  /\ CreatorFanout(u)
  /\ UNCHANGED <<namespace, rule, share, member, memberGen, request>>

Next ==
  \E u \in Users :
    \/ \E needs \in Requests : Authorize(u, needs)
    \/ Publish(u) \/ EndSession(u)
    \/ \E n, p \in Nodes : Create(u, n, p) \/ CreateNfs(u, n, p) \/ RenameNfs(u, n, p)
    \/ \E n \in Nodes : Trash(u, n) \/ Restore(u, n) \/ Touch(u, n) \/ RemoveNfs(u, n)
    \/ \E new \in Shares : CreateShare(u, new)
    \/ \E old \in share : RevokeShare(u, old)
    \/ \E by \in Replacements : ReplaceAcl(u, by)
    \/ \E g \in Groups : ChangeMembership(u, g)
    \/ ChangeStatus(u)

Spec == Init /\ [][Next]_vars

-----------------------------------------------------------------------------
(* Properties *)

\* A grant whose generations are still current is still right: whatever happened
\* between the snapshot and the transaction - a rename above the node, a revocation
\* two givers up, a giver leaving a group - the comparison in lock_authorization_fence
\* stands for a second evaluation, and no mutation commits without authority.
FreshGrantsHold == \A u \in InProgress : Fresh(u) => May(u, request[u].needs)

\* A capability that a storage worker honours (authorization_generations_match) is
\* one that its user would be given now: no row of the projection outlives a change
\* that takes the authority away, and none is written after it.
HonouredCapabilitiesHold == \A u \in Users : Honours(u) => May(u, request[u].needs)

\* A ring of users who have only one another's recursive shares holds nothing
\* (evaluate_recursive_direct_shares): once the root of their authority is gone, no
\* order of shares among them keeps it alive.
RootlessRingsHoldNothing ==
  \A n \in {d \in Nodes : Exists(d)} :
    LET proven == Proven(n)
    IN \A a \in Actions : \A ring \in SUBSET {u \in Users : ~Independent(u, a, n)} :
         (\A u \in ring : Givers(u, "tree", a, n) \subseteq ring)
           => \A u \in ring : <<u, a>> \notin proven

=============================================================================
