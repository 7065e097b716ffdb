----------------------------- MODULE MemberAccess -----------------------------
(***************************************************************************)
(* Project members, the platform roles they are granted for it, and the    *)
(* tasks they are assigned.  A membership of any project can need a role   *)
(* of the user; sg_managed_user_role marks the relations Shot Grid created *)
(* and may take back.  Member operations lock the user, then the project;  *)
(* administration of users locks the user only, task operations the        *)
(* project only, and the deletion of a project locks project before users. *)
(* (The binding is active on PostgreSQL, which Shot Grid requires.)        *)
(***************************************************************************)
EXTENDS Naturals, FiniteSets

CONSTANTS
  Users,       \* user ids: their rows are locked in this order
  Projects,
  Txns,        \* transactions that may be open at once
  MaxTxns,     \* bound: requests that hold locks over several steps
  Nobody,
  Idle

Roles == {"director", "creator"}

\* The requests that hold rows over several steps.
MemberRequests ==
  [op : {"set", "remove", "create", "purge", "reconcile"}, project : Projects,
   users : SUBSET Users, roles : UNION {[set -> SUBSET Roles] : set \in SUBSET Users},
   pc : {"lock", "commit"},
   plan : [grants : SUBSET (Users \X Roles), revokes : SUBSET (Users \X Roles)]]

ASSUME MemberAssumption ==
  /\ Users \subseteq Nat /\ \E u \in Users : \A v \in Users : u <= v
  /\ Projects # {} /\ MaxTxns \in Nat /\ Nobody \notin Users /\ Idle \notin Txns \cup MemberRequests

VARIABLES
  live,       \* projects that exist
  owner,      \* sg_project.creator_user_id
  member,     \* roles of each user in each project, {} is no active member
  relation,   \* sys_user_role, of the two dedicated roles
  managed,    \* sg_managed_user_role
  given,      \* relations an administrator created and has not removed
  deleted,    \* sys_user.del_flag
  assigned,   \* a task of each project: its assignee and its state
  txn,        \* open transactions
  held,       \* which transaction holds a row
  begun

memberVars == <<live, owner, member, relation, managed, given, deleted, assigned, txn, held, begun>>

UserRow(u) == <<"user", u>>
ProjectRow(p) == <<"project", p>>
LockRows == {UserRow(u) : u \in Users} \cup {ProjectRow(p) : p \in Projects}
NoTask == [who |-> Nobody, state |-> "none"]
NoPlan == [grants |-> {}, revokes |-> {}]
NoRoles == [u \in {} |-> {}]

\* has_active_tasks: completed tasks do not hold their assignee.
ActiveTask(p) == assigned[p].state = "unfinished"
Assignable(p, u) == "creator" \in member[p][u] /\ u \notin deleted
DirectorsOf(p) == {u \in Users : "director" \in member[p][u]}
RolesIn(p, u) == IF p \in live THEN member[p][u] ELSE {}
Needed(u) == UNION {RolesIn(p, u) : p \in Projects}

\* The first user has created every project; the grants are those of a
\* reconciliation, the second may already be a member of some.
MemberInit ==
  \E roles \in [Projects -> [Users -> SUBSET Roles]] :
   LET first == CHOOSE u \in Users : \A v \in Users : u <= v IN
    /\ live = Projects
    /\ owner = [p \in Projects |-> first]
    /\ \A p \in Projects : roles[p][first] = {"director"}
    /\ member = roles
    /\ relation = {y \in Users \X Roles : \E p \in Projects : y[2] \in roles[p][y[1]]}
    /\ managed = relation /\ given = {} /\ deleted = {}
    /\ assigned = [p \in Projects |-> NoTask]
    /\ txn = [t \in Txns |-> Idle] /\ held = [r \in LockRows |-> Idle]
    /\ begun = 0

-----------------------------------------------------------------------------
(* Requests that hold several rows.                                        *)

NeedsProject(x) == x.op \in {"set", "remove", "purge"}

\* The rows a transaction has still to lock, and the one it wants next: users in
\* the order of their ids, before the project.  The users of a deletion are the
\* members it finds under the lock of the project; reconciliation takes the
\* users it listed before.
UsersLeft(t) == {u \in txn[t].users : held[UserRow(u)] # t}
ProjectLeft(t) == NeedsProject(txn[t]) /\ held[ProjectRow(txn[t].project)] # t
AllLocked(t) == UsersLeft(t) = {} /\ ~ProjectLeft(t)
Wants(t, r) ==
  \/ \E u \in UsersLeft(t) : r = UserRow(u) /\ \A v \in UsersLeft(t) : u <= v
  \/ UsersLeft(t) = {} /\ ProjectLeft(t) /\ r = ProjectRow(txn[t].project)

Begin(t, x) ==
  /\ txn[t] = Idle /\ begun < MaxTxns
  /\ txn' = [txn EXCEPT ![t] = x]
  /\ begun' = begun + 1
  /\ UNCHANGED <<live, owner, member, relation, managed, given, deleted, assigned, held>>

Request(op, p, users, roles) ==
  [op |-> op, project |-> p, users |-> users, roles |-> roles,
   pc |-> "lock", plan |-> NoPlan]

\* add_member and update_member, remove_member.
BeginMember(t, p, u) ==
  /\ p \in live
  /\ \/ \E roles \in SUBSET Roles \ {{}} : Begin(t, Request("set", p, {u}, [v \in {u} |-> roles]))
     \/ Begin(t, Request("remove", p, {u}, [v \in {u} |-> {}]))
\* create_project: its creator becomes director, another user what is chosen.
BeginCreate(t, p, u, v, roles) ==
  /\ p \notin live /\ u # v
  /\ \A o \in Txns : txn[o] # Idle => txn[o].project # p \/ txn[o].op = "reconcile"
  /\ Begin(t, Request("create", p, {u, v}, [w \in {u, v} |-> IF w = u THEN {"director"} ELSE roles]))
BeginPurge(t, p) == p \in live /\ Begin(t, Request("purge", p, {}, NoRoles))
\* list_reconciliation_user_ids reads without locks.
BeginReconcile(t) ==
  Begin(t, Request("reconcile", CHOOSE p \in Projects : TRUE,
                   {u \in Users : Needed(u) # {} \/ \E r \in Roles : <<u, r>> \in managed}, NoRoles))

Lock(t, r) ==
  LET x == txn[t] IN
  /\ x # Idle /\ x.pc = "lock"
  /\ Wants(t, r)
  /\ held[r] = Idle
  /\ held' = [held EXCEPT ![r] = t]
  /\ txn' = [txn EXCEPT ![t].users =
       IF x.op = "purge" /\ r = ProjectRow(x.project)
       THEN {u \in Users : RolesIn(x.project, u) # {}} ELSE @]
  /\ UNCHANGED <<live, owner, member, relation, managed, given, deleted, assigned, begun>>

Over(t) ==
  /\ txn' = [txn EXCEPT ![t] = Idle]
  /\ held' = [r \in LockRows |-> IF held[r] = t THEN Idle ELSE held[r]]

-----------------------------------------------------------------------------
(* What a request finds once it holds its rows.                            *)

LastDirector(p, u) == DirectorsOf(p) \subseteq {u}

KeepsDirector(p, u, roles) ==
  /\ owner[p] = u => "director" \in roles
  /\ "director" \in member[p][u] /\ "director" \notin roles => ~LastDirector(p, u)
KeepsCreator(p, u, roles) ==
  "creator" \in member[p][u] /\ "creator" \notin roles => ~(ActiveTask(p) /\ assigned[p].who = u)

Permitted(x) ==
  CASE x.op = "set" ->
         /\ x.project \in live /\ x.users \cap deleted = {}
         /\ \A u \in x.users : KeepsDirector(x.project, u, x.roles[u]) /\ KeepsCreator(x.project, u, x.roles[u])
    [] x.op = "remove" ->
         /\ x.project \in live
         /\ \A u \in x.users :
              /\ member[x.project][u] # {}
              /\ KeepsDirector(x.project, u, {})
              /\ ~(ActiveTask(x.project) /\ assigned[x.project].who = u)
    [] x.op = "create" -> x.project \notin live /\ x.users \cap deleted = {}
    [] x.op = "purge" -> x.project \in live
    [] OTHER -> TRUE

\* The members of a project after the request, and all memberships it then sees.
After(x, p) ==
  IF p # x.project \/ x.op = "reconcile" THEN [u \in Users |-> RolesIn(p, u)]
  ELSE CASE x.op = "purge" -> [u \in Users |-> {}]
         [] OTHER -> [u \in Users |-> IF u \in x.users THEN x.roles[u] ELSE RolesIn(p, u)]

NeededHere(x, u) == After(x, x.project)[u]
NeededAfter(x, u) == UNION {After(x, p)[u] : p \in Projects}

\* synchronize_user_roles: first what is missing, then what is not needed.
SyncPlan(x) ==
  LET pairs == x.users \X Roles
      grants == {y \in pairs : y[2] \in NeededAfter(x, y[1]) /\ y \notin relation}
  IN [grants |-> grants,
      revokes |-> {y \in (managed \cup grants) \cap pairs : y[2] \notin NeededAfter(x, y[1])}]

Decide(t) ==
  LET x == txn[t] IN
  /\ x # Idle /\ x.pc = "lock" /\ AllLocked(t)
  /\ \/ /\ Permitted(x)
        /\ txn' = [txn EXCEPT ![t].pc = "commit", ![t].plan = SyncPlan(x)]
        /\ UNCHANGED held
     \/ ~Permitted(x) /\ Over(t)
  /\ UNCHANGED <<live, owner, member, relation, managed, given, deleted, assigned, begun>>

Commit(t) ==
  LET x == txn[t] IN
  /\ x # Idle /\ x.pc = "commit"
  /\ live' = CASE x.op = "create" -> live \cup {x.project}
               [] x.op = "purge" -> live \ {x.project}
               [] OTHER -> live
  /\ owner' = CASE x.op = "create" ->
                     [owner EXCEPT ![x.project] = CHOOSE u \in x.users : x.roles[u] = {"director"}]
                [] x.op = "purge" -> [owner EXCEPT ![x.project] = Nobody]
                [] OTHER -> owner
  /\ member' = IF x.op = "reconcile" THEN member ELSE [member EXCEPT ![x.project] = After(x, x.project)]
  /\ assigned' = IF x.op = "purge" THEN [assigned EXCEPT ![x.project] = NoTask] ELSE assigned
  /\ relation' = (relation \cup x.plan.grants) \ x.plan.revokes
  /\ managed' = (managed \cup x.plan.grants) \ x.plan.revokes
  /\ Over(t)
  /\ UNCHANGED <<given, deleted, begun>>

\* PostgreSQL ends one of two transactions that wait for each other.
WaitsFor(t, o) ==
  /\ txn[t] # Idle /\ txn[t].pc = "lock"
  /\ \E r \in LockRows : Wants(t, r) /\ held[r] = o
DeadlockVictim(t) ==
  /\ \E o \in Txns \ {t} : WaitsFor(t, o) /\ WaitsFor(o, t)
  /\ Over(t)
  /\ UNCHANGED <<live, owner, member, relation, managed, given, deleted, assigned, begun>>

-----------------------------------------------------------------------------
(* Requests that hold one row: one step once the row is free.              *)

Protected(u) == {y \in managed : y[1] = u} \cup ({u} \X Needed(u))

\* user_service: relations are added, taken one by one, or replaced as a whole.
GrantRole(u, r) ==
  /\ held[UserRow(u)] = Idle /\ u \notin deleted
  /\ <<u, r>> \notin relation
  /\ relation' = relation \cup {<<u, r>>}
  /\ given' = given \cup {<<u, r>>}
  /\ UNCHANGED <<live, owner, member, managed, deleted, assigned, txn, held, begun>>

RevokeRole(u, r) ==
  /\ held[UserRow(u)] = Idle
  /\ <<u, r>> \in relation \ Protected(u)
  /\ relation' = relation \ {<<u, r>>}
  /\ given' = given \ {<<u, r>>}
  /\ UNCHANGED <<live, owner, member, managed, deleted, assigned, txn, held, begun>>

ReplaceRoles(u, roles) ==
  LET wanted == {u} \X roles
      kept == Protected(u) \cap relation IN
  /\ held[UserRow(u)] = Idle /\ u \notin deleted
  /\ Protected(u) \subseteq wanted
  /\ relation' = {y \in relation : y[1] # u} \cup kept \cup wanted
  /\ given' = {y \in given : y[1] # u \/ y \in kept} \cup (wanted \ kept)
  /\ UNCHANGED <<live, owner, member, managed, deleted, assigned, txn, held, begun>>

DeleteUser(u) ==
  /\ held[UserRow(u)] = Idle /\ u \notin deleted
  /\ Needed(u) = {} /\ ~\E y \in managed : y[1] = u
  /\ deleted' = deleted \cup {u}
  /\ relation' = {y \in relation : y[1] # u}
  /\ given' = {y \in given : y[1] # u}
  /\ UNCHANGED <<live, owner, member, managed, assigned, txn, held, begun>>

Task(p, who, state) ==
  /\ held[ProjectRow(p)] = Idle /\ p \in live
  /\ assigned' = [assigned EXCEPT ![p] = [who |-> who, state |-> state]]
  /\ UNCHANGED <<live, owner, member, relation, managed, given, deleted, txn, held, begun>>

\* assign, and start, transfer and adjustment of an unfinished task, which ask
\* for an assignable member again.
Assign(p, u) ==
  assigned[p].state \in {"none", "unfinished"} /\ Assignable(p, u) /\ Task(p, u, "unfinished")
Complete(p) == ActiveTask(p) /\ Task(p, assigned[p].who, "completed")
ReopenTask(p) ==
  assigned[p].state = "completed" /\ Assignable(p, assigned[p].who) /\ Task(p, assigned[p].who, "unfinished")

-----------------------------------------------------------------------------
MemberNext ==
  \/ \E t \in Txns :
       \/ (\E r \in LockRows : Lock(t, r)) \/ Decide(t) \/ Commit(t) \/ DeadlockVictim(t)
       \/ BeginReconcile(t)
       \/ \E p \in Projects :
            \/ BeginPurge(t, p)
            \/ \E u \in Users : BeginMember(t, p, u)
            \/ \E u, v \in Users, roles \in SUBSET Roles \ {{}, {"director"}} : BeginCreate(t, p, u, v, roles)
  \/ \E u \in Users :
       \/ DeleteUser(u)
       \/ \E r \in Roles : GrantRole(u, r) \/ RevokeRole(u, r)
       \/ \E roles \in SUBSET Roles : ReplaceRoles(u, roles)
  \/ \E p \in Projects :
       \/ \E u \in Users : Assign(p, u)
       \/ Complete(p) \/ ReopenTask(p)

MemberSpec == MemberInit /\ [][MemberNext]_memberVars

-----------------------------------------------------------------------------
MemberTypeOK ==
  /\ live \subseteq Projects /\ owner \in [Projects -> Users \cup {Nobody}]
  /\ member \in [Projects -> [Users -> SUBSET Roles]]
  /\ relation \subseteq Users \X Roles /\ managed \subseteq Users \X Roles /\ given \subseteq Users \X Roles
  /\ assigned \in [Projects -> {NoTask} \cup [who : Users, state : {"unfinished", "completed"}]]

\* Platform roles follow memberships over all projects of a user: every role a
\* membership needs is granted, and what Shot Grid granted is gone when the last
\* membership that needed it is.
GrantsFollowMembership ==
  \A u \in Users : ({u} \X Needed(u)) \subseteq relation /\ {y \in managed : y[1] = u} \subseteq {u} \X Needed(u)

\* What an administrator granted, membership never takes away.
ExternalGrantsSurvive == given \subseteq relation /\ given \cap managed = {}

\* The assignee of an unfinished task is a member who may produce, and exists.
AssigneeIsCreator == \A p \in Projects : ActiveTask(p) => Assignable(p, assigned[p].who)

\* A project keeps a director, and its creator as one.
DirectorRemains == \A p \in live : owner[p] \in DirectorsOf(p)

\* A deleted user is a member of nothing and holds no role.
DeletedHoldNothing ==
  \A u \in deleted : (\A p \in Projects : member[p][u] = {}) /\ \A r \in Roles : <<u, r>> \notin relation

\* Members, grants and assignments agree after every transaction, however the
\* transactions of different projects and of user administration interleave.
MembersSafe ==
  /\ MemberTypeOK /\ GrantsFollowMembership /\ ExternalGrantsSurvive
  /\ AssigneeIsCreator /\ DirectorRemains /\ DeletedHoldNothing
=============================================================================
