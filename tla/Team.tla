-------------------------------- MODULE Team --------------------------------
(***************************************************************************)
(* Teams, their captains and invitations: the tables users, groups and     *)
(* group_invites of the user service and every operation that writes them. *)
(*                                                                         *)
(* An operation of GroupDal is a PostgreSQL transaction at READ COMMITTED. *)
(* It is modelled statement by statement: a plain SELECT reads what is     *)
(* committed, SELECT ... FOR UPDATE, UPDATE and DELETE wait for the row    *)
(* lock and keep it, and all writes become visible at the commit.  A       *)
(* transaction whose check fails, whose statement fails or which the       *)
(* database chooses as a deadlock victim rolls back; that can happen at    *)
(* any statement, so the steps below describe only how it goes on.  An     *)
(* UPDATE that has to wait is modelled as beginning when it can proceed.   *)
(*                                                                         *)
(* Team names, avatars and descriptions, the audit log and the profile     *)
(* cache keys (which are deleted here and read nowhere) are left out.  So  *)
(* are the locks of foreign keys: they only make a request wait longer.    *)
(***************************************************************************)
EXTENDS Integers, FiniteSets

CONSTANTS
    TeamUsers,       \* user ids
    TeamProcs,       \* requests in progress
    NoTeam,        \* no request
    MaxGroups,   \* bound: rows of groups
    MaxInvites,  \* bound: rows of group_invites
    MaxTeamRequests  \* bound: requests that arrive

ASSUME TeamAssumption ==
    /\ TeamUsers \subseteq Nat \ {0}
    /\ IsFiniteSet(TeamUsers)
    /\ NoTeam \notin TeamProcs
    /\ MaxGroups \in Nat
    /\ MaxInvites \in Nat
    /\ MaxTeamRequests \in Nat

VARIABLES
    alive,      \* users without deleted_at
    groupOf,    \* users.group_id
    ngroups,    \* rows of groups
    groups,     \* groups without deleted_at
    owner,      \* groups.owner_id
    ninvites,   \* rows of group_invites
    igroup,     \* group_invites.group_id
    inviter,    \* group_invites.inviter_id
    invitee,    \* group_invites.invitee_id
    istatus,    \* group_invites.status, or "deleted" with deleted_at
    lockU,      \* the request that holds the lock of each users row
    lockG,      \* of each groups row
    lockI,      \* of each group_invites row
    requests,   \* requests that have arrived
    pc,         \* the statement a request executes next
    op,         \* its operation
    actor,      \* the user it acts for, or deletes
    other,      \* the invitee, the member, the new captain
    grp,        \* the group it works on
    seen,       \* the owner_id it read
    own,        \* the captain it goes by, ensureGroupOwner included
    inv,        \* the invitation it answers
    closing,    \* the invitations its UPDATE selected
    leaving,    \* the members its UPDATE selected
    disbanded,  \* history: groups deleted by DisbandTeam and not since given a
                \* member by an administrator
    outdated    \* history: groups written on an owner or a member that had
                \* changed since it was read, or whose captain was moved

userRows == <<alive, groupOf>>
groupRows == <<ngroups, groups, owner>>
inviteRows == <<ninvites, igroup, inviter, invitee, istatus>>
teamTables == <<userRows, groupRows, inviteRows>>
locks == <<lockU, lockG, lockI>>
registers == <<pc, op, actor, other, grp, seen, own, inv, closing, leaving>>
teamHistory == <<disbanded, outdated>>
teamVars == <<teamTables, locks, requests, registers, teamHistory>>

GroupIds == 1..MaxGroups
InviteIds == 1..MaxInvites
Ops == {"create", "update", "invite", "remove", "transfer", "leave", "disband",
        "accept", "reject", "detail", "delete", "drop"}
Statements == {"idle", "actor", "group", "ensure", "store", "replace", "target", "existing", "invitation",
               "members", "invites", "erase", "commit", "reset"}

Members(g) == {u \in alive : groupOf[u] = g}
Pending(i) == istatus[i] = "pending"
Lowest(S) == IF S = {} THEN 0 ELSE CHOOSE u \in S : \A v \in S : u <= v

TeamInit ==
    /\ alive = TeamUsers
    /\ groupOf = [u \in TeamUsers |-> 0]
    /\ ngroups = 0
    /\ groups = {}
    /\ owner = [g \in GroupIds |-> 0]
    /\ ninvites = 0
    /\ igroup = [i \in InviteIds |-> 0]
    /\ inviter = [i \in InviteIds |-> 0]
    /\ invitee = [i \in InviteIds |-> 0]
    /\ istatus = [i \in InviteIds |-> "none"]
    /\ lockU = [u \in TeamUsers |-> NoTeam]
    /\ lockG = [g \in GroupIds |-> NoTeam]
    /\ lockI = [i \in InviteIds |-> NoTeam]
    /\ requests = 0
    /\ pc = [p \in TeamProcs |-> "idle"]
    /\ op = [p \in TeamProcs |-> "none"]
    /\ actor = [p \in TeamProcs |-> 0]
    /\ other = [p \in TeamProcs |-> 0]
    /\ grp = [p \in TeamProcs |-> 0]
    /\ seen = [p \in TeamProcs |-> 0]
    /\ own = [p \in TeamProcs |-> 0]
    /\ inv = [p \in TeamProcs |-> 0]
    /\ closing = [p \in TeamProcs |-> {}]
    /\ leaving = [p \in TeamProcs |-> {}]
    /\ disbanded = {}
    /\ outdated = {}

-----------------------------------------------------------------------------
(* Locks and the flow of statements                                        *)

TeamGoto(p, s) == pc' = [pc EXCEPT ![p] = s] /\ UNCHANGED requests

Arrives == requests < MaxTeamRequests /\ requests' = requests + 1

Free(lock, x, p) == lock[x] \in {NoTeam, p}

\* The request is over: its registers are cleared.
TeamClear(p) ==
    /\ TeamGoto(p, "idle")
    /\ op' = [op EXCEPT ![p] = "none"]
    /\ actor' = [actor EXCEPT ![p] = 0]
    /\ other' = [other EXCEPT ![p] = 0]
    /\ grp' = [grp EXCEPT ![p] = 0]
    /\ seen' = [seen EXCEPT ![p] = 0]
    /\ own' = [own EXCEPT ![p] = 0]
    /\ inv' = [inv EXCEPT ![p] = 0]
    /\ closing' = [closing EXCEPT ![p] = {}]
    /\ leaving' = [leaving EXCEPT ![p] = {}]

\* The end of a transaction releases its locks.
End(p) ==
    /\ TeamClear(p)
    /\ lockU' = [u \in TeamUsers |-> IF lockU[u] = p THEN NoTeam ELSE lockU[u]]
    /\ lockG' = [g \in GroupIds |-> IF lockG[g] = p THEN NoTeam ELSE lockG[g]]
    /\ lockI' = [i \in InviteIds |-> IF lockI[i] = p THEN NoTeam ELSE lockI[i]]

\* A failed check, a failed statement, a deadlock victim, a lost connection.
Rollback(p) ==
    /\ pc[p] # "idle"
    /\ End(p)
    /\ UNCHANGED <<teamTables, teamHistory>>

First(o) ==
    IF o \in {"accept", "reject"} THEN "invitation"
    ELSE IF o \in {"detail", "update", "drop"} THEN "group" ELSE "actor"

\* The statement after the group and, where needed, its captain are known.
AfterGroup(o) ==
    IF o \in {"invite", "remove", "transfer"} THEN "target"
    ELSE IF o = "disband" THEN "members"
    ELSE IF o = "detail" THEN "commit" ELSE "invites"

\* A request arrives, with the user it acts for, the other user, the group and
\* the invitation it names.
TeamBegin(p, o, u, v, g, i) ==
    /\ pc[p] = "idle"
    /\ Arrives
    /\ pc' = [pc EXCEPT ![p] = First(o)]
    /\ op' = [op EXCEPT ![p] = o]
    /\ actor' = [actor EXCEPT ![p] = u]
    /\ other' = [other EXCEPT ![p] = v]
    /\ grp' = [grp EXCEPT ![p] = g]
    /\ inv' = [inv EXCEPT ![p] = i]
    /\ UNCHANGED <<teamTables, locks, seen, own, closing, leaving, teamHistory>>

-----------------------------------------------------------------------------
(* Statements                                                              *)

\* Mutant: CreateTeamForUser reads the user without a lock.
MutCreateUnlocked(o) == o \in {"transfer", "leave", "disband", "accept"}

\* The operations that read their own user FOR UPDATE.
LocksActor(o) == o \in {"create", "transfer", "leave", "disband", "accept"}

\* SELECT the acting user.
ReadActor(p) ==
    /\ pc[p] = "actor"
    /\ LET u == actor[p]
           o == op[p]
       IN  /\ u \in alive
           /\ LocksActor(o) => Free(lockU, u, p)
           /\ lockU' = IF LocksActor(o) THEN [lockU EXCEPT ![u] = p] ELSE lockU
           /\ \/ o = "create" /\ groupOf[u] = 0 /\ TeamGoto(p, "commit") /\ UNCHANGED grp
              \/ o = "accept" /\ groupOf[u] = 0 /\ TeamGoto(p, "group") /\ UNCHANGED grp
              \/ /\ o = "update" /\ groupOf[u] = grp[p]
                 /\ TeamGoto(p, IF own[p] = 0 THEN "ensure" ELSE "store")
                 /\ UNCHANGED grp
              \/ /\ o \in {"invite", "remove", "transfer", "leave", "disband"}
                 /\ groupOf[u] # 0
                 /\ TeamGoto(p, "group")
                 /\ grp' = [grp EXCEPT ![p] = groupOf[u]]
              \/ /\ o = "delete"
                 /\ TeamGoto(p, IF groupOf[u] = 0 THEN "invites" ELSE "group")
                 /\ grp' = [grp EXCEPT ![p] = groupOf[u]]
    /\ UNCHANGED <<teamTables, lockG, lockI, op, actor, other, seen, own, inv, closing, leaving, teamHistory>>

\* The operations that read the group FOR UPDATE.
LocksGroup(o) == o \in {"transfer", "disband"}

\* SELECT the group; the invitation names it for RespondInvite.
ReadGroup(p) ==
    /\ pc[p] = "group"
    /\ op[p] \notin {"delete", "drop"}
    /\ LET g == IF op[p] = "accept" THEN igroup[inv[p]] ELSE grp[p]
       IN  /\ g \in groups
           /\ LocksGroup(op[p]) => Free(lockG, g, p)
           /\ lockG' = IF LocksGroup(op[p]) THEN [lockG EXCEPT ![g] = p] ELSE lockG
           /\ grp' = [grp EXCEPT ![p] = g]
           /\ seen' = [seen EXCEPT ![p] = owner[g]]
           /\ own' = [own EXCEPT ![p] = owner[g]]
           /\ TeamGoto(p, IF op[p] = "update" THEN "actor"
                      ELSE IF op[p] # "accept" /\ owner[g] = 0 THEN "ensure"
                      ELSE AfterGroup(op[p]))
    /\ UNCHANGED <<teamTables, lockU, lockI, op, actor, other, inv, closing, leaving, teamHistory>>

\* CanManageTeam
CanManageTeam(u, captain) == u > 0 /\ captain > 0 /\ u = captain

\* ensureGroupOwner, for a group without a captain: the member with the lowest id.
EnsureGroupOwner(p) ==
    /\ pc[p] = "ensure"
    /\ own' = [own EXCEPT ![p] = Lowest(Members(grp[p]))]
    /\ TeamGoto(p, IF own'[p] # 0 \/ op[p] = "update" THEN "store" ELSE AfterGroup(op[p]))
    /\ UNCHANGED <<teamTables, locks, op, actor, other, grp, seen, inv, closing, leaving, teamHistory>>

\* The UPDATE of groups locks the row.  UpdateTeam gets to one to complete the
\* captain or, as the captain, to write the names.
StoreOwner(p) ==
    /\ pc[p] = "store"
    /\ op[p] = "update" => (seen[p] = 0 /\ own[p] # 0) \/ CanManageTeam(actor[p], own[p])
    /\ Free(lockG, grp[p], p)
    /\ lockG' = [lockG EXCEPT ![grp[p]] = p]
    /\ TeamGoto(p, IF op[p] = "update" THEN "commit" ELSE AfterGroup(op[p]))
    /\ UNCHANGED <<teamTables, lockU, lockI, op, actor, other, grp, seen, own, inv, closing, leaving, teamHistory>>

\* DeleteUser looks for the group its user is captain of ...
ReadOwnedGroup(p) ==
    /\ pc[p] = "group"
    /\ op[p] = "delete"
    /\ seen' = [seen EXCEPT ![p] = owner[grp[p]]]
    /\ TeamGoto(p, IF grp[p] \in groups /\ owner[grp[p]] = actor[p] THEN "replace" ELSE "invites")
    /\ UNCHANGED <<teamTables, locks, op, actor, other, grp, own, inv, closing, leaving, teamHistory>>

\* ... and for the member who replaces them.
Replacement(p) ==
    /\ pc[p] = "replace"
    /\ own' = [own EXCEPT ![p] = Lowest(Members(grp[p]) \ {actor[p]})]
    /\ TeamGoto(p, "store")
    /\ UNCHANGED <<teamTables, locks, op, actor, other, grp, seen, inv, closing, leaving, teamHistory>>

\* Mutant: InviteUser reads the invitee without a lock.
MutInviteUnlocked(o) == o \in {"remove", "transfer"}

\* The operations that read the other user FOR UPDATE.
LocksTarget(o) == o \in {"invite", "remove", "transfer"}

\* After CanManageTeam, SELECT the other user: the invitee without a team, the
\* member to remove, the new captain.
ReadTarget(p) ==
    /\ pc[p] = "target"
    /\ LET v == other[p]
       IN  /\ CanManageTeam(actor[p], own[p])
           /\ v \in alive
           /\ LocksTarget(op[p]) => Free(lockU, v, p)
           /\ lockU' = IF LocksTarget(op[p]) THEN [lockU EXCEPT ![v] = p] ELSE lockU
           /\ IF op[p] = "invite" THEN groupOf[v] = 0 ELSE groupOf[v] = grp[p]
           /\ op[p] = "remove" => v # own[p]
    /\ TeamGoto(p, IF op[p] = "remove" THEN "invites" ELSE IF op[p] = "invite" THEN "existing" ELSE "commit")
    /\ UNCHANGED <<teamTables, lockG, lockI, op, actor, other, grp, seen, own, inv, closing, leaving, teamHistory>>

\* InviteUser: SELECT a pending invitation of this group to this user.
ReadExisting(p) ==
    /\ pc[p] = "existing"
    /\ inv' = [inv EXCEPT ![p] =
                 Lowest({i \in InviteIds : Pending(i) /\ igroup[i] = grp[p] /\ invitee[i] = other[p]})]
    /\ TeamGoto(p, "commit")
    /\ UNCHANGED <<teamTables, locks, op, actor, other, grp, seen, own, closing, leaving, teamHistory>>

\* SELECT the pending invitation FOR UPDATE.
ReadInvitation(p) ==
    /\ pc[p] = "invitation"
    /\ LET i == inv[p]
       IN  /\ Pending(i) /\ invitee[i] = actor[p]
           /\ Free(lockI, i, p)
           /\ lockI' = [lockI EXCEPT ![i] = p]
    /\ TeamGoto(p, IF op[p] = "accept" THEN "actor" ELSE "commit")
    /\ UNCHANGED <<teamTables, lockU, lockG, op, actor, other, grp, seen, own, inv, closing, leaving, teamHistory>>

\* DisbandTeam: UPDATE users SET group_id = 0 WHERE group_id = g.
ResetMembers(p) ==
    /\ pc[p] = "members"
    /\ CanManageTeam(actor[p], own[p])
    /\ \A u \in Members(grp[p]) : Free(lockU, u, p)
    /\ lockU' = [u \in TeamUsers |-> IF u \in Members(grp[p]) THEN p ELSE lockU[u]]
    /\ leaving' = [leaving EXCEPT ![p] = Members(grp[p])]
    /\ TeamGoto(p, "invites")
    /\ UNCHANGED <<teamTables, lockG, lockI, op, actor, other, grp, seen, own, inv, closing, teamHistory>>

\* The invitations an operation's UPDATE or DELETE selects.
Closes(p, i) ==
    CASE op[p] = "remove"  -> Pending(i) /\ invitee[i] = other[p]
      [] op[p] = "leave"   -> Pending(i) /\ invitee[i] = actor[p]
      [] op[p] = "accept"  -> Pending(i) /\ invitee[i] = actor[p] /\ i # inv[p]
      [] op[p] = "disband" -> Pending(i) /\ igroup[i] = grp[p]
      [] op[p] = "delete"  -> istatus[i] \notin {"none", "deleted"} /\ actor[p] \in {inviter[i], invitee[i]}
      [] OTHER -> FALSE

\* Mutant: LeaveTeam forgets that a captain may not leave.
MutAnybodyLeaves(p) == TRUE

\* LeaveTeam refuses the captain.
MayClose(p) == op[p] = "leave" => own[p] # actor[p]

UpdateInvites(p) ==
    /\ pc[p] = "invites"
    /\ MayClose(p)
    /\ LET sel == {i \in InviteIds : Closes(p, i)}
       IN  /\ \A i \in sel : Free(lockI, i, p)
           /\ lockI' = [i \in InviteIds |-> IF i \in sel THEN p ELSE lockI[i]]
           /\ closing' = [closing EXCEPT ![p] = sel]
    /\ TeamGoto(p, IF op[p] = "delete" THEN "erase" ELSE "commit")
    /\ UNCHANGED <<teamTables, lockU, lockG, op, actor, other, grp, seen, own, inv, leaving, teamHistory>>

\* DeleteUser: the DELETE of the user locks the row and must find it.
EraseUser(p) ==
    /\ pc[p] = "erase"
    /\ actor[p] \in alive
    /\ Free(lockU, actor[p], p)
    /\ lockU' = [lockU EXCEPT ![actor[p]] = p]
    /\ TeamGoto(p, "commit")
    /\ UNCHANGED <<teamTables, lockG, lockI, op, actor, other, grp, seen, own, inv, closing, leaving, teamHistory>>

-----------------------------------------------------------------------------
(* Commits                                                                 *)

\* What the transaction wrote to groups.owner_id.
NewOwner(p) ==
    IF op[p] = "transfer" THEN other[p]
    ELSE IF op[p] = "delete" /\ lockG[grp[p]] = p THEN own[p]
    ELSE IF seen[p] = 0 /\ own[p] # 0 THEN own[p] ELSE owner[grp[p]]

\* The groups for which the owner, the captain found among the members, or the
\* team of the deleted user is no longer what the transaction read.
Outdated(p) ==
    {g \in GroupIds :
        \/ g = grp[p] /\ owner[g] # seen[p]
        \/ g = grp[p] /\ op[p] # "transfer" /\ NewOwner(p) # owner[g] /\ NewOwner(p) \notin Members(g)
        \/ op[p] = "delete" /\ g = groupOf[actor[p]] /\ g # grp[p]}

\* The invitations closed by the transaction.
Closed(p, st) == [i \in InviteIds |-> IF i \in closing[p] THEN st ELSE istatus[i]]

CommitOwner(p) ==
    /\ owner' = IF grp[p] = 0 THEN owner ELSE [owner EXCEPT ![grp[p]] = NewOwner(p)]
    /\ outdated' = outdated \cup Outdated(p)

\* TransferTeamOwner, UpdateTeam and the reads that complete the captain.
CommitGroup(p) ==
    /\ pc[p] = "commit"
    /\ op[p] \in {"transfer", "update", "detail"}
    /\ op[p] = "update" => CanManageTeam(actor[p], own[p])
    /\ CommitOwner(p)
    /\ End(p)
    /\ UNCHANGED <<userRows, ngroups, groups, inviteRows, disbanded>>

\* CreateTeamForUser: INSERT the group, UPDATE the user.
CommitCreate(p) ==
    /\ pc[p] = "commit"
    /\ op[p] = "create"
    /\ ngroups < MaxGroups
    /\ ngroups' = ngroups + 1
    /\ groups' = groups \cup {ngroups + 1}
    /\ owner' = [owner EXCEPT ![ngroups + 1] = actor[p]]
    /\ groupOf' = [groupOf EXCEPT ![actor[p]] = ngroups + 1]
    /\ End(p)
    /\ UNCHANGED <<alive, inviteRows, teamHistory>>

\* InviteUser returns the invitation it found or inserts one.
CommitInvite(p) ==
    /\ pc[p] = "commit"
    /\ op[p] = "invite"
    /\ IF inv[p] # 0
       THEN UNCHANGED inviteRows
       ELSE /\ ninvites < MaxInvites
            /\ ninvites' = ninvites + 1
            /\ igroup' = [igroup EXCEPT ![ninvites + 1] = grp[p]]
            /\ inviter' = [inviter EXCEPT ![ninvites + 1] = actor[p]]
            /\ invitee' = [invitee EXCEPT ![ninvites + 1] = other[p]]
            /\ istatus' = [istatus EXCEPT ![ninvites + 1] = "pending"]
    /\ CommitOwner(p)
    /\ End(p)
    /\ UNCHANGED <<userRows, ngroups, groups, disbanded>>

\* RemoveTeamMember and LeaveTeam.
CommitLeave(p) ==
    /\ pc[p] = "commit"
    /\ op[p] \in {"remove", "leave"}
    /\ groupOf' = [groupOf EXCEPT ![IF op[p] = "leave" THEN actor[p] ELSE other[p]] = 0]
    /\ istatus' = Closed(p, "rejected")
    /\ CommitOwner(p)
    /\ End(p)
    /\ UNCHANGED <<alive, ngroups, groups, ninvites, igroup, inviter, invitee, disbanded>>

\* DisbandTeam
CommitDisband(p) ==
    /\ pc[p] = "commit"
    /\ op[p] = "disband"
    /\ groupOf' = [u \in TeamUsers |-> IF u \in leaving[p] THEN 0 ELSE groupOf[u]]
    /\ istatus' = Closed(p, "rejected")
    /\ groups' = groups \ {grp[p]}
    /\ disbanded' = disbanded \cup {grp[p]}
    /\ CommitOwner(p)
    /\ End(p)
    /\ UNCHANGED <<alive, ngroups, ninvites, igroup, inviter, invitee>>

\* RespondInvite
CommitRespond(p) ==
    /\ pc[p] = "commit"
    /\ op[p] \in {"accept", "reject"}
    /\ IF op[p] = "accept"
       THEN /\ groupOf' = [groupOf EXCEPT ![actor[p]] = grp[p]]
            /\ istatus' = [Closed(p, "rejected") EXCEPT ![inv[p]] = "accepted"]
       ELSE /\ istatus' = [istatus EXCEPT ![inv[p]] = "rejected"]
            /\ UNCHANGED groupOf
    /\ End(p)
    /\ UNCHANGED <<alive, groupRows, ninvites, igroup, inviter, invitee, teamHistory>>

\* DeleteUser
CommitDelete(p) ==
    /\ pc[p] = "commit"
    /\ op[p] = "delete"
    /\ alive' = alive \ {actor[p]}
    /\ istatus' = Closed(p, "deleted")
    /\ CommitOwner(p)
    /\ End(p)
    /\ UNCHANGED <<groupOf, ngroups, groups, ninvites, igroup, inviter, invitee, disbanded>>

-----------------------------------------------------------------------------
(* Administration, without transactions                                    *)

\* GroupService.Create: a group without members and without a captain.
CreateGroup ==
    /\ Arrives
    /\ ngroups < MaxGroups
    /\ ngroups' = ngroups + 1
    /\ groups' = groups \cup {ngroups + 1}
    /\ UNCHANGED <<userRows, owner, inviteRows, locks, registers, teamHistory>>

\* GroupService.Delete, first the group ...
DropGroup(p) ==
    /\ pc[p] = "group"
    /\ op[p] = "drop"
    /\ grp[p] \in groups
    /\ lockG[grp[p]] = NoTeam
    /\ groups' = groups \ {grp[p]}
    /\ TeamGoto(p, "reset")
    /\ UNCHANGED <<userRows, ngroups, owner, inviteRows, locks, teamHistory>>
    /\ UNCHANGED <<op, actor, other, grp, seen, own, inv, closing, leaving>>

\* ... then its members.
DropMembers(p) ==
    /\ pc[p] = "reset"
    /\ \A u \in Members(grp[p]) : lockU[u] = NoTeam
    /\ groupOf' = [u \in TeamUsers |-> IF u \in Members(grp[p]) THEN 0 ELSE groupOf[u]]
    /\ End(p)
    /\ UNCHANGED <<alive, groupRows, inviteRows, teamHistory>>

\* ProfileService.MoveGroup sets group_id, whatever it was, to a
\* deleted group too.
MoveGroup(u, g) ==
    /\ Arrives
    /\ u \in alive
    /\ lockU[u] = NoTeam
    /\ groupOf' = [groupOf EXCEPT ![u] = g]
    /\ outdated' = outdated \cup {h \in GroupIds : owner[h] = u}
    /\ disbanded' = disbanded \ {g}
    /\ UNCHANGED <<alive, groupRows, inviteRows, locks, registers>>

-----------------------------------------------------------------------------

\* InviteUser, RemoveTeamMember and TransferTeamOwner refuse the acting user.
Request(p) ==
    \/ \E o \in {"create", "leave", "disband", "delete"}, u \in TeamUsers : TeamBegin(p, o, u, 0, 0, 0)
    \/ \E o \in {"invite", "remove", "transfer"}, u \in TeamUsers : \E v \in TeamUsers \ {u} : TeamBegin(p, o, u, v, 0, 0)
    \/ \E u \in TeamUsers, g \in 1..ngroups : TeamBegin(p, "update", u, 0, g, 0)
    \/ \E o \in {"detail", "drop"}, g \in 1..ngroups : TeamBegin(p, o, 0, 0, g, 0)
    \/ \E o \in {"accept", "reject"}, u \in TeamUsers, i \in 1..ninvites : TeamBegin(p, o, u, 0, 0, i)

Statement(p) ==
    \/ ReadActor(p) \/ ReadGroup(p) \/ EnsureGroupOwner(p) \/ StoreOwner(p)
    \/ ReadOwnedGroup(p) \/ Replacement(p) \/ ReadTarget(p) \/ ReadExisting(p)
    \/ ReadInvitation(p) \/ ResetMembers(p) \/ UpdateInvites(p) \/ EraseUser(p)

Commit(p) ==
    \/ CommitGroup(p) \/ CommitCreate(p) \/ CommitInvite(p) \/ CommitLeave(p)
    \/ CommitDisband(p) \/ CommitRespond(p) \/ CommitDelete(p)

TeamNext ==
    \/ \E p \in TeamProcs : Request(p) \/ Statement(p) \/ Commit(p) \/ Rollback(p)
                        \/ DropGroup(p) \/ DropMembers(p)
    \/ CreateGroup
    \/ \E u \in TeamUsers, g \in 0..ngroups : MoveGroup(u, g)

TeamSpec == TeamInit /\ [][TeamNext]_teamVars

-----------------------------------------------------------------------------
(* Properties                                                              *)

\* InviteUser looks for a pending invitation before it inserts one, under the
\* lock of the invitee's row: a user never holds two pending invitations to the
\* same team, however captains' requests and answers interleave.
OnePendingInvite ==
    \A i, j \in InviteIds :
        Pending(i) /\ Pending(j) /\ igroup[i] = igroup[j] /\ invitee[i] = invitee[j] => i = j

\* A user is in one team at a time: nobody passes from one team straight to
\* another, except when an administrator moves them.  Creating a team, accepting
\* an invitation, leaving and disbanding exclude each other by the row lock.
NoDirectSwitch ==
    [][\A u \in TeamUsers :
          groupOf[u] # 0 /\ groupOf'[u] \notin {0, groupOf[u]} => \E g \in 0..MaxGroups : MoveGroup(u, g)]_teamVars

\* The captain of a team is one of its members.  The only exceptions are teams
\* written on an owner or a member that had changed since the transaction read
\* it, and teams whose captain an administrator moved away.
CaptainIsMember ==
    \A g \in groups \ outdated : owner[g] = 0 \/ owner[g] \in Members(g)

\* README: disbanding a team resets group_id of all its members.  So nobody who
\* joined by an invitation is left in a team that was disbanded; such a user could
\* neither leave (the team is not found) nor create or join another one.
DisbandedIsEmpty ==
    \A i \in InviteIds :
        istatus[i] = "accepted" /\ igroup[i] \in disbanded => invitee[i] \notin Members(igroup[i])
=============================================================================
