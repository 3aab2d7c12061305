------------------------------ MODULE TeamProofs ------------------------------
(* Teams and invitations for any number of users, requests, teams and invitations: *)
(* nobody passes from one team straight to another, nobody holds two pending        *)
(* invitations to one team, and the captain of a team is one of its members unless   *)
(* a transaction has written on what had changed since it was read.                 *)
EXTENDS Team, TLAPS, WellFoundedInduction

\* The rows.  No team, and no captain, beyond the rows inserted so far.
TeamTablesOK ==
    /\ alive \subseteq TeamUsers
    /\ groupOf \in [TeamUsers -> Nat] /\ \A u \in TeamUsers : groupOf[u] <= ngroups
    /\ ngroups \in Nat /\ ngroups <= MaxGroups
    /\ groups \subseteq GroupIds /\ \A g \in groups : g <= ngroups
    /\ owner \in [GroupIds -> Nat] /\ \A g \in GroupIds : g > ngroups => owner[g] = 0

Stages == {"none", "pending", "accepted", "rejected", "deleted"}
InvitesOK ==
    /\ ninvites \in Nat
    /\ igroup \in [InviteIds -> Nat] /\ invitee \in [InviteIds -> Nat] /\ istatus \in [InviteIds -> Stages]

RegistersOK ==
    /\ lockU \in [TeamUsers -> TeamProcs \cup {NoTeam}] /\ lockG \in [GroupIds -> TeamProcs \cup {NoTeam}]
    /\ pc \in [TeamProcs -> Statements] /\ op \in [TeamProcs -> Ops \cup {"none"}]
    /\ actor \in [TeamProcs -> Nat] /\ other \in [TeamProcs -> Nat] /\ grp \in [TeamProcs -> Nat]
    /\ seen \in [TeamProcs -> Nat] /\ own \in [TeamProcs -> Nat] /\ inv \in [TeamProcs -> Nat]
    /\ leaving \in [TeamProcs -> SUBSET TeamUsers]

TeamTypes == TeamTablesOK /\ InvitesOK /\ RegistersOK

\* The statements of each operation.
FlowOK(p) ==
    /\ pc[p] = "idle" <=> op[p] = "none"
    /\ op[p] = "create" => pc[p] \in {"actor", "commit"}
    /\ op[p] = "update" => pc[p] \in {"group", "actor", "ensure", "store", "commit"}
    /\ op[p] = "invite" => pc[p] \in {"actor", "group", "ensure", "store", "target", "existing", "commit"}
    /\ op[p] = "remove" => pc[p] \in {"actor", "group", "ensure", "store", "target", "invites", "commit"}
    /\ op[p] = "transfer" => pc[p] \in {"actor", "group", "ensure", "store", "target", "commit"}
    /\ op[p] = "leave" => pc[p] \in {"actor", "group", "ensure", "store", "invites", "commit"}
    /\ op[p] = "disband" => pc[p] \in {"actor", "group", "ensure", "store", "members", "invites", "commit"}
    /\ op[p] = "accept" => pc[p] \in {"invitation", "actor", "group", "invites", "commit"}
    /\ op[p] = "reject" => pc[p] \in {"invitation", "commit"}
    /\ op[p] = "detail" => pc[p] \in {"group", "ensure", "store", "commit"}
    /\ op[p] = "delete" => pc[p] \in {"actor", "group", "replace", "store", "invites", "erase", "commit"}
    /\ op[p] = "drop" => pc[p] \in {"group", "reset"}
    /\ op[p] \in Ops \cup {"none"}

\* The users a request names, and the group it works on, exist.
NamesOK(p) ==
    /\ op[p] \in Ops \ {"detail", "drop"} => actor[p] \in TeamUsers
    /\ op[p] \in {"invite", "remove", "transfer"} => other[p] \in TeamUsers
    /\ grp[p] <= ngroups
    /\ op[p] \in {"update", "detail", "drop"} => grp[p] # 0
    /\ op[p] \in {"invite", "remove", "transfer", "leave", "disband"} /\ pc[p] # "actor" => grp[p] # 0
    /\ op[p] = "delete" /\ pc[p] \in {"group", "replace", "store"} => grp[p] # 0
    /\ pc[p] = "reset" => grp[p] \notin groups

\* When the row of the acting user, and of the other one, is locked.
ActorHeld(p) ==
    \/ op[p] = "create" /\ pc[p] = "commit"
    \/ op[p] = "accept" /\ pc[p] \in {"group", "invites", "commit"}
    \/ op[p] = "leave" /\ pc[p] # "actor"
    \/ op[p] = "delete" /\ pc[p] = "commit"
OtherHeld(p) ==
    \/ op[p] = "invite" /\ pc[p] \in {"existing", "commit"}
    \/ op[p] = "remove" /\ pc[p] \in {"invites", "commit"}
    \/ op[p] = "transfer" /\ pc[p] = "commit"

\* A locked row is still what the request read in it.
HeldOK(p) ==
    /\ ActorHeld(p) => lockU[actor[p]] = p
    /\ ActorHeld(p) /\ op[p] # "delete" => actor[p] \in alive /\ groupOf[actor[p]] = IF op[p] = "leave" THEN grp[p] ELSE 0
    /\ OtherHeld(p) => /\ lockU[other[p]] = p /\ other[p] \in alive
                       /\ groupOf[other[p]] = IF op[p] = "invite" THEN 0 ELSE grp[p]
    /\ \A u \in leaving[p] : lockU[u] = p /\ groupOf[u] = grp[p]
    /\ leaving[p] # {} => op[p] = "disband" /\ pc[p] \in {"invites", "commit"}

\* The captain a request goes by is the one it read, or the one it has found for a team
\* that had none; whoever leaves or is removed is not that captain.
CaptainOK(p) ==
    /\ op[p] = "none" => seen[p] = 0 /\ own[p] = 0 /\ \A g \in GroupIds : lockG[g] # p
    /\ op[p] # "delete" /\ (seen[p] # 0 \/ pc[p] \in {"actor", "invitation"}) => own[p] = seen[p]
    /\ pc[p] = "ensure" => seen[p] = 0
    /\ op[p] = "leave" /\ pc[p] = "commit" => own[p] # actor[p]
    /\ op[p] = "remove" /\ pc[p] \in {"invites", "commit"} => own[p] # other[p]

\* DeleteUser has locked the group and found its next captain, or has met another captain.
HeirOK(p) ==
    op[p] = "delete" =>
        /\ pc[p] \in {"actor", "group", "replace", "store"} => \A g \in GroupIds : lockG[g] # p
        /\ pc[p] \in {"actor", "group"} => own[p] = 0
        /\ pc[p] \in {"replace", "store"} => seen[p] = actor[p]
        /\ pc[p] = "store" => own[p] # actor[p]
        /\ pc[p] \in {"invites", "erase", "commit"} =>
              IF grp[p] # 0 /\ lockG[grp[p]] = p
              THEN seen[p] = actor[p] /\ own[p] # actor[p]
              ELSE own[p] = 0 /\ (grp[p] \in groups => seen[p] # actor[p])

\* InviteUser inserts an invitation where there is none.
InsertOK(p) ==
    op[p] = "invite" /\ pc[p] = "commit" /\ inv[p] = 0 =>
        \A i \in InviteIds : ~(Pending(i) /\ igroup[i] = grp[p] /\ invitee[i] = other[p])

TeamProcOK(p) == FlowOK(p) /\ NamesOK(p) /\ HeldOK(p) /\ CaptainOK(p) /\ HeirOK(p) /\ InsertOK(p)

TeamInv == TeamTypes /\ (\A p \in TeamProcs : TeamProcOK(p)) /\ OnePendingInvite /\ CaptainIsMember

-----------------------------------------------------------------------------
Less == {q \in Nat \X Nat : q[1] < q[2]}

\* Lowest is the first of the ids, 0 when there are none.
LEMMA LowestOf ==
  ASSUME NEW S \in SUBSET Nat
  PROVE  Lowest(S) \in Nat /\ (S # {} => Lowest(S) \in S) /\ (S = {} => Lowest(S) = 0)
<1>1. CASE S = {}
  BY <1>1, Zenon DEF Lowest
<1>2. CASE S # {}
  <2>1. IsWellFoundedOn(Less, Nat)
    BY NatLessThanWellFounded, Zenon DEF OpToRel, Less
  <2>2. PICK u \in S : \A v \in S : ~(<<v, u>> \in Less)
    BY <1>2, <2>1, WFMin, Zenon
  <2>3. \A v \in S : ~(v < u)
    BY <2>2, Zenon DEF Less
  <2>4. \A v \in S : u <= v
    BY <2>3
  <2>5. Lowest(S) \in S
    BY <1>2, <2>4, Zenon DEF Lowest
  <2>6. QED
    BY <1>2, <2>5, Zenon
<1>3. QED
  BY <1>1, <1>2, Zenon

\* The captain looked for is no member, or one of them.
LEMMA LowestMember ==
  ASSUME TeamTypes, NEW g, NEW u \in TeamUsers
  PROVE  Lowest(Members(g)) \in Nat /\ Lowest(Members(g) \ {u}) \in Nat /\ Lowest(Members(g) \ {u}) # u
<1>1. Members(g) \in SUBSET Nat /\ Members(g) \ {u} \in SUBSET Nat /\ u # 0
  BY TeamAssumption, Zenon DEF TeamTypes, TeamTablesOK, Members
<1>2. QED
  BY <1>1, LowestOf, Zenon

\* A row number that is not 0 and not beyond the rows is the number of a group.
LEMMA GroupId ==
  ASSUME TeamTypes, NEW g \in Nat, g # 0, g <= ngroups
  PROVE  g \in GroupIds
  BY TeamAssumption DEF TeamTypes, TeamTablesOK, GroupIds

\* Init establishes the invariant.
LEMMA InitTeamInv == TeamInit => TeamInv
<1> SUFFICES ASSUME TeamInit PROVE TeamInv
  BY Zenon
<1>1. TeamTablesOK
  BY TeamAssumption DEF TeamInit, TeamTablesOK
<1>2. InvitesOK /\ OnePendingInvite
  BY Zenon DEF TeamInit, InvitesOK, OnePendingInvite, Pending, Stages
<1>3. RegistersOK
  BY Zenon DEF TeamInit, RegistersOK, Statements
<1>4. ASSUME NEW p \in TeamProcs PROVE TeamProcOK(p)
  <2>1. FlowOK(p) /\ NamesOK(p)
    BY <1>4 DEF TeamInit, FlowOK, NamesOK, Ops
  <2>2. HeldOK(p) /\ HeirOK(p) /\ InsertOK(p)
    BY <1>4, Zenon DEF TeamInit, HeldOK, ActorHeld, OtherHeld, HeirOK, InsertOK
  <2>3. CaptainOK(p)
    BY <1>4, TeamAssumption, Zenon DEF TeamInit, CaptainOK
  <2>4. QED
    BY <2>1, <2>2, <2>3, Zenon DEF TeamProcOK
<1>5. CaptainIsMember
  BY Zenon DEF TeamInit, CaptainIsMember
<1>6. QED
  BY <1>1, <1>2, <1>3, <1>4, <1>5, Zenon DEF TeamInv, TeamTypes

-----------------------------------------------------------------------------
(* What a step of one request leaves to the others.                                 *)

SameRequest(r) == UNCHANGED <<pc[r], op[r], actor[r], other[r], grp[r], seen[r], own[r], inv[r], leaving[r]>>

\* A step on behalf of q: the rows locked by others stay as they are, deleted groups
\* stay deleted, and a new invitation is for a user whose row q has locked.
Frame(q) ==
    /\ \A r \in TeamProcs : r # q => SameRequest(r)
    /\ \A u \in TeamUsers : lockU[u] \notin {q, NoTeam} =>
          lockU'[u] = lockU[u] /\ groupOf'[u] = groupOf[u] /\ (u \in alive => u \in alive')
    /\ \A g \in GroupIds : lockG'[g] = lockG[g] \/ {lockG[g], lockG'[g]} \subseteq {q, NoTeam}
    /\ ngroups \in Nat /\ ngroups' \in Nat /\ ngroups <= ngroups'
    /\ \A g \in groups' : g \in groups \/ g > ngroups
    /\ \A i \in InviteIds : istatus'[i] = "pending" =>
          \/ istatus[i] = "pending" /\ igroup'[i] = igroup[i] /\ invitee'[i] = invitee[i]
          \/ invitee'[i] \in TeamUsers /\ lockU[invitee'[i]] = q

\* The promises of the other requests survive it.
LEMMA OthersKept ==
  ASSUME TeamTypes, NEW r \in TeamProcs, TeamProcOK(r), NEW q, q # r, Frame(q)
  PROVE  TeamProcOK(r)'
<1>0. r # NoTeam /\ SameRequest(r) /\ grp[r] \in Nat /\ leaving[r] \subseteq TeamUsers
  BY TeamAssumption, Zenon DEF Frame, TeamTypes, RegistersOK
<1>1. FlowOK(r)'
  BY <1>0 DEF TeamProcOK, FlowOK, SameRequest
<1>2. NamesOK(r)'
  <2>1. grp[r] <= ngroups' /\ (grp[r] \notin groups => grp[r] \notin groups')
    BY <1>0 DEF TeamProcOK, NamesOK, Frame
  <2>2. QED
    BY <1>0, <2>1, Zenon DEF TeamProcOK, NamesOK, SameRequest
<1>3. \A u \in TeamUsers : lockU[u] = r => lockU'[u] = r /\ groupOf'[u] = groupOf[u] /\ (u \in alive => u \in alive')
  BY <1>0, Zenon DEF Frame
<1>4. (ActorHeld(r) => actor[r] \in TeamUsers) /\ (OtherHeld(r) => other[r] \in TeamUsers)
  BY Zenon DEF TeamProcOK, NamesOK, ActorHeld, OtherHeld, Ops
<1>5. HeldOK(r)'
  <2>1. (ActorHeld(r)' <=> ActorHeld(r)) /\ (OtherHeld(r)' <=> OtherHeld(r))
    BY <1>0, Zenon DEF ActorHeld, OtherHeld, SameRequest
  <2>2. QED
    BY <1>0, <1>3, <1>4, <2>1 DEF TeamProcOK, HeldOK, SameRequest
<1>6. \A g \in GroupIds : lockG'[g] = r <=> lockG[g] = r
  BY <1>0 DEF Frame
<1>7. CaptainOK(r)'
  BY <1>0, <1>6, Zenon DEF TeamProcOK, CaptainOK, SameRequest
<1>8. HeirOK(r)'
  <2>1. grp[r] # 0 => grp[r] \in GroupIds
    BY <1>0, GroupId, Zenon DEF TeamProcOK, NamesOK
  <2>2. grp[r] \in groups' => grp[r] \in groups
    BY <1>0 DEF TeamProcOK, NamesOK, Frame
  <2>3. QED
    BY <1>0, <1>6, <2>1, <2>2, Zenon DEF TeamProcOK, HeirOK, SameRequest
<1>9. InsertOK(r)'
  <2>1. SUFFICES ASSUME op[r] = "invite", pc[r] = "commit", inv[r] = 0, NEW i \in InviteIds,
                        istatus'[i] = "pending", igroup'[i] = grp[r], invitee'[i] = other[r]
                 PROVE  FALSE
    BY <1>0, Zenon DEF InsertOK, Pending, SameRequest
  <2>2. lockU[other[r]] = r
    BY <2>1, Zenon DEF TeamProcOK, HeldOK, OtherHeld
  <2>3. istatus[i] = "pending" /\ igroup'[i] = igroup[i] /\ invitee'[i] = invitee[i]
    BY <2>1, <2>2, Zenon DEF Frame
  <2>4. QED
    BY <2>1, <2>3, Zenon DEF TeamProcOK, InsertOK, Pending
<1>10. QED
  BY <1>1, <1>2, <1>5, <1>7, <1>8, <1>9, Zenon DEF TeamProcOK

\* So the invariant is kept when the tables are, and the request's own promises.
LEMMA StepKeeps ==
  ASSUME TeamInv, NEW q, Frame(q), TeamTypes', q \in TeamProcs => TeamProcOK(q)',
         OnePendingInvite', CaptainIsMember'
  PROVE  TeamInv'
  BY OthersKept, Zenon DEF TeamInv

\* A statement: locks are taken, nothing is written.
LEMMA StatementKeeps ==
  ASSUME TeamInv, NEW p \in TeamProcs, UNCHANGED <<teamTables, teamHistory>>, RegistersOK',
         \A r \in TeamProcs : r # p => SameRequest(r),
         \A u \in TeamUsers : lockU'[u] = lockU[u] \/ lockU[u] \in {NoTeam, p},
         \A g \in GroupIds : lockG'[g] = lockG[g] \/ (lockG[g] \in {NoTeam, p} /\ lockG'[g] = p),
         TeamProcOK(p)'
  PROVE  TeamInv'
<1>1. TeamTablesOK' /\ InvitesOK' /\ OnePendingInvite' /\ CaptainIsMember'
  BY Zenon DEF TeamInv, TeamTypes, TeamTablesOK, InvitesOK, OnePendingInvite, CaptainIsMember, Pending, Members,
     teamTables, userRows, groupRows, inviteRows, teamHistory
<1>2. ngroups \in Nat /\ ngroups' = ngroups
  BY Zenon DEF TeamInv, TeamTypes, TeamTablesOK, teamTables, groupRows
<1>3. Frame(p)
  BY <1>2 DEF Frame, teamTables, userRows, groupRows, inviteRows
<1>4. QED
  BY <1>1, <1>3, StepKeeps, Zenon DEF TeamTypes

-----------------------------------------------------------------------------
(* The statements, one lemma each.                                                  *)

\* A request arrives.
LEMMA BeginTeam ==
  ASSUME TeamInv, NEW p \in TeamProcs, NEW o \in Ops, NEW u \in Nat, NEW v \in Nat, NEW g \in Nat, NEW i \in Nat,
         TeamBegin(p, o, u, v, g, i), g <= ngroups, o \in {"update", "detail", "drop"} => g # 0,
         o \notin {"detail", "drop"} => u \in TeamUsers, o \in {"invite", "remove", "transfer"} => v \in TeamUsers
  PROVE  TeamInv'
<1>0. TeamProcOK(p) /\ TeamTypes
  BY Zenon DEF TeamInv
<1>1. /\ pc[p] = "idle" /\ pc'[p] = First(o) /\ op'[p] = o /\ actor'[p] = u /\ other'[p] = v /\ grp'[p] = g
      /\ UNCHANGED <<lockU, lockG, seen, own, leaving>>
  BY <1>0, Zenon DEF TeamBegin, TeamTypes, RegistersOK, locks
<1>2. op[p] = "none" /\ leaving[p] = {} /\ seen[p] = 0 /\ own[p] = 0 /\ \A h \in GroupIds : lockG[h] # p
  BY <1>0, <1>1, Zenon DEF TeamProcOK, FlowOK, CaptainOK, HeldOK
<1>3. First(o) \in {"invitation", "group", "actor"}
  BY Zenon DEF First
<1>4. RegistersOK'
  BY <1>0, <1>3, Zenon DEF TeamBegin, TeamTypes, RegistersOK, locks, Statements
<1>5. FlowOK(p)'
  BY <1>1, Zenon DEF FlowOK, First, Ops
<1>6. NamesOK(p)' /\ HeldOK(p)' /\ InsertOK(p)'
  <2>1. ngroups' = ngroups
    BY Zenon DEF TeamBegin, teamTables, groupRows
  <2>2. NamesOK(p)'
    BY <1>1, <1>3, <2>1, Zenon DEF NamesOK, First, Ops
  <2>3. HeldOK(p)' /\ InsertOK(p)'
    BY <1>1, <1>2, Zenon DEF HeldOK, InsertOK, ActorHeld, OtherHeld, First
  <2>4. QED
    BY <2>2, <2>3, Zenon
<1>7. CaptainOK(p)' /\ HeirOK(p)'
  BY <1>1, <1>2, <1>3, Zenon DEF CaptainOK, HeirOK, First, Ops
<1>8. \A r \in TeamProcs : r # p => SameRequest(r)
  BY <1>0, Zenon DEF TeamBegin, TeamTypes, RegistersOK, SameRequest
<1>9. QED
  BY <1>1, <1>4, <1>5, <1>6, <1>7, <1>8, StatementKeeps, Zenon DEF TeamBegin, TeamProcOK

\* SELECT the acting user, FOR UPDATE where the operation says so.
LEMMA ReadActorTeam ==
  ASSUME TeamInv, NEW p \in TeamProcs, ReadActor(p)
  PROVE  TeamInv'
<1>0. TeamProcOK(p) /\ TeamTypes
  BY Zenon DEF TeamInv
<1>1. /\ pc[p] = "actor" /\ UNCHANGED <<groupOf, alive, groups, ngroups, lockG, op, actor, other, seen, own, inv, leaving>>
      /\ actor[p] \in alive /\ actor[p] \in TeamUsers
      /\ LocksActor(op[p]) => lockU[actor[p]] \in {NoTeam, p} /\ lockU'[actor[p]] = p
      /\ \A u \in TeamUsers : lockU'[u] = lockU[u] \/ (u = actor[p] /\ lockU[u] \in {NoTeam, p})
  BY <1>0, Zenon DEF ReadActor, TeamTypes, TeamTablesOK, RegistersOK, teamTables, userRows, groupRows, Free
<1>2. \/ op[p] = "create" /\ groupOf[actor[p]] = 0 /\ pc'[p] = "commit" /\ grp'[p] = grp[p]
      \/ op[p] = "accept" /\ groupOf[actor[p]] = 0 /\ pc'[p] = "group" /\ grp'[p] = grp[p]
      \/ op[p] = "update" /\ pc'[p] = (IF own[p] = 0 THEN "ensure" ELSE "store") /\ grp'[p] = grp[p]
      \/ /\ op[p] \in {"invite", "remove", "transfer", "leave", "disband"}
         /\ pc'[p] = "group" /\ grp'[p] = groupOf[actor[p]] /\ groupOf[actor[p]] # 0
      \/ op[p] = "delete" /\ grp'[p] = groupOf[actor[p]] /\ pc'[p] = (IF groupOf[actor[p]] = 0 THEN "invites" ELSE "group")
  BY <1>0, Zenon DEF ReadActor, TeamTypes, RegistersOK, TeamGoto
<1>3. groupOf[actor[p]] \in Nat /\ groupOf[actor[p]] <= ngroups
  BY <1>0, <1>1, Zenon DEF TeamTypes, TeamTablesOK
<1>4. RegistersOK'
  <2>1. pc' \in [TeamProcs -> Statements] /\ grp' \in [TeamProcs -> Nat]
    BY <1>0, <1>3, Zenon DEF ReadActor, TeamTypes, RegistersOK, TeamGoto, Statements
  <2>2. lockU' \in [TeamUsers -> TeamProcs \cup {NoTeam}]
    BY <1>0, Zenon DEF ReadActor, TeamTypes, RegistersOK
  <2>3. QED
    BY <1>0, <1>1, <2>1, <2>2, Zenon DEF TeamTypes, RegistersOK
<1>5. leaving[p] = {}
  BY <1>0, <1>1, Zenon DEF TeamProcOK, HeldOK
<1>6. FlowOK(p)'
  BY <1>0, <1>1, <1>2, Zenon DEF TeamProcOK, FlowOK
<1>7. NamesOK(p)'
  BY <1>0, <1>1, <1>2, <1>3, Zenon DEF TeamProcOK, NamesOK, Ops
<1>8. HeldOK(p)' /\ InsertOK(p)'
  BY <1>0, <1>1, <1>2, <1>5, Zenon DEF HeldOK, InsertOK, ActorHeld, OtherHeld, LocksActor
<1>9. CaptainOK(p)'
  BY <1>0, <1>1, <1>2, Zenon DEF TeamProcOK, CaptainOK, FlowOK
<1>10. HeirOK(p)'
  BY <1>0, <1>1, <1>2, TeamAssumption DEF TeamProcOK, HeirOK, TeamTypes, TeamTablesOK, GroupIds
<1>11. \A r \in TeamProcs : r # p => SameRequest(r)
  BY <1>0, Zenon DEF ReadActor, TeamTypes, RegistersOK, TeamGoto, SameRequest
<1>12. QED
  BY <1>1, <1>4, <1>6, <1>7, <1>8, <1>9, <1>10, <1>11, StatementKeeps, Zenon DEF ReadActor, TeamProcOK

\* SELECT the group.
LEMMA ReadGroupTeam ==
  ASSUME TeamInv, NEW p \in TeamProcs, ReadGroup(p)
  PROVE  TeamInv'
<1> DEFINE g == IF op[p] = "accept" THEN igroup[inv[p]] ELSE grp[p]
<1>0. TeamProcOK(p) /\ TeamTypes
  BY Zenon DEF TeamInv
<1>1. /\ pc[p] = "group" /\ op[p] \notin {"delete", "drop"} /\ g \in groups
      /\ UNCHANGED <<groupOf, alive, groups, ngroups, lockU, op, actor, other, inv, leaving>>
      /\ grp'[p] = g /\ seen'[p] = owner[g] /\ own'[p] = owner[g]
      /\ pc'[p] = IF op[p] = "update" THEN "actor"
                  ELSE IF op[p] # "accept" /\ owner[g] = 0 THEN "ensure" ELSE AfterGroup(op[p])
      /\ \A h \in GroupIds : lockG'[h] = lockG[h] \/ (lockG[h] \in {NoTeam, p} /\ lockG'[h] = p)
  BY <1>0, Zenon DEF ReadGroup, TeamTypes, TeamTablesOK, RegistersOK, TeamGoto, teamTables, userRows, groupRows, Free
<1>2. g \in GroupIds /\ g \in Nat /\ g # 0 /\ g <= ngroups /\ owner[g] \in Nat
  <2>1. \A h \in groups : h \in GroupIds /\ h <= ngroups /\ owner[h] \in Nat
    BY <1>0, Zenon DEF TeamTypes, TeamTablesOK
  <2>2. \A h \in GroupIds : h \in Nat /\ h # 0
    BY TeamAssumption DEF GroupIds
  <2>3. QED
    BY <1>1, <2>1, <2>2, Zenon
<1>3. op[p] # "accept" => g = grp[p]
  BY Zenon
<1>4. RegistersOK'
  <2>1. pc' \in [TeamProcs -> Statements]
    BY <1>0, Zenon DEF ReadGroup, TeamTypes, RegistersOK, TeamGoto, Statements, AfterGroup
  <2>2. grp' \in [TeamProcs -> Nat] /\ seen' \in [TeamProcs -> Nat] /\ own' \in [TeamProcs -> Nat]
    BY <1>0, <1>2, Zenon DEF ReadGroup, TeamTypes, RegistersOK
  <2>3. lockG' \in [GroupIds -> TeamProcs \cup {NoTeam}]
    BY <1>0, Zenon DEF ReadGroup, TeamTypes, RegistersOK
  <2>4. QED
    BY <1>0, <1>1, <2>1, <2>2, <2>3, Zenon DEF TeamTypes, RegistersOK
<1>5. \A r \in TeamProcs : r # p => SameRequest(r)
  BY <1>0, Zenon DEF ReadGroup, TeamTypes, RegistersOK, TeamGoto, SameRequest
<1> HIDE DEF g
<1>6. FlowOK(p)'
  BY <1>0, <1>1, Zenon DEF TeamProcOK, FlowOK, AfterGroup, Ops
<1>7. NamesOK(p)'
  BY <1>0, <1>1, <1>2, Zenon DEF TeamProcOK, NamesOK, AfterGroup, Ops
<1>8. HeldOK(p)' /\ InsertOK(p)'
  <2>1. leaving[p] = {}
    BY <1>0, <1>1, Zenon DEF TeamProcOK, HeldOK
  <2>2. HeldOK(p)'
    BY <1>0, <1>1, <1>3, <2>1, Zenon DEF TeamProcOK, HeldOK, ActorHeld, OtherHeld, AfterGroup
  <2>3. InsertOK(p)'
    BY <1>0, <1>1, Zenon DEF InsertOK, AfterGroup
  <2>4. QED
    BY <2>2, <2>3, Zenon
<1>9. CaptainOK(p)' /\ HeirOK(p)'
  BY <1>0, <1>1, Zenon DEF TeamProcOK, CaptainOK, HeirOK, FlowOK, AfterGroup
<1>10. QED
  BY <1>1, <1>4, <1>5, <1>6, <1>7, <1>8, <1>9, StatementKeeps, Zenon DEF ReadGroup, TeamProcOK

\* ensureGroupOwner looks for a captain.
LEMMA EnsureTeam ==
  ASSUME TeamInv, NEW p \in TeamProcs, EnsureGroupOwner(p)
  PROVE  TeamInv'
<1>0. TeamProcOK(p) /\ TeamTypes
  BY Zenon DEF TeamInv
<1>1. /\ pc[p] = "ensure" /\ UNCHANGED <<groupOf, alive, groups, ngroups, lockU, lockG, op, actor, other, grp, seen, inv, leaving>>
      /\ pc'[p] = "store" \/ pc'[p] = AfterGroup(op[p])
  BY <1>0, Zenon DEF EnsureGroupOwner, TeamTypes, RegistersOK, TeamGoto, teamTables, userRows, groupRows, locks
<1>2. Lowest(Members(grp[p])) \in Nat
  <2>1. Members(grp[p]) \in SUBSET Nat
    BY <1>0, TeamAssumption, Zenon DEF TeamTypes, TeamTablesOK, Members
  <2>2. QED
    BY <2>1, LowestOf, Zenon
<1>3. RegistersOK'
  <2>1. pc' \in [TeamProcs -> Statements]
    BY <1>0, Zenon DEF EnsureGroupOwner, TeamTypes, RegistersOK, TeamGoto, Statements, AfterGroup
  <2>2. own' \in [TeamProcs -> Nat]
    BY <1>0, <1>2, Zenon DEF EnsureGroupOwner, TeamTypes, RegistersOK
  <2>3. QED
    BY <1>0, <1>1, <2>1, <2>2, Zenon DEF TeamTypes, RegistersOK
<1>4. op[p] \in {"update", "invite", "remove", "transfer", "leave", "disband", "detail"} /\ leaving[p] = {} /\ seen[p] = 0
  BY <1>0, <1>1, Zenon DEF TeamProcOK, FlowOK, HeldOK, CaptainOK, Ops
<1>5. FlowOK(p)'
  <2>1. op[p] = "update" => pc'[p] = "store"
    BY <1>0, Zenon DEF EnsureGroupOwner, TeamTypes, RegistersOK, TeamGoto
  <2>2. QED
    BY <1>1, <1>4, <2>1, Zenon DEF FlowOK, AfterGroup, Ops
<1>6. NamesOK(p)'
  BY <1>0, <1>1, <1>4, Zenon DEF TeamProcOK, NamesOK, AfterGroup, Ops
<1>7. HeldOK(p)' /\ InsertOK(p)'
  BY <1>0, <1>1, <1>4, Zenon DEF TeamProcOK, HeldOK, InsertOK, ActorHeld, OtherHeld, AfterGroup
<1>8. CaptainOK(p)' /\ HeirOK(p)'
  <2>1. op[p] = "detail" \/ pc'[p] # "commit"
    BY <1>1, <1>4, Zenon DEF AfterGroup
  <2>2. pc'[p] \in {"store", "target", "members", "commit", "invites"} /\ (op[p] = "remove" => pc'[p] \in {"store", "target"})
    BY <1>1, <1>4, Zenon DEF AfterGroup
  <2>3. QED
    BY <1>1, <1>4, <2>1, <2>2, Zenon DEF CaptainOK, HeirOK
<1>9. \A r \in TeamProcs : r # p => SameRequest(r)
  BY <1>0, Zenon DEF EnsureGroupOwner, TeamTypes, RegistersOK, TeamGoto, SameRequest
<1>10. QED
  BY <1>1, <1>3, <1>5, <1>6, <1>7, <1>8, <1>9, StatementKeeps, Zenon DEF EnsureGroupOwner, TeamProcOK

\* The UPDATE of groups locks the row.
LEMMA StoreOwnerTeam ==
  ASSUME TeamInv, NEW p \in TeamProcs, StoreOwner(p)
  PROVE  TeamInv'
<1>0. TeamProcOK(p) /\ TeamTypes
  BY Zenon DEF TeamInv
<1>1. /\ pc[p] = "store" /\ UNCHANGED <<groupOf, alive, groups, ngroups, lockU, op, actor, other, grp, seen, own, inv, leaving>>
      /\ pc'[p] = (IF op[p] = "update" THEN "commit" ELSE AfterGroup(op[p]))
      /\ \A h \in GroupIds : lockG'[h] = IF h = grp[p] THEN p ELSE lockG[h]
      /\ lockG[grp[p]] \in {NoTeam, p}
  BY <1>0, Zenon DEF StoreOwner, TeamTypes, RegistersOK, TeamGoto, teamTables, userRows, groupRows, Free
<1>2. RegistersOK'
  <2>1. pc' \in [TeamProcs -> Statements]
    BY <1>0, Zenon DEF StoreOwner, TeamTypes, RegistersOK, TeamGoto, Statements, AfterGroup
  <2>2. lockG' \in [GroupIds -> TeamProcs \cup {NoTeam}]
    BY <1>0, Zenon DEF StoreOwner, TeamTypes, RegistersOK
  <2>3. QED
    BY <1>0, <1>1, <2>1, <2>2, Zenon DEF TeamTypes, RegistersOK
<1>3. op[p] \in {"update", "invite", "remove", "transfer", "leave", "disband", "detail", "delete"} /\ leaving[p] = {}
  BY <1>0, <1>1, Zenon DEF TeamProcOK, FlowOK, HeldOK, Ops
<1>4. FlowOK(p)'
  BY <1>1, <1>3, Zenon DEF FlowOK, AfterGroup, Ops
<1>5. NamesOK(p)'
  BY <1>0, <1>1, <1>3, Zenon DEF TeamProcOK, NamesOK, AfterGroup, Ops
<1>6. HeldOK(p)' /\ InsertOK(p)'
  BY <1>0, <1>1, <1>3, Zenon DEF TeamProcOK, HeldOK, InsertOK, ActorHeld, OtherHeld, AfterGroup
<1>7. CaptainOK(p)'
  BY <1>0, <1>1, <1>3, Zenon DEF TeamProcOK, CaptainOK, AfterGroup
<1>8. HeirOK(p)'
  <2>1. op[p] = "delete" => grp[p] \in GroupIds
    BY <1>0, <1>1, GroupId, Zenon DEF TeamProcOK, NamesOK, TeamTypes, RegistersOK
  <2>2. op[p] = "delete" => pc'[p] = "invites" /\ seen[p] = actor[p] /\ own[p] # actor[p] /\ grp[p] # 0
    BY <1>0, <1>1, Zenon DEF TeamProcOK, HeirOK, NamesOK, AfterGroup
  <2>3. QED
    BY <1>1, <2>1, <2>2, Zenon DEF HeirOK
<1>9. \A r \in TeamProcs : r # p => SameRequest(r)
  BY <1>0, Zenon DEF StoreOwner, TeamTypes, RegistersOK, TeamGoto, SameRequest
<1>10. QED
  BY <1>1, <1>2, <1>4, <1>5, <1>6, <1>7, <1>8, <1>9, StatementKeeps, Zenon DEF StoreOwner, TeamProcOK

\* DeleteUser looks whether its user is a captain.
LEMMA ReadOwnedGroupTeam ==
  ASSUME TeamInv, NEW p \in TeamProcs, ReadOwnedGroup(p)
  PROVE  TeamInv'
<1>0. TeamProcOK(p) /\ TeamTypes
  BY Zenon DEF TeamInv
<1>1. /\ pc[p] = "group" /\ op[p] = "delete"
      /\ UNCHANGED <<groupOf, alive, groups, ngroups, lockU, lockG, op, actor, other, grp, own, inv, leaving>>
      /\ seen'[p] = owner[grp[p]]
      /\ pc'[p] = (IF grp[p] \in groups /\ owner[grp[p]] = actor[p] THEN "replace" ELSE "invites")
  BY <1>0, Zenon DEF ReadOwnedGroup, TeamTypes, RegistersOK, TeamGoto, teamTables, userRows, groupRows, locks
<1>2. grp[p] \in GroupIds /\ grp[p] # 0
  BY <1>0, <1>1, GroupId, Zenon DEF TeamProcOK, NamesOK, TeamTypes, RegistersOK
<1>3. RegistersOK'
  <2>1. owner[grp[p]] \in Nat
    BY <1>0, <1>2, Zenon DEF TeamTypes, TeamTablesOK
  <2>2. pc' \in [TeamProcs -> Statements] /\ seen' \in [TeamProcs -> Nat]
    BY <1>0, <2>1, Zenon DEF ReadOwnedGroup, TeamTypes, RegistersOK, TeamGoto, Statements
  <2>3. QED
    BY <1>0, <1>1, <2>2, Zenon DEF TeamTypes, RegistersOK
<1>4. FlowOK(p)' /\ NamesOK(p)'
  BY <1>0, <1>1, <1>2, Zenon DEF TeamProcOK, FlowOK, NamesOK, Ops
<1>5. HeldOK(p)' /\ InsertOK(p)' /\ CaptainOK(p)'
  BY <1>0, <1>1, Zenon DEF TeamProcOK, HeldOK, InsertOK, ActorHeld, OtherHeld, CaptainOK
<1>6. HeirOK(p)'
  BY <1>0, <1>1, <1>2, Zenon DEF TeamProcOK, HeirOK
<1>7. \A r \in TeamProcs : r # p => SameRequest(r)
  BY <1>0, Zenon DEF ReadOwnedGroup, TeamTypes, RegistersOK, TeamGoto, SameRequest
<1>8. QED
  BY <1>1, <1>3, <1>4, <1>5, <1>6, <1>7, StatementKeeps, Zenon DEF ReadOwnedGroup, TeamProcOK

\* DeleteUser looks for the next captain.
LEMMA ReplacementTeam ==
  ASSUME TeamInv, NEW p \in TeamProcs, Replacement(p)
  PROVE  TeamInv'
<1>0. TeamProcOK(p) /\ TeamTypes
  BY Zenon DEF TeamInv
<1>1. /\ pc[p] = "replace" /\ UNCHANGED <<groupOf, alive, groups, ngroups, lockU, lockG, op, actor, other, grp, seen, inv, leaving>>
      /\ pc'[p] = "store" /\ own'[p] = Lowest(Members(grp[p]) \ {actor[p]})
  BY <1>0, Zenon DEF Replacement, TeamTypes, RegistersOK, TeamGoto, teamTables, userRows, groupRows, locks
<1>2. op[p] = "delete" /\ actor[p] \in TeamUsers
  BY <1>0, <1>1, Zenon DEF TeamProcOK, FlowOK, NamesOK, Ops
<1>3. own'[p] \in Nat /\ own'[p] # actor[p]
  BY <1>0, <1>1, <1>2, LowestMember, Zenon
<1>4. RegistersOK'
  <2>1. pc' \in [TeamProcs -> Statements] /\ own' \in [TeamProcs -> Nat]
    BY <1>0, <1>1, <1>3, Zenon DEF Replacement, TeamTypes, RegistersOK, TeamGoto, Statements
  <2>2. QED
    BY <1>0, <1>1, <2>1, Zenon DEF TeamTypes, RegistersOK
<1>5. FlowOK(p)' /\ NamesOK(p)'
  BY <1>0, <1>1, <1>2, Zenon DEF TeamProcOK, FlowOK, NamesOK, Ops
<1>6. HeldOK(p)' /\ InsertOK(p)' /\ CaptainOK(p)'
  BY <1>0, <1>1, <1>2, Zenon DEF TeamProcOK, HeldOK, InsertOK, ActorHeld, OtherHeld, CaptainOK
<1>7. HeirOK(p)'
  BY <1>0, <1>1, <1>2, <1>3, Zenon DEF TeamProcOK, HeirOK
<1>8. \A r \in TeamProcs : r # p => SameRequest(r)
  BY <1>0, Zenon DEF Replacement, TeamTypes, RegistersOK, TeamGoto, SameRequest
<1>9. QED
  BY <1>1, <1>4, <1>5, <1>6, <1>7, <1>8, StatementKeeps, Zenon DEF Replacement, TeamProcOK

\* SELECT the other user FOR UPDATE.
LEMMA ReadTargetTeam ==
  ASSUME TeamInv, NEW p \in TeamProcs, ReadTarget(p)
  PROVE  TeamInv'
<1>0. TeamProcOK(p) /\ TeamTypes
  BY Zenon DEF TeamInv
<1>1. op[p] \in {"invite", "remove", "transfer"} /\ other[p] \in TeamUsers /\ leaving[p] = {} /\ pc[p] = "target"
  BY <1>0, Zenon DEF ReadTarget, TeamProcOK, FlowOK, NamesOK, HeldOK, Ops
<1>2. /\ UNCHANGED <<groupOf, alive, groups, ngroups, lockG, op, actor, other, grp, seen, own, inv, leaving>>
      /\ other[p] \in alive /\ groupOf[other[p]] = (IF op[p] = "invite" THEN 0 ELSE grp[p])
      /\ lockU'[other[p]] = p /\ (op[p] = "remove" => other[p] # own[p])
      /\ \A u \in TeamUsers : lockU'[u] = lockU[u] \/ (u = other[p] /\ lockU[u] \in {NoTeam, p})
      /\ pc'[p] = (IF op[p] = "remove" THEN "invites" ELSE IF op[p] = "invite" THEN "existing" ELSE "commit")
  BY <1>0, <1>1, Zenon DEF ReadTarget, LocksTarget, TeamTypes, RegistersOK, TeamGoto, teamTables, userRows, groupRows, Free
<1>3. RegistersOK'
  <2>1. pc' \in [TeamProcs -> Statements]
    BY <1>0, Zenon DEF ReadTarget, TeamTypes, RegistersOK, TeamGoto, Statements
  <2>2. lockU' \in [TeamUsers -> TeamProcs \cup {NoTeam}]
    BY <1>0, Zenon DEF ReadTarget, TeamTypes, RegistersOK
  <2>3. QED
    BY <1>0, <1>2, <2>1, <2>2, Zenon DEF TeamTypes, RegistersOK
<1>4. FlowOK(p)' /\ NamesOK(p)'
  BY <1>0, <1>1, <1>2, Zenon DEF TeamProcOK, FlowOK, NamesOK, Ops
<1>5. HeldOK(p)'
  BY <1>1, <1>2, Zenon DEF HeldOK, ActorHeld, OtherHeld
<1>6. InsertOK(p)' /\ HeirOK(p)'
  BY <1>1, <1>2, Zenon DEF InsertOK, HeirOK
<1>7. CaptainOK(p)'
  BY <1>0, <1>1, <1>2, Zenon DEF TeamProcOK, CaptainOK
<1>8. \A r \in TeamProcs : r # p => SameRequest(r)
  BY <1>0, Zenon DEF ReadTarget, TeamTypes, RegistersOK, TeamGoto, SameRequest
<1>9. QED
  BY <1>2, <1>3, <1>4, <1>5, <1>6, <1>7, <1>8, StatementKeeps, Zenon DEF ReadTarget, TeamProcOK

\* InviteUser looks for a pending invitation.
LEMMA ReadExistingTeam ==
  ASSUME TeamInv, NEW p \in TeamProcs, ReadExisting(p)
  PROVE  TeamInv'
<1> DEFINE S == {i \in InviteIds : Pending(i) /\ igroup[i] = grp[p] /\ invitee[i] = other[p]}
<1>0. TeamProcOK(p) /\ TeamTypes
  BY Zenon DEF TeamInv
<1>1. /\ pc[p] = "existing" /\ UNCHANGED <<groupOf, alive, groups, ngroups, lockU, lockG, op, actor, other, grp, seen, own, leaving>>
      /\ pc'[p] = "commit" /\ inv'[p] = Lowest(S)
  BY <1>0, Zenon DEF ReadExisting, TeamTypes, RegistersOK, TeamGoto, teamTables, userRows, groupRows, locks
<1>2. op[p] = "invite" /\ leaving[p] = {}
  BY <1>0, <1>1, Zenon DEF TeamProcOK, FlowOK, HeldOK, Ops
<1>3. S \in SUBSET Nat /\ 0 \notin S
  BY TeamAssumption DEF InviteIds
<1>4. Lowest(S) \in Nat /\ (Lowest(S) = 0 => S = {})
  BY <1>3, LowestOf, Zenon
<1>5. RegistersOK'
  <2>1. pc' \in [TeamProcs -> Statements] /\ inv' \in [TeamProcs -> Nat]
    BY <1>0, <1>4, Zenon DEF ReadExisting, TeamTypes, RegistersOK, TeamGoto, Statements
  <2>2. QED
    BY <1>0, <1>1, <2>1, Zenon DEF TeamTypes, RegistersOK
<1>6. InsertOK(p)'
  <2>1. UNCHANGED <<istatus, igroup, invitee>>
    BY Zenon DEF ReadExisting, teamTables, inviteRows
  <2>2. QED
    BY <1>1, <1>4, <2>1, Zenon DEF InsertOK, Pending
<1> HIDE DEF S
<1>7. FlowOK(p)' /\ NamesOK(p)'
  BY <1>0, <1>1, <1>2, Zenon DEF TeamProcOK, FlowOK, NamesOK, Ops
<1>8. HeldOK(p)'
  BY <1>0, <1>1, <1>2, Zenon DEF TeamProcOK, HeldOK, ActorHeld, OtherHeld
<1>9. CaptainOK(p)' /\ HeirOK(p)'
  BY <1>0, <1>1, <1>2, Zenon DEF TeamProcOK, CaptainOK, HeirOK
<1>10. \A r \in TeamProcs : r # p => SameRequest(r)
  BY <1>0, Zenon DEF ReadExisting, TeamTypes, RegistersOK, TeamGoto, SameRequest
<1>11. QED
  BY <1>1, <1>5, <1>6, <1>7, <1>8, <1>9, <1>10, StatementKeeps, Zenon DEF ReadExisting, TeamProcOK

\* SELECT the invitation FOR UPDATE.
LEMMA ReadInvitationTeam ==
  ASSUME TeamInv, NEW p \in TeamProcs, ReadInvitation(p)
  PROVE  TeamInv'
<1>0. TeamProcOK(p) /\ TeamTypes
  BY Zenon DEF TeamInv
<1>1. /\ pc[p] = "invitation" /\ UNCHANGED <<groupOf, alive, groups, ngroups, lockU, lockG, op, actor, other, grp, seen, own, inv, leaving>>
      /\ pc'[p] = (IF op[p] = "accept" THEN "actor" ELSE "commit")
  BY <1>0, Zenon DEF ReadInvitation, TeamTypes, RegistersOK, TeamGoto, teamTables, userRows, groupRows
<1>2. op[p] \in {"accept", "reject"} /\ leaving[p] = {}
  BY <1>0, <1>1, Zenon DEF TeamProcOK, FlowOK, HeldOK, Ops
<1>3. RegistersOK'
  <2>1. pc' \in [TeamProcs -> Statements]
    BY <1>0, Zenon DEF ReadInvitation, TeamTypes, RegistersOK, TeamGoto, Statements
  <2>2. QED
    BY <1>0, <1>1, <2>1, Zenon DEF TeamTypes, RegistersOK
<1>4. FlowOK(p)' /\ NamesOK(p)'
  BY <1>0, <1>1, <1>2, Zenon DEF TeamProcOK, FlowOK, NamesOK, Ops
<1>5. HeldOK(p)' /\ InsertOK(p)' /\ HeirOK(p)'
  BY <1>1, <1>2, Zenon DEF HeldOK, InsertOK, ActorHeld, OtherHeld, HeirOK
<1>6. CaptainOK(p)'
  <2>1. own[p] = seen[p]
    BY <1>0, <1>1, <1>2, Zenon DEF TeamProcOK, CaptainOK
  <2>2. QED
    BY <1>1, <1>2, <2>1, Zenon DEF CaptainOK
<1>7. \A r \in TeamProcs : r # p => SameRequest(r)
  BY <1>0, Zenon DEF ReadInvitation, TeamTypes, RegistersOK, TeamGoto, SameRequest
<1>8. QED
  BY <1>1, <1>3, <1>4, <1>5, <1>6, <1>7, StatementKeeps, Zenon DEF ReadInvitation, TeamProcOK

\* DisbandTeam's UPDATE locks the members.
LEMMA ResetMembersTeam ==
  ASSUME TeamInv, NEW p \in TeamProcs, ResetMembers(p)
  PROVE  TeamInv'
<1>0. TeamProcOK(p) /\ TeamTypes
  BY Zenon DEF TeamInv
<1>1. /\ pc[p] = "members" /\ UNCHANGED <<groupOf, alive, groups, ngroups, lockG, op, actor, other, grp, seen, own, inv>>
      /\ pc'[p] = "invites" /\ leaving'[p] = Members(grp[p])
      /\ \A u \in Members(grp[p]) : lockU[u] \in {NoTeam, p}
      /\ \A u \in TeamUsers : lockU'[u] = IF u \in Members(grp[p]) THEN p ELSE lockU[u]
  BY <1>0, Zenon DEF ResetMembers, TeamTypes, RegistersOK, TeamGoto, teamTables, userRows, groupRows, Free
<1>2. op[p] = "disband"
  BY <1>0, <1>1, Zenon DEF TeamProcOK, FlowOK, Ops
<1>3. Members(grp[p]) \subseteq TeamUsers /\ \A u \in Members(grp[p]) : groupOf[u] = grp[p]
  BY <1>0, Zenon DEF TeamTypes, TeamTablesOK, Members
<1>4. RegistersOK'
  <2>1. pc' \in [TeamProcs -> Statements] /\ leaving' \in [TeamProcs -> SUBSET TeamUsers]
    BY <1>0, <1>3, Zenon DEF ResetMembers, TeamTypes, RegistersOK, TeamGoto, Statements
  <2>2. lockU' \in [TeamUsers -> TeamProcs \cup {NoTeam}]
    BY <1>0, Zenon DEF ResetMembers, TeamTypes, RegistersOK
  <2>3. QED
    BY <1>0, <1>1, <2>1, <2>2, Zenon DEF TeamTypes, RegistersOK
<1>5. FlowOK(p)' /\ NamesOK(p)'
  BY <1>0, <1>1, <1>2, Zenon DEF TeamProcOK, FlowOK, NamesOK, Ops
<1>6. HeldOK(p)'
  BY <1>1, <1>2, <1>3, Zenon DEF HeldOK, ActorHeld, OtherHeld
<1>7. InsertOK(p)' /\ HeirOK(p)' /\ CaptainOK(p)'
  BY <1>0, <1>1, <1>2, Zenon DEF TeamProcOK, InsertOK, HeirOK, CaptainOK
<1>8. \A r \in TeamProcs : r # p => SameRequest(r)
  BY <1>0, Zenon DEF ResetMembers, TeamTypes, RegistersOK, TeamGoto, SameRequest
<1>9. QED
  BY <1>1, <1>4, <1>5, <1>6, <1>7, <1>8, StatementKeeps, Zenon DEF ResetMembers, TeamProcOK

\* The UPDATE or DELETE of invitations locks them.
LEMMA UpdateInvitesTeam ==
  ASSUME TeamInv, NEW p \in TeamProcs, UpdateInvites(p)
  PROVE  TeamInv'
<1>0. TeamProcOK(p) /\ TeamTypes
  BY Zenon DEF TeamInv
<1>1. /\ pc[p] = "invites" /\ UNCHANGED <<groupOf, alive, groups, ngroups, lockU, lockG, op, actor, other, grp, seen, own, inv, leaving>>
      /\ pc'[p] = (IF op[p] = "delete" THEN "erase" ELSE "commit")
      /\ op[p] = "leave" => own[p] # actor[p]
  BY <1>0, Zenon DEF UpdateInvites, MayClose, TeamTypes, RegistersOK, TeamGoto, teamTables, userRows, groupRows
<1>2. op[p] \in {"remove", "leave", "disband", "accept", "delete"}
  BY <1>0, <1>1, Zenon DEF TeamProcOK, FlowOK, Ops
<1>3. RegistersOK'
  <2>1. pc' \in [TeamProcs -> Statements]
    BY <1>0, Zenon DEF UpdateInvites, TeamTypes, RegistersOK, TeamGoto, Statements
  <2>2. QED
    BY <1>0, <1>1, <2>1, Zenon DEF TeamTypes, RegistersOK
<1>4. FlowOK(p)' /\ NamesOK(p)'
  BY <1>0, <1>1, <1>2, Zenon DEF TeamProcOK, FlowOK, NamesOK, Ops
<1>5. HeldOK(p)'
  BY <1>0, <1>1, <1>2, Zenon DEF TeamProcOK, HeldOK, ActorHeld, OtherHeld
<1>6. InsertOK(p)' /\ HeirOK(p)'
  BY <1>0, <1>1, <1>2, Zenon DEF TeamProcOK, InsertOK, HeirOK
<1>7. CaptainOK(p)'
  BY <1>0, <1>1, <1>2, Zenon DEF TeamProcOK, CaptainOK
<1>8. \A r \in TeamProcs : r # p => SameRequest(r)
  BY <1>0, Zenon DEF UpdateInvites, TeamTypes, RegistersOK, TeamGoto, SameRequest
<1>9. QED
  BY <1>1, <1>3, <1>4, <1>5, <1>6, <1>7, <1>8, StatementKeeps, Zenon DEF UpdateInvites, TeamProcOK

\* DeleteUser's DELETE locks the user.
LEMMA EraseUserTeam ==
  ASSUME TeamInv, NEW p \in TeamProcs, EraseUser(p)
  PROVE  TeamInv'
<1>0. TeamProcOK(p) /\ TeamTypes
  BY Zenon DEF TeamInv
<1>1. /\ pc[p] = "erase" /\ UNCHANGED <<groupOf, alive, groups, ngroups, lockG, op, actor, other, grp, seen, own, inv, leaving>>
      /\ pc'[p] = "commit" /\ actor[p] \in TeamUsers /\ lockU[actor[p]] \in {NoTeam, p}
      /\ \A u \in TeamUsers : lockU'[u] = IF u = actor[p] THEN p ELSE lockU[u]
  BY <1>0, Zenon DEF EraseUser, TeamTypes, TeamTablesOK, RegistersOK, TeamGoto, teamTables, userRows, groupRows, Free
<1>2. op[p] = "delete" /\ leaving[p] = {}
  BY <1>0, <1>1, Zenon DEF TeamProcOK, FlowOK, HeldOK, Ops
<1>3. RegistersOK'
  <2>1. pc' \in [TeamProcs -> Statements] /\ lockU' \in [TeamUsers -> TeamProcs \cup {NoTeam}]
    BY <1>0, Zenon DEF EraseUser, TeamTypes, RegistersOK, TeamGoto, Statements
  <2>2. QED
    BY <1>0, <1>1, <2>1, Zenon DEF TeamTypes, RegistersOK
<1>4. FlowOK(p)' /\ NamesOK(p)'
  BY <1>0, <1>1, <1>2, Zenon DEF TeamProcOK, FlowOK, NamesOK, Ops
<1>5. HeldOK(p)' /\ InsertOK(p)' /\ CaptainOK(p)'
  BY <1>1, <1>2, Zenon DEF HeldOK, ActorHeld, OtherHeld, InsertOK, CaptainOK
<1>6. HeirOK(p)'
  BY <1>0, <1>1, <1>2, Zenon DEF TeamProcOK, HeirOK
<1>7. \A r \in TeamProcs : r # p => SameRequest(r)
  BY <1>0, Zenon DEF EraseUser, TeamTypes, RegistersOK, TeamGoto, SameRequest
<1>8. QED
  BY <1>1, <1>3, <1>4, <1>5, <1>6, <1>7, StatementKeeps, Zenon DEF EraseUser, TeamProcOK

-----------------------------------------------------------------------------
(* The commits, one lemma each.                                                     *)

\* The end of a transaction: its locks are free and its registers cleared.
LEMMA EndTeam ==
  ASSUME TeamInv, NEW p \in TeamProcs, End(p), ngroups' \in Nat
  PROVE  /\ RegistersOK' /\ TeamProcOK(p)'
         /\ \A r \in TeamProcs : r # p => SameRequest(r)
         /\ \A u \in TeamUsers : lockU[u] \notin {p, NoTeam} => lockU'[u] = lockU[u]
         /\ \A g \in GroupIds : lockG'[g] = lockG[g] \/ {lockG[g], lockG'[g]} \subseteq {p, NoTeam}
<1>0. TeamTypes /\ p # NoTeam
  BY TeamAssumption, Zenon DEF TeamInv
<1>1. RegistersOK'
  <2>1. lockU' \in [TeamUsers -> TeamProcs \cup {NoTeam}] /\ lockG' \in [GroupIds -> TeamProcs \cup {NoTeam}]
    BY <1>0, Zenon DEF End, TeamTypes, RegistersOK
  <2>2. pc' \in [TeamProcs -> Statements] /\ op' \in [TeamProcs -> Ops \cup {"none"}]
    BY <1>0, Zenon DEF End, TeamClear, TeamGoto, TeamTypes, RegistersOK, Statements
  <2>3. QED
    BY <1>0, <2>1, <2>2, Zenon DEF End, TeamClear, TeamTypes, RegistersOK
<1>2. /\ pc'[p] = "idle" /\ op'[p] = "none" /\ grp'[p] = 0 /\ seen'[p] = 0 /\ own'[p] = 0 /\ leaving'[p] = {}
      /\ \A g \in GroupIds : lockG'[g] # p
  BY <1>0, Zenon DEF End, TeamClear, TeamGoto, TeamTypes, RegistersOK
<1>3. TeamProcOK(p)'
  <2>1. FlowOK(p)' /\ NamesOK(p)'
    BY <1>2 DEF FlowOK, NamesOK, Ops
  <2>2. HeldOK(p)' /\ CaptainOK(p)' /\ HeirOK(p)' /\ InsertOK(p)'
    BY <1>2, Zenon DEF HeldOK, ActorHeld, OtherHeld, CaptainOK, HeirOK, InsertOK
  <2>3. QED
    BY <2>1, <2>2, Zenon DEF TeamProcOK
<1>4. \A r \in TeamProcs : r # p => SameRequest(r)
  BY <1>0, Zenon DEF End, TeamClear, TeamGoto, TeamTypes, RegistersOK, SameRequest
<1>5. /\ \A u \in TeamUsers : lockU[u] \notin {p, NoTeam} => lockU'[u] = lockU[u]
      /\ \A g \in GroupIds : lockG'[g] = lockG[g] \/ {lockG[g], lockG'[g]} \subseteq {p, NoTeam}
  BY <1>0, Zenon DEF End
<1>6. QED
  BY <1>1, <1>3, <1>4, <1>5, Zenon

\* So a commit keeps the invariant when its tables are right, when it writes only users
\* it has locked, and when it adds no invitation but for such a user.
LEMMA CommitKeeps ==
  ASSUME TeamInv, NEW p \in TeamProcs, End(p), TeamTablesOK', InvitesOK', OnePendingInvite', CaptainIsMember',
         \A u \in TeamUsers : lockU[u] \notin {p, NoTeam} => groupOf'[u] = groupOf[u] /\ (u \in alive => u \in alive'),
         ngroups <= ngroups', \A g \in groups' : g \in groups \/ g > ngroups,
         \A i \in InviteIds : istatus'[i] = "pending" =>
            \/ istatus[i] = "pending" /\ igroup'[i] = igroup[i] /\ invitee'[i] = invitee[i]
            \/ invitee'[i] \in TeamUsers /\ lockU[invitee'[i]] = p
  PROVE  TeamInv'
<1>1. ngroups \in Nat /\ ngroups' \in Nat
  BY Zenon DEF TeamInv, TeamTypes, TeamTablesOK
<1>2. RegistersOK' /\ TeamProcOK(p)' /\ Frame(p)
  BY <1>1, EndTeam, Zenon DEF Frame
<1>3. QED
  BY <1>2, StepKeeps, Zenon DEF TeamTypes

\* A request that fails leaves the tables as they were.
LEMMA RollbackTeam ==
  ASSUME TeamInv, NEW p \in TeamProcs, Rollback(p)
  PROVE  TeamInv'
<1>1. TeamTablesOK' /\ InvitesOK' /\ OnePendingInvite' /\ CaptainIsMember'
  BY Zenon DEF Rollback, TeamInv, TeamTypes, TeamTablesOK, InvitesOK, OnePendingInvite, CaptainIsMember, Pending, Members,
     teamTables, userRows, groupRows, inviteRows, teamHistory
<1>2. UNCHANGED <<groupOf, alive, ngroups, groups, istatus, igroup, invitee>> /\ ngroups \in Nat
  BY Zenon DEF Rollback, TeamInv, TeamTypes, TeamTablesOK, teamTables, userRows, groupRows, inviteRows
<1>3. ngroups <= ngroups'
  BY <1>2
<1>4. QED
  BY <1>1, <1>2, <1>3, CommitKeeps, Zenon DEF Rollback

\* What a transaction writes to owner_id: the captain it goes by, a member when that is
\* not the captain already, unless what it read has changed.
LEMMA CaptainWritten ==
  ASSUME TeamInv, NEW p \in TeamProcs, pc[p] = "commit", op[p] \notin {"transfer", "delete"}, CommitOwner(p),
         grp[p] \in GroupIds
  PROVE  /\ \A g \in GroupIds : g # grp[p] => owner'[g] = owner[g]
         /\ grp[p] \notin outdated' => /\ owner'[grp[p]] \in {0, own[p]}
                                       /\ owner'[grp[p]] # owner[grp[p]] => owner'[grp[p]] \in Members(grp[p])
<1>0. TeamTypes /\ TeamProcOK(p) /\ grp[p] # 0
  BY TeamAssumption DEF TeamInv, GroupIds
<1>1. \A g \in GroupIds : owner'[g] = IF g = grp[p] THEN NewOwner(p) ELSE owner[g]
  BY <1>0, Zenon DEF CommitOwner, TeamTypes, TeamTablesOK
<1>2. grp[p] \notin outdated' => /\ owner[grp[p]] = seen[p]
                                 /\ NewOwner(p) # owner[grp[p]] => NewOwner(p) \in Members(grp[p])
  BY Zenon DEF CommitOwner, Outdated
<1>3. seen[p] # 0 => own[p] = seen[p]
  BY <1>0, Zenon DEF TeamProcOK, CaptainOK
<1>4. NewOwner(p) = IF seen[p] = 0 /\ own[p] # 0 THEN own[p] ELSE owner[grp[p]]
  BY Zenon DEF NewOwner
<1>5. QED
  BY <1>1, <1>2, <1>3, <1>4, Zenon

\* The captains written are users' ids, of groups there are.
LEMMA OwnersTyped ==
  ASSUME TeamInv, NEW p \in TeamProcs, CommitOwner(p)
  PROVE  owner' \in [GroupIds -> Nat] /\ \A g \in GroupIds : g > ngroups => owner'[g] = 0
<1>0. TeamTypes /\ grp[p] \in Nat /\ grp[p] <= ngroups
  BY Zenon DEF TeamInv, TeamTypes, RegistersOK, TeamProcOK, NamesOK
<1>1. CASE grp[p] = 0
  BY <1>0, <1>1, Zenon DEF CommitOwner, TeamTypes, TeamTablesOK
<1>2. CASE grp[p] # 0
  <2>1. grp[p] \in GroupIds
    BY <1>0, <1>2, GroupId, Zenon
  <2>2. NewOwner(p) \in Nat
    BY <1>0, <2>1, Zenon DEF NewOwner, TeamTypes, TeamTablesOK, RegistersOK
  <2>3. owner' \in [GroupIds -> Nat] /\ \A g \in GroupIds : g # grp[p] => owner'[g] = owner[g]
    BY <1>0, <1>2, <2>1, <2>2, Zenon DEF CommitOwner, TeamTypes, TeamTablesOK
  <2>4. \A g \in GroupIds : g > ngroups => g # grp[p]
    BY <1>0 DEF TeamTypes, TeamTablesOK
  <2>5. QED
    BY <1>0, <2>3, <2>4, Zenon DEF TeamTypes, TeamTablesOK
<1>3. QED
  BY <1>1, <1>2, Zenon

\* TransferTeamOwner, UpdateTeam, GetTeamDetail.
LEMMA CommitGroupTeam ==
  ASSUME TeamInv, NEW p \in TeamProcs, CommitGroup(p)
  PROVE  TeamInv'
<1>0. TeamTypes /\ TeamProcOK(p)
  BY Zenon DEF TeamInv
<1>1. /\ pc[p] = "commit" /\ op[p] \in {"transfer", "update", "detail"} /\ CommitOwner(p) /\ End(p)
      /\ UNCHANGED <<alive, groupOf, ngroups, groups, ninvites, igroup, invitee, istatus>>
  BY Zenon DEF CommitGroup, userRows, inviteRows
<1>2. grp[p] \in GroupIds /\ grp[p] # 0
  BY <1>0, <1>1, GroupId, Zenon DEF TeamProcOK, NamesOK, TeamTypes, RegistersOK
<1>3. TeamTablesOK' /\ InvitesOK' /\ OnePendingInvite'
  <2>1. TeamTablesOK'
    BY <1>0, <1>1, OwnersTyped, Zenon DEF TeamTypes, TeamTablesOK
  <2>2. InvitesOK' /\ OnePendingInvite'
    BY <1>0, <1>1, Zenon DEF TeamInv, TeamTypes, InvitesOK, OnePendingInvite, Pending
  <2>3. QED
    BY <2>1, <2>2, Zenon
<1>4. CaptainIsMember'
  <2>1. SUFFICES ASSUME NEW g \in groups, g \notin outdated', owner'[g] # 0 PROVE owner'[g] \in Members(g)
    BY <1>1, Zenon DEF CaptainIsMember, Members
  <2>2. g \in GroupIds /\ g \notin outdated
    BY <1>0, <1>1, <2>1, Zenon DEF TeamTypes, TeamTablesOK, CommitOwner
  <2>3. owner[g] # 0 => owner[g] \in Members(g)
    BY <2>2, Zenon DEF TeamInv, CaptainIsMember
  <2>4. CASE op[p] # "transfer"
    BY <1>1, <1>2, <2>1, <2>2, <2>3, <2>4, CaptainWritten, Zenon
  <2>5. CASE op[p] = "transfer"
    <3>1. owner'[g] = IF g = grp[p] THEN other[p] ELSE owner[g]
      BY <1>0, <1>1, <1>2, <2>2, <2>5, Zenon DEF CommitOwner, NewOwner, TeamTypes, TeamTablesOK
    <3>2. other[p] \in Members(grp[p])
      BY <1>0, <1>1, <2>5, Zenon DEF TeamProcOK, HeldOK, OtherHeld, Members
    <3>3. QED
      BY <2>1, <2>3, <3>1, <3>2, Zenon
  <2>6. QED
    BY <2>4, <2>5, Zenon
<1>5. ngroups <= ngroups'
  BY <1>0, <1>1 DEF TeamTypes, TeamTablesOK
<1>6. QED
  BY <1>1, <1>3, <1>4, <1>5, CommitKeeps, Zenon

\* CreateTeamForUser: the user had no team and is the captain of the new one.
LEMMA CommitCreateTeam ==
  ASSUME TeamInv, NEW p \in TeamProcs, CommitCreate(p)
  PROVE  TeamInv' /\ groupOf[actor[p]] = 0
<1> DEFINE n == ngroups + 1
<1>0. TeamTypes /\ TeamProcOK(p)
  BY Zenon DEF TeamInv
<1>1. /\ pc[p] = "commit" /\ op[p] = "create" /\ End(p) /\ ngroups < MaxGroups /\ ngroups' = n /\ groups' = groups \cup {n}
      /\ UNCHANGED <<alive, ninvites, igroup, invitee, istatus, outdated>>
  BY Zenon DEF CommitCreate, inviteRows, teamHistory
<1>2. actor[p] \in TeamUsers /\ lockU[actor[p]] = p /\ actor[p] \in alive /\ groupOf[actor[p]] = 0
  BY <1>0, <1>1, Zenon DEF TeamProcOK, NamesOK, HeldOK, ActorHeld, Ops
<1>3. n \in GroupIds /\ n \in Nat /\ ngroups \in Nat /\ ngroups < n /\ n # 0 /\ n <= MaxGroups
  BY <1>0, <1>1, TeamAssumption DEF TeamTypes, TeamTablesOK, GroupIds
<1>4. /\ groupOf' \in [TeamUsers -> Nat] /\ owner' \in [GroupIds -> Nat]
      /\ \A u \in TeamUsers : groupOf'[u] = IF u = actor[p] THEN n ELSE groupOf[u]
      /\ \A g \in GroupIds : owner'[g] = IF g = n THEN actor[p] ELSE owner[g]
  BY <1>0, <1>2, <1>3, TeamAssumption, Zenon DEF CommitCreate, TeamTypes, TeamTablesOK, RegistersOK
<1> HIDE DEF n
<1>5. TeamTablesOK'
  <2>1. \A u \in TeamUsers : groupOf'[u] <= n
    BY <1>0, <1>3, <1>4 DEF TeamTypes, TeamTablesOK
  <2>2. \A g \in groups' : g \in GroupIds /\ g <= n
    <3>1. \A g \in groups : g \in GroupIds /\ g <= ngroups
      BY <1>0, Zenon DEF TeamTypes, TeamTablesOK
    <3>2. \A g \in GroupIds : g <= ngroups => g <= n
      BY <1>3 DEF GroupIds
    <3>3. n <= n
      BY <1>3
    <3>4. QED
      BY <1>1, <1>3, <3>1, <3>2, <3>3, Zenon
  <2>3. \A g \in GroupIds : g > n => owner'[g] = 0
    BY <1>0, <1>3, <1>4, TeamAssumption, SMTT(30) DEF TeamTypes, TeamTablesOK, GroupIds
  <2>4. QED
    BY <1>0, <1>1, <1>3, <1>4, <2>1, <2>2, <2>3, Zenon DEF TeamTypes, TeamTablesOK
<1>6. InvitesOK' /\ OnePendingInvite'
  BY <1>0, <1>1, Zenon DEF TeamInv, TeamTypes, InvitesOK, OnePendingInvite, Pending
<1>7. CaptainIsMember'
  <2>1. SUFFICES ASSUME NEW g \in groups', g \notin outdated, owner'[g] # 0
                 PROVE  owner'[g] \in alive /\ groupOf'[owner'[g]] = g
    BY <1>1, Zenon DEF CaptainIsMember, Members
  <2>2. CASE g = n
    BY <1>2, <1>3, <1>4, <2>2, Zenon
  <2>3. CASE g # n
    <3>1. g \in groups /\ g \in GroupIds /\ owner'[g] = owner[g]
      BY <1>0, <1>1, <1>4, <2>1, <2>3, Zenon DEF TeamTypes, TeamTablesOK
    <3>2. g # 0
      BY <3>1, TeamAssumption DEF GroupIds
    <3>3. owner[g] \in alive /\ groupOf[owner[g]] = g /\ owner[g] \in TeamUsers
      BY <1>0, <2>1, <3>1, Zenon DEF TeamInv, CaptainIsMember, Members, TeamTypes, TeamTablesOK
    <3>4. QED
      BY <1>2, <1>4, <3>1, <3>2, <3>3, Zenon
  <2>4. QED
    BY <2>2, <2>3, Zenon
<1>8. /\ \A u \in TeamUsers : lockU[u] \notin {p, NoTeam} => groupOf'[u] = groupOf[u] /\ (u \in alive => u \in alive')
      /\ ngroups <= ngroups' /\ \A g \in groups' : g \in groups \/ g > ngroups
  BY <1>1, <1>2, <1>3, <1>4
<1>9. QED
  BY <1>1, <1>2, <1>5, <1>6, <1>7, <1>8, CommitKeeps, Zenon

\* InviteUser inserts the one pending invitation of this user to this team.
LEMMA CommitInviteTeam ==
  ASSUME TeamInv, NEW p \in TeamProcs, CommitInvite(p)
  PROVE  TeamInv'
<1> DEFINE n == ninvites + 1
<1>0. TeamTypes /\ TeamProcOK(p)
  BY Zenon DEF TeamInv
<1>1. /\ pc[p] = "commit" /\ op[p] = "invite" /\ CommitOwner(p) /\ End(p)
      /\ UNCHANGED <<alive, groupOf, ngroups, groups>>
  BY Zenon DEF CommitInvite, userRows
<1>2. /\ grp[p] \in GroupIds /\ grp[p] # 0 /\ other[p] \in TeamUsers /\ lockU[other[p]] = p
      /\ grp[p] \in Nat /\ other[p] \in Nat
  BY <1>0, <1>1, GroupId, Zenon DEF TeamProcOK, NamesOK, HeldOK, OtherHeld, TeamTypes, RegistersOK
<1>3. TeamTablesOK'
  BY <1>0, <1>1, OwnersTyped, Zenon DEF TeamTypes, TeamTablesOK
<1>4. CaptainIsMember'
  <2>1. SUFFICES ASSUME NEW g \in groups, g \notin outdated', owner'[g] # 0 PROVE owner'[g] \in Members(g)
    BY <1>1, Zenon DEF CaptainIsMember, Members
  <2>2. g \in GroupIds /\ g \notin outdated
    BY <1>0, <1>1, <2>1, Zenon DEF TeamTypes, TeamTablesOK, CommitOwner
  <2>3. owner[g] # 0 => owner[g] \in Members(g)
    BY <2>2, Zenon DEF TeamInv, CaptainIsMember
  <2>4. QED
    BY <1>1, <1>2, <2>1, <2>2, <2>3, CaptainWritten, Zenon
<1>5. /\ InvitesOK' /\ OnePendingInvite'
      /\ \A i \in InviteIds : istatus'[i] = "pending" =>
            \/ istatus[i] = "pending" /\ igroup'[i] = igroup[i] /\ invitee'[i] = invitee[i]
            \/ invitee'[i] \in TeamUsers /\ lockU[invitee'[i]] = p
  <2>1. CASE inv[p] # 0
    <3>1. UNCHANGED <<ninvites, igroup, invitee, istatus>>
      BY <2>1, Zenon DEF CommitInvite, inviteRows
    <3>2. QED
      BY <1>0, <3>1, Zenon DEF TeamInv, TeamTypes, InvitesOK, OnePendingInvite, Pending
  <2>2. CASE inv[p] = 0
    <3>1. n \in InviteIds /\ n \in Nat /\ ninvites \in Nat /\ n > ninvites
      BY <1>0, <2>2, TeamAssumption DEF CommitInvite, TeamTypes, InvitesOK, InviteIds
    <3>2. /\ ninvites' = n /\ igroup' \in [InviteIds -> Nat] /\ invitee' \in [InviteIds -> Nat] /\ istatus' \in [InviteIds -> Stages]
          /\ \A i \in InviteIds : /\ igroup'[i] = IF i = n THEN grp[p] ELSE igroup[i]
                                  /\ invitee'[i] = IF i = n THEN other[p] ELSE invitee[i]
                                  /\ istatus'[i] = IF i = n THEN "pending" ELSE istatus[i]
      BY <1>0, <1>2, <2>2, <3>1, Zenon DEF CommitInvite, TeamTypes, InvitesOK, Stages
    <3> HIDE DEF n
    <3>4. InvitesOK'
      BY <3>1, <3>2, Zenon DEF InvitesOK
    <3>5. \A i \in InviteIds : istatus[i] = "pending" => igroup[i] # grp[p] \/ invitee[i] # other[p]
      BY <1>0, <1>1, <2>2, Zenon DEF TeamProcOK, InsertOK, Pending
    <3>6. OnePendingInvite'
      BY <3>2, <3>5, SMTT(30) DEF TeamInv, OnePendingInvite, Pending
    <3>7. QED
      BY <1>2, <3>2, <3>4, <3>6, Zenon
  <2>3. QED
    BY <2>1, <2>2, Zenon
<1>6. ngroups <= ngroups'
  BY <1>0, <1>1 DEF TeamTypes, TeamTablesOK
<1>7. QED
  BY <1>1, <1>3, <1>4, <1>5, <1>6, CommitKeeps, Zenon

\* Closing invitations leaves one pending invitation at most.
LEMMA InvitesClosed ==
  ASSUME TeamInv, UNCHANGED <<ninvites, igroup, invitee>>, istatus' \in [InviteIds -> Stages],
         \A i \in InviteIds : istatus'[i] \in {istatus[i], "accepted", "rejected", "deleted"}
  PROVE  /\ InvitesOK' /\ OnePendingInvite'
         /\ \A i \in InviteIds : istatus'[i] = "pending" =>
               istatus[i] = "pending" /\ igroup'[i] = igroup[i] /\ invitee'[i] = invitee[i]
<1>1. InvitesOK'
  BY Zenon DEF TeamInv, TeamTypes, InvitesOK
<1>2. \A i \in InviteIds : istatus'[i] = "pending" => istatus[i] = "pending"
  BY Zenon
<1>3. OnePendingInvite'
  BY <1>2, Zenon DEF TeamInv, OnePendingInvite, Pending
<1>4. QED
  BY <1>1, <1>2, <1>3, Zenon

\* A user who is not the captain and whose team is locked in their row goes: the team
\* they leave keeps its captain, the others all their members.
LEMMA CommitLeaveTeam ==
  ASSUME TeamInv, NEW p \in TeamProcs, CommitLeave(p)
  PROVE  TeamInv'
<1> DEFINE w == IF op[p] = "leave" THEN actor[p] ELSE other[p]
<1>0. TeamTypes /\ TeamProcOK(p)
  BY Zenon DEF TeamInv
<1>1. /\ pc[p] = "commit" /\ op[p] \in {"remove", "leave"} /\ CommitOwner(p) /\ End(p) /\ istatus' = Closed(p, "rejected")
      /\ UNCHANGED <<alive, ngroups, groups, ninvites, igroup, invitee>>
  BY Zenon DEF CommitLeave
<1>2. grp[p] \in GroupIds /\ grp[p] # 0
  BY <1>0, <1>1, GroupId, Zenon DEF TeamProcOK, NamesOK, TeamTypes, RegistersOK
<1>3. w \in TeamUsers /\ lockU[w] = p /\ groupOf[w] = grp[p] /\ own[p] # w
  BY <1>0, <1>1, Zenon DEF TeamProcOK, NamesOK, HeldOK, ActorHeld, OtherHeld, CaptainOK, Ops
<1>4. groupOf' \in [TeamUsers -> Nat] /\ \A u \in TeamUsers : groupOf'[u] = IF u = w THEN 0 ELSE groupOf[u]
  BY <1>0, <1>3, Zenon DEF CommitLeave, TeamTypes, TeamTablesOK
<1> HIDE DEF w
<1>5. TeamTablesOK'
  <2>1. \A u \in TeamUsers : groupOf'[u] <= ngroups
    BY <1>0, <1>4 DEF TeamTypes, TeamTablesOK
  <2>2. QED
    BY <1>0, <1>1, <1>4, <2>1, OwnersTyped, Zenon DEF TeamTypes, TeamTablesOK
<1>6. /\ InvitesOK' /\ OnePendingInvite'
      /\ \A i \in InviteIds : istatus'[i] = "pending" =>
            istatus[i] = "pending" /\ igroup'[i] = igroup[i] /\ invitee'[i] = invitee[i]
  <2>1. istatus' \in [InviteIds -> Stages] /\ \A i \in InviteIds : istatus'[i] \in {istatus[i], "rejected"}
    BY <1>0, <1>1, Zenon DEF Closed, TeamTypes, InvitesOK, Stages
  <2>2. QED
    BY <1>1, <2>1, InvitesClosed, Zenon
<1>7. CaptainIsMember'
  <2>1. SUFFICES ASSUME NEW g \in groups, g \notin outdated', owner'[g] # 0
                 PROVE  owner'[g] \in alive /\ groupOf'[owner'[g]] = g
    BY <1>1, Zenon DEF CaptainIsMember, Members
  <2>2. g \in GroupIds /\ g \notin outdated
    BY <1>0, <1>1, <2>1, Zenon DEF TeamTypes, TeamTablesOK, CommitOwner
  <2>3. owner[g] # 0 => owner[g] \in Members(g)
    BY <2>2, Zenon DEF TeamInv, CaptainIsMember
  <2>4. owner'[g] \in Members(g) /\ (g = grp[p] => owner'[g] = own[p])
    BY <1>1, <1>2, <2>1, <2>2, <2>3, CaptainWritten, Zenon
  <2>5. owner'[g] \in alive /\ owner'[g] \in TeamUsers /\ groupOf[owner'[g]] = g
    BY <1>0, <2>4, Zenon DEF Members, TeamTypes, TeamTablesOK
  <2>6. owner'[g] # w
    BY <1>3, <2>4, <2>5, Zenon
  <2>7. QED
    BY <1>4, <2>5, <2>6, Zenon
<1>8. ngroups <= ngroups'
  BY <1>0, <1>1 DEF TeamTypes, TeamTablesOK
<1>9. QED
  BY <1>1, <1>3, <1>4, <1>5, <1>6, <1>7, <1>8, CommitKeeps, SMTT(30)

\* DisbandTeam resets members whose rows it has locked, all of this team.
LEMMA CommitDisbandTeam ==
  ASSUME TeamInv, NEW p \in TeamProcs, CommitDisband(p)
  PROVE  TeamInv'
<1>0. TeamTypes /\ TeamProcOK(p)
  BY Zenon DEF TeamInv
<1>1. /\ pc[p] = "commit" /\ op[p] = "disband" /\ CommitOwner(p) /\ End(p) /\ istatus' = Closed(p, "rejected")
      /\ groups' = groups \ {grp[p]} /\ UNCHANGED <<alive, ngroups, ninvites, igroup, invitee>>
  BY Zenon DEF CommitDisband
<1>2. grp[p] \in GroupIds /\ grp[p] # 0
  BY <1>0, <1>1, GroupId, Zenon DEF TeamProcOK, NamesOK, TeamTypes, RegistersOK
<1>3. \A u \in leaving[p] : lockU[u] = p /\ groupOf[u] = grp[p]
  BY <1>0, Zenon DEF TeamProcOK, HeldOK
<1>4. groupOf' \in [TeamUsers -> Nat] /\ \A u \in TeamUsers : groupOf'[u] = IF u \in leaving[p] THEN 0 ELSE groupOf[u]
  BY <1>0, Zenon DEF CommitDisband, TeamTypes, TeamTablesOK
<1>5. TeamTablesOK'
  <2>1. \A u \in TeamUsers : groupOf'[u] <= ngroups
    BY <1>0, <1>4 DEF TeamTypes, TeamTablesOK
  <2>2. QED
    BY <1>0, <1>1, <1>4, <2>1, OwnersTyped, Zenon DEF TeamTypes, TeamTablesOK
<1>6. /\ InvitesOK' /\ OnePendingInvite'
      /\ \A i \in InviteIds : istatus'[i] = "pending" =>
            istatus[i] = "pending" /\ igroup'[i] = igroup[i] /\ invitee'[i] = invitee[i]
  <2>1. istatus' \in [InviteIds -> Stages] /\ \A i \in InviteIds : istatus'[i] \in {istatus[i], "rejected"}
    BY <1>0, <1>1, Zenon DEF Closed, TeamTypes, InvitesOK, Stages
  <2>2. QED
    BY <1>1, <2>1, InvitesClosed, Zenon
<1>7. CaptainIsMember'
  <2>1. SUFFICES ASSUME NEW g \in groups, g # grp[p], g \notin outdated', owner'[g] # 0
                 PROVE  owner'[g] \in alive /\ groupOf'[owner'[g]] = g
    BY <1>1, Zenon DEF CaptainIsMember, Members
  <2>2. g \in GroupIds /\ g \notin outdated /\ owner'[g] = owner[g]
    BY <1>0, <1>1, <1>2, <2>1, CaptainWritten, Zenon DEF TeamTypes, TeamTablesOK, CommitOwner
  <2>3. owner[g] \in alive /\ owner[g] \in TeamUsers /\ groupOf[owner[g]] = g
    BY <1>0, <2>1, <2>2, Zenon DEF TeamInv, CaptainIsMember, Members, TeamTypes, TeamTablesOK
  <2>4. QED
    BY <1>3, <1>4, <2>1, <2>2, <2>3, Zenon
<1>8. ngroups <= ngroups'
  BY <1>0, <1>1 DEF TeamTypes, TeamTablesOK
<1>9. QED
  BY <1>1, <1>3, <1>4, <1>5, <1>6, <1>7, <1>8, CommitKeeps, Zenon

\* RespondInvite: who accepts had no team.
LEMMA CommitRespondTeam ==
  ASSUME TeamInv, NEW p \in TeamProcs, CommitRespond(p)
  PROVE  TeamInv' /\ (op[p] = "accept" => groupOf[actor[p]] = 0)
<1>0. TeamTypes /\ TeamProcOK(p)
  BY Zenon DEF TeamInv
<1>1. /\ pc[p] = "commit" /\ op[p] \in {"accept", "reject"} /\ End(p)
      /\ UNCHANGED <<alive, ngroups, groups, owner, ninvites, igroup, invitee, outdated>>
  BY Zenon DEF CommitRespond, groupRows, teamHistory
<1>2. op[p] = "accept" => actor[p] \in TeamUsers /\ lockU[actor[p]] = p /\ groupOf[actor[p]] = 0
  BY <1>0, <1>1, Zenon DEF TeamProcOK, NamesOK, HeldOK, ActorHeld, Ops
<1>3. grp[p] \in Nat /\ grp[p] <= ngroups
  BY <1>0, Zenon DEF TeamProcOK, NamesOK, TeamTypes, RegistersOK
<1>4. /\ groupOf' \in [TeamUsers -> Nat]
      /\ \A u \in TeamUsers : groupOf'[u] = groupOf[u] \/ (op[p] = "accept" /\ u = actor[p] /\ groupOf'[u] = grp[p])
  BY <1>0, <1>1, <1>2, <1>3, Zenon DEF CommitRespond, TeamTypes, TeamTablesOK
<1>5. TeamTablesOK'
  <2>1. \A u \in TeamUsers : groupOf'[u] <= ngroups
    BY <1>0, <1>3, <1>4, Zenon DEF TeamTypes, TeamTablesOK
  <2>2. QED
    BY <1>0, <1>1, <1>4, <2>1, Zenon DEF TeamTypes, TeamTablesOK
<1>6. /\ InvitesOK' /\ OnePendingInvite'
      /\ \A i \in InviteIds : istatus'[i] = "pending" =>
            istatus[i] = "pending" /\ igroup'[i] = igroup[i] /\ invitee'[i] = invitee[i]
  <2>1. istatus' \in [InviteIds -> Stages] /\ \A i \in InviteIds : istatus'[i] \in {istatus[i], "accepted", "rejected"}
    BY <1>0, <1>1, Zenon DEF CommitRespond, Closed, TeamTypes, InvitesOK, Stages
  <2>2. QED
    BY <1>1, <2>1, InvitesClosed, Zenon
<1>7. CaptainIsMember'
  <2>1. SUFFICES ASSUME NEW g \in groups, g \notin outdated, owner[g] # 0
                 PROVE  owner[g] \in alive /\ groupOf'[owner[g]] = g
    BY <1>1, Zenon DEF CaptainIsMember, Members
  <2>2. g # 0
    BY <1>0, TeamAssumption DEF TeamTypes, TeamTablesOK, GroupIds
  <2>3. owner[g] \in alive /\ owner[g] \in TeamUsers /\ groupOf[owner[g]] = g
    BY <1>0, <2>1, Zenon DEF TeamInv, CaptainIsMember, Members, TeamTypes, TeamTablesOK
  <2>4. QED
    BY <1>2, <1>4, <2>2, <2>3, Zenon
<1>8. ngroups <= ngroups'
  BY <1>0, <1>1 DEF TeamTypes, TeamTablesOK
<1>9. QED
  BY <1>1, <1>2, <1>4, <1>5, <1>6, <1>7, <1>8, CommitKeeps, Zenon

\* DeleteUser: the captain who goes has been replaced by a member, and the team of
\* whoever was moved in the meantime is written down as outdated.
LEMMA CommitDeleteTeam ==
  ASSUME TeamInv, NEW p \in TeamProcs, CommitDelete(p)
  PROVE  TeamInv'
<1>0. TeamTypes /\ TeamProcOK(p) /\ grp[p] \in Nat /\ grp[p] <= ngroups
  BY Zenon DEF TeamInv, TeamProcOK, NamesOK, TeamTypes, RegistersOK
<1>1. /\ pc[p] = "commit" /\ op[p] = "delete" /\ CommitOwner(p) /\ End(p) /\ istatus' = Closed(p, "deleted")
      /\ alive' = alive \ {actor[p]} /\ UNCHANGED <<groupOf, ngroups, groups, ninvites, igroup, invitee>>
  BY Zenon DEF CommitDelete
<1>2. actor[p] \in TeamUsers /\ lockU[actor[p]] = p
  BY <1>0, <1>1, Zenon DEF TeamProcOK, NamesOK, HeldOK, ActorHeld, Ops
<1>3. TeamTablesOK'
  BY <1>0, <1>1, OwnersTyped, Zenon DEF TeamTypes, TeamTablesOK
<1>4. /\ InvitesOK' /\ OnePendingInvite'
      /\ \A i \in InviteIds : istatus'[i] = "pending" =>
            istatus[i] = "pending" /\ igroup'[i] = igroup[i] /\ invitee'[i] = invitee[i]
  <2>1. istatus' \in [InviteIds -> Stages] /\ \A i \in InviteIds : istatus'[i] \in {istatus[i], "deleted"}
    BY <1>0, <1>1, Zenon DEF Closed, TeamTypes, InvitesOK, Stages
  <2>2. QED
    BY <1>1, <2>1, InvitesClosed, Zenon
<1>5. CaptainIsMember'
  <2>1. SUFFICES ASSUME NEW g \in groups, g \notin outdated', owner'[g] # 0
                 PROVE  owner'[g] \in Members(g) /\ owner'[g] # actor[p]
    BY <1>1, Zenon DEF CaptainIsMember, Members
  <2>2. g \in GroupIds /\ g # 0 /\ g \notin outdated /\ g \notin Outdated(p)
    BY <1>0, <1>1, <2>1, TeamAssumption DEF TeamTypes, TeamTablesOK, CommitOwner, GroupIds
  <2>3. owner[g] # 0 => owner[g] \in Members(g)
    BY <2>2, Zenon DEF TeamInv, CaptainIsMember
  <2>4. CASE g # grp[p]
    <3>1. owner'[g] = owner[g]
      BY <1>0, <1>1, <2>2, <2>4, Zenon DEF CommitOwner, TeamTypes, TeamTablesOK
    <3>2. g # groupOf[actor[p]]
      BY <1>1, <2>2, <2>4, Zenon DEF Outdated
    <3>3. QED
      BY <2>1, <2>3, <3>1, <3>2, Zenon DEF Members
  <2>5. CASE g = grp[p]
    <3>1. owner'[g] = NewOwner(p)
      BY <1>0, <1>1, <2>2, <2>5, Zenon DEF CommitOwner, TeamTypes, TeamTablesOK
    <3>2. owner[g] = seen[p] /\ (NewOwner(p) # owner[g] => NewOwner(p) \in Members(g))
      BY <1>1, <2>2, <2>5, Zenon DEF Outdated
    <3>3. CASE lockG[g] = p
      <4>1. seen[p] = actor[p] /\ own[p] # actor[p]
        BY <1>0, <1>1, <2>2, <2>5, <3>3, Zenon DEF TeamProcOK, HeirOK
      <4>2. NewOwner(p) = own[p]
        BY <1>1, <2>5, <3>3, Zenon DEF NewOwner
      <4>3. QED
        BY <3>1, <3>2, <4>1, <4>2, Zenon
    <3>4. CASE lockG[g] # p
      <4>1. own[p] = 0 /\ seen[p] # actor[p]
        BY <1>0, <1>1, <2>2, <2>5, <3>4, Zenon DEF TeamProcOK, HeirOK
      <4>2. NewOwner(p) = owner[g]
        BY <1>1, <2>5, <3>4, <4>1, Zenon DEF NewOwner
      <4>3. QED
        BY <2>1, <2>3, <3>1, <3>2, <4>1, <4>2, Zenon
    <3>5. QED
      BY <3>3, <3>4, Zenon
  <2>6. QED
    BY <2>4, <2>5, Zenon
<1>6. ngroups <= ngroups'
  BY <1>0, <1>1 DEF TeamTypes, TeamTablesOK
<1>7. \A u \in TeamUsers : lockU[u] \notin {p, NoTeam} => groupOf'[u] = groupOf[u] /\ (u \in alive => u \in alive')
  BY <1>1, <1>2, Zenon
<1>8. QED
  BY <1>1, <1>3, <1>4, <1>5, <1>6, <1>7, CommitKeeps, Zenon

-----------------------------------------------------------------------------
\* GroupService.Create adds a row without a captain.
LEMMA CreateGroupTeam ==
  ASSUME TeamInv, CreateGroup
  PROVE  TeamInv'
<1> DEFINE n == ngroups + 1
<1>0. TeamTypes /\ ngroups \in Nat /\ MaxGroups \in Nat
  BY TeamAssumption, Zenon DEF TeamInv, TeamTypes, TeamTablesOK
<1>1. /\ ngroups < MaxGroups /\ ngroups' = n /\ groups' = groups \cup {n}
      /\ UNCHANGED <<alive, groupOf, owner, ninvites, igroup, invitee, istatus, lockU, lockG, outdated>>
      /\ UNCHANGED <<pc, op, actor, other, grp, seen, own, inv, leaving>>
  BY Zenon DEF CreateGroup, userRows, inviteRows, locks, registers, teamHistory
<1>2. n \in GroupIds /\ n \in Nat /\ n > ngroups /\ ngroups <= n /\ n <= MaxGroups
  BY <1>0, <1>1 DEF GroupIds
<1>3. owner[n] = 0
  BY <1>0, <1>2, Zenon DEF TeamTypes, TeamTablesOK
<1>4. TeamTablesOK'
  <2>1. \A u \in TeamUsers : groupOf[u] <= n
    BY <1>0 DEF TeamTypes, TeamTablesOK
  <2>2. \A g \in groups \cup {n} : g \in GroupIds /\ g <= n
    BY <1>0, <1>2 DEF TeamTypes, TeamTablesOK, GroupIds
  <2>3. \A g \in GroupIds : g > n => g > ngroups
    BY <1>0 DEF GroupIds
  <2>4. QED
    BY <1>0, <1>1, <1>2, <2>1, <2>2, <2>3, Zenon DEF TeamTypes, TeamTablesOK
<1> HIDE DEF n
<1>5. TeamTypes'
  BY <1>0, <1>1, <1>4, Zenon DEF TeamTypes, InvitesOK, RegistersOK
<1>6. OnePendingInvite'
  BY <1>1, Zenon DEF TeamInv, OnePendingInvite, Pending
<1>7. CaptainIsMember'
  BY <1>1, <1>3, Zenon DEF TeamInv, CaptainIsMember, Members
<1>8. Frame(NoTeam)
  BY <1>0, <1>1, <1>2, Zenon DEF Frame, SameRequest
<1>9. QED
  BY <1>5, <1>6, <1>7, <1>8, StepKeeps, TeamAssumption, Zenon

\* GroupService.Delete: the group, on its own.
LEMMA DropGroupTeam ==
  ASSUME TeamInv, NEW p \in TeamProcs, DropGroup(p)
  PROVE  TeamInv'
<1>0. TeamTypes /\ TeamProcOK(p) /\ ngroups \in Nat
  BY Zenon DEF TeamInv, TeamTypes, TeamTablesOK
<1>1. /\ op[p] = "drop" /\ groups' = groups \ {grp[p]} /\ pc' = [pc EXCEPT ![p] = "reset"]
      /\ UNCHANGED <<alive, groupOf, ngroups, owner, ninvites, igroup, invitee, istatus, lockU, lockG, outdated>>
      /\ UNCHANGED <<op, actor, other, grp, seen, own, inv, leaving>>
  BY Zenon DEF DropGroup, TeamGoto, userRows, inviteRows, locks, teamHistory
<1>2. pc'[p] = "reset" /\ pc' \in [TeamProcs -> Statements]
  BY <1>0, <1>1, Zenon DEF TeamTypes, RegistersOK, Statements
<1>3. TeamTypes'
  <2>1. TeamTablesOK' /\ InvitesOK'
    BY <1>0, <1>1, Zenon DEF TeamTypes, TeamTablesOK, InvitesOK
  <2>2. RegistersOK'
    BY <1>0, <1>1, <1>2, Zenon DEF TeamTypes, RegistersOK
  <2>3. QED
    BY <2>1, <2>2, Zenon DEF TeamTypes
<1>4. TeamProcOK(p)'
  <2>1. FlowOK(p)' /\ NamesOK(p)'
    BY <1>0, <1>1, <1>2, Zenon DEF TeamProcOK, FlowOK, NamesOK, Ops
  <2>2. HeldOK(p)' /\ CaptainOK(p)' /\ HeirOK(p)' /\ InsertOK(p)'
    BY <1>0, <1>1, <1>2, Zenon DEF TeamProcOK, HeldOK, ActorHeld, OtherHeld, CaptainOK, HeirOK, InsertOK
  <2>3. QED
    BY <2>1, <2>2, Zenon DEF TeamProcOK
<1>5. OnePendingInvite' /\ CaptainIsMember'
  BY <1>1, Zenon DEF TeamInv, OnePendingInvite, Pending, CaptainIsMember, Members
<1>6. Frame(p)
  <2>1. \A r \in TeamProcs : r # p => pc'[r] = pc[r]
    BY <1>0, <1>1, Zenon DEF TeamTypes, RegistersOK
  <2>2. \A r \in TeamProcs : r # p => SameRequest(r)
    BY <1>1, <2>1, Zenon DEF SameRequest
  <2>3. ngroups <= ngroups' /\ ngroups' \in Nat /\ \A g \in groups' : g \in groups
    BY <1>0, <1>1
  <2>4. QED
    BY <1>0, <1>1, <2>2, <2>3, Zenon DEF Frame
<1>7. QED
  BY <1>3, <1>4, <1>5, <1>6, StepKeeps, Zenon

\* GroupService.Delete: the members, of a group that is gone.
LEMMA DropMembersTeam ==
  ASSUME TeamInv, NEW p \in TeamProcs, DropMembers(p)
  PROVE  TeamInv' /\ \A u \in TeamUsers : groupOf'[u] \in {0, groupOf[u]}
<1>0. TeamTypes /\ TeamProcOK(p) /\ ngroups \in Nat
  BY Zenon DEF TeamInv, TeamTypes, TeamTablesOK
<1>1. /\ End(p) /\ grp[p] \notin groups /\ \A u \in Members(grp[p]) : lockU[u] = NoTeam
      /\ UNCHANGED <<alive, ngroups, groups, owner, ninvites, igroup, invitee, istatus, outdated>>
  BY <1>0, Zenon DEF DropMembers, groupRows, inviteRows, teamHistory, TeamProcOK, NamesOK
<1>2. /\ groupOf' \in [TeamUsers -> Nat]
      /\ \A u \in TeamUsers : groupOf'[u] = IF u \in Members(grp[p]) THEN 0 ELSE groupOf[u]
  BY <1>0, Zenon DEF DropMembers, TeamTypes, TeamTablesOK
<1>3. TeamTablesOK'
  <2>1. \A u \in TeamUsers : groupOf'[u] <= ngroups
    BY <1>0, <1>2 DEF TeamTypes, TeamTablesOK
  <2>2. QED
    BY <1>0, <1>1, <1>2, <2>1, Zenon DEF TeamTypes, TeamTablesOK
<1>4. InvitesOK' /\ OnePendingInvite'
  BY <1>0, <1>1, Zenon DEF TeamInv, OnePendingInvite, Pending, TeamTypes, InvitesOK
<1>5. CaptainIsMember'
  <2>1. SUFFICES ASSUME NEW g \in groups, g \notin outdated, owner[g] # 0
                 PROVE  owner[g] \in alive /\ groupOf'[owner[g]] = g
    BY <1>1, Zenon DEF CaptainIsMember, Members
  <2>2. owner[g] \in alive /\ owner[g] \in TeamUsers /\ groupOf[owner[g]] = g
    BY <1>0, <2>1, Zenon DEF TeamInv, CaptainIsMember, Members, TeamTypes, TeamTablesOK
  <2>3. QED
    BY <1>1, <1>2, <2>2, Zenon DEF Members
<1>6. ngroups <= ngroups'
  BY <1>0, <1>1
<1>7. TeamInv'
  BY <1>1, <1>2, <1>3, <1>4, <1>5, <1>6, CommitKeeps, Zenon
<1>8. QED
  BY <1>2, <1>7, Zenon

\* ProfileService.MoveGroup changes one user whose row is free; the team they were the
\* captain of is written down.
LEMMA MoveGroupTeam ==
  ASSUME TeamInv, NEW w \in TeamUsers, NEW h \in 0..ngroups, MoveGroup(w, h)
  PROVE  TeamInv' /\ \A u \in TeamUsers \ {w} : groupOf'[u] = groupOf[u]
<1>0. TeamTypes /\ ngroups \in Nat /\ h \in Nat /\ h <= ngroups
  BY DEF TeamInv, TeamTypes, TeamTablesOK
<1>1. /\ lockU[w] = NoTeam /\ outdated' = outdated \cup {g \in GroupIds : owner[g] = w}
      /\ UNCHANGED <<alive, ngroups, groups, owner, ninvites, igroup, invitee, istatus, lockU, lockG>>
      /\ UNCHANGED <<pc, op, actor, other, grp, seen, own, inv, leaving>>
  BY Zenon DEF MoveGroup, groupRows, inviteRows, locks, registers
<1>2. groupOf' \in [TeamUsers -> Nat] /\ \A u \in TeamUsers : groupOf'[u] = IF u = w THEN h ELSE groupOf[u]
  BY <1>0, Zenon DEF MoveGroup, TeamTypes, TeamTablesOK
<1>3. TeamTypes'
  <2>1. \A u \in TeamUsers : groupOf'[u] <= ngroups
    BY <1>0, <1>2, Zenon DEF TeamTypes, TeamTablesOK
  <2>2. TeamTablesOK'
    BY <1>0, <1>1, <1>2, <2>1, Zenon DEF TeamTypes, TeamTablesOK
  <2>3. QED
    BY <1>0, <1>1, <2>2, Zenon DEF TeamTypes, InvitesOK, RegistersOK
<1>4. OnePendingInvite'
  BY <1>1, Zenon DEF TeamInv, OnePendingInvite, Pending
<1>5. CaptainIsMember'
  <2>1. SUFFICES ASSUME NEW g \in groups, g \notin outdated, owner[g] # w, owner[g] # 0
                 PROVE  owner[g] \in alive /\ groupOf'[owner[g]] = g
    <3>1. \A g \in groups : g \notin outdated' => g \notin outdated /\ owner[g] # w
      BY <1>0, <1>1, Zenon DEF TeamTypes, TeamTablesOK
    <3>2. QED
      BY <1>1, <3>1, Zenon DEF CaptainIsMember, Members
  <2>2. owner[g] \in alive /\ owner[g] \in TeamUsers /\ groupOf[owner[g]] = g
    BY <1>0, <2>1, Zenon DEF TeamInv, CaptainIsMember, Members, TeamTypes, TeamTablesOK
  <2>3. QED
    BY <1>2, <2>1, <2>2, Zenon
<1>6. Frame(NoTeam)
  BY <1>0, <1>1, <1>2 DEF Frame, SameRequest
<1>7. TeamInv'
  BY <1>3, <1>4, <1>5, <1>6, StepKeeps, TeamAssumption, Zenon
<1>8. QED
  BY <1>2, <1>7, Zenon

-----------------------------------------------------------------------------
\* The requests that arrive name users, groups and invitations there are.
LEMMA RequestTeam ==
  ASSUME TeamInv, NEW p \in TeamProcs, Request(p)
  PROVE  TeamInv'
<1>0. TeamUsers \subseteq Nat /\ ngroups \in Nat /\ ninvites \in Nat
  BY TeamAssumption, Zenon DEF TeamInv, TeamTypes, TeamTablesOK, InvitesOK
<1>1. CASE \E o \in {"create", "leave", "disband", "delete"}, u \in TeamUsers : TeamBegin(p, o, u, 0, 0, 0)
  <2>1. PICK o \in {"create", "leave", "disband", "delete"}, u \in TeamUsers : TeamBegin(p, o, u, 0, 0, 0)
    BY <1>1, Zenon
  <2>2. o \in Ops /\ o \notin {"update", "detail", "drop", "invite", "remove", "transfer"} /\ u \in Nat /\ 0 <= ngroups
    BY <1>0 DEF Ops
  <2>3. QED
    BY <2>1, <2>2, BeginTeam, Zenon
<1>2. CASE \E o \in {"invite", "remove", "transfer"}, u \in TeamUsers :
              \E v \in TeamUsers \ {u} : TeamBegin(p, o, u, v, 0, 0)
  <2>1. PICK o \in {"invite", "remove", "transfer"}, u \in TeamUsers, v \in TeamUsers : TeamBegin(p, o, u, v, 0, 0)
    BY <1>2, Zenon
  <2>2. o \in Ops /\ o \notin {"update", "detail", "drop"} /\ u \in Nat /\ v \in Nat /\ 0 <= ngroups
    BY <1>0 DEF Ops
  <2>3. QED
    BY <2>1, <2>2, BeginTeam, Zenon
<1>3. CASE \E u \in TeamUsers, g \in 1..ngroups : TeamBegin(p, "update", u, 0, g, 0)
  <2>1. PICK u \in TeamUsers, g \in 1..ngroups : TeamBegin(p, "update", u, 0, g, 0)
    BY <1>3, Zenon
  <2>2. "update" \in Ops /\ u \in Nat /\ g \in Nat /\ g <= ngroups /\ g # 0
    BY <1>0 DEF Ops
  <2>3. QED
    BY <2>1, <2>2, BeginTeam, Zenon
<1>4. CASE \E o \in {"detail", "drop"}, g \in 1..ngroups : TeamBegin(p, o, 0, 0, g, 0)
  <2>1. PICK o \in {"detail", "drop"}, g \in 1..ngroups : TeamBegin(p, o, 0, 0, g, 0)
    BY <1>4, Zenon
  <2>2. o \in Ops /\ o \notin {"invite", "remove", "transfer"} /\ g \in Nat /\ g <= ngroups /\ g # 0
    BY <1>0 DEF Ops
  <2>3. QED
    BY <2>1, <2>2, BeginTeam, Zenon
<1>5. CASE \E o \in {"accept", "reject"}, u \in TeamUsers, i \in 1..ninvites : TeamBegin(p, o, u, 0, 0, i)
  <2>1. PICK o \in {"accept", "reject"}, u \in TeamUsers, i \in 1..ninvites : TeamBegin(p, o, u, 0, 0, i)
    BY <1>5, Zenon
  <2>2. o \in Ops /\ o \notin {"update", "detail", "drop", "invite", "remove", "transfer"} /\ u \in Nat /\ i \in Nat
        /\ 0 <= ngroups
    BY <1>0 DEF Ops
  <2>3. QED
    BY <2>1, <2>2, BeginTeam, Zenon
<1>6. QED
  BY <1>1, <1>2, <1>3, <1>4, <1>5, Zenon DEF Request

\* A step that changes nothing.
LEMMA IdleTeam ==
  ASSUME TeamInv, UNCHANGED teamVars
  PROVE  TeamInv'
<1>1. UNCHANGED <<teamTables, locks, registers, teamHistory>>
  BY Zenon DEF teamVars
<1>2. /\ UNCHANGED <<alive, groupOf, ngroups, groups, owner, ninvites, igroup, invitee, istatus, outdated>>
      /\ UNCHANGED <<lockU, lockG, pc, op, actor, other, grp, seen, own, inv, leaving>>
  BY <1>1, Zenon DEF teamTables, userRows, groupRows, inviteRows, locks, registers, teamHistory
<1>3. TeamTypes'
  BY <1>2, Zenon DEF TeamInv, TeamTypes, TeamTablesOK, InvitesOK, RegistersOK
<1>4. OnePendingInvite' /\ CaptainIsMember'
  BY <1>2, Zenon DEF TeamInv, OnePendingInvite, Pending, CaptainIsMember, Members
<1>5. ngroups \in Nat /\ ngroups <= ngroups'
  BY <1>2 DEF TeamInv, TeamTypes, TeamTablesOK
<1>6. Frame(NoTeam)
  BY <1>2, <1>5, Zenon DEF Frame, SameRequest
<1>7. QED
  BY <1>3, <1>4, <1>6, StepKeeps, TeamAssumption, Zenon

\* Every step keeps the invariant.
LEMMA NextTeamInv ==
  ASSUME TeamInv, [TeamNext]_teamVars
  PROVE  TeamInv'
<1>1. ASSUME NEW p \in TeamProcs, Statement(p)
      PROVE  TeamInv'
  BY <1>1, ReadActorTeam, ReadGroupTeam, EnsureTeam, StoreOwnerTeam, ReadOwnedGroupTeam, ReplacementTeam, ReadTargetTeam,
     ReadExistingTeam, ReadInvitationTeam, ResetMembersTeam, UpdateInvitesTeam, EraseUserTeam, Zenon DEF Statement
<1>2. ASSUME NEW p \in TeamProcs, Commit(p)
      PROVE  TeamInv'
  BY <1>2, CommitGroupTeam, CommitCreateTeam, CommitInviteTeam, CommitLeaveTeam, CommitDisbandTeam, CommitRespondTeam,
     CommitDeleteTeam, Zenon DEF Commit
<1>3. CASE UNCHANGED teamVars
  BY <1>3, IdleTeam, Zenon
<1>4. ASSUME NEW u \in TeamUsers, NEW g \in 0..ngroups, MoveGroup(u, g)
      PROVE  TeamInv'
  BY <1>4, MoveGroupTeam, Zenon
<1>5. QED
  BY <1>1, <1>2, <1>3, <1>4, RequestTeam, RollbackTeam, DropGroupTeam, DropMembersTeam, CreateGroupTeam, Zenon DEF TeamNext

\* Whoever is in a team stays there or leaves it, unless an administrator moves them.
LEMMA MovesOnly ==
  ASSUME TeamInv, [TeamNext]_teamVars, NEW u \in TeamUsers, groupOf[u] # 0, groupOf'[u] \notin {0, groupOf[u]}
  PROVE  \E g \in 0..MaxGroups : MoveGroup(u, g)
<1>0. groupOf \in [TeamUsers -> Nat] /\ ngroups \in Nat /\ ngroups <= MaxGroups /\ MaxGroups \in Nat
  BY TeamAssumption, Zenon DEF TeamInv, TeamTypes, TeamTablesOK
<1>1. groupOf' # groupOf
  BY Zenon
<1>2. ASSUME NEW p \in TeamProcs, Request(p) \/ Statement(p) \/ Rollback(p) \/ DropGroup(p)
      PROVE  FALSE
  <2>1. UNCHANGED teamTables \/ UNCHANGED userRows
    <3>1. CASE Request(p)
      BY <3>1, Zenon DEF Request, TeamBegin
    <3>2. CASE Statement(p)
      BY <3>2, Zenon DEF Statement, ReadActor, ReadGroup, EnsureGroupOwner, StoreOwner, ReadOwnedGroup, Replacement, ReadTarget,
         ReadExisting, ReadInvitation, ResetMembers, UpdateInvites, EraseUser
    <3>3. CASE Rollback(p) \/ DropGroup(p)
      BY <3>3, Zenon DEF Rollback, DropGroup
    <3>4. QED
      BY <1>2, <3>1, <3>2, <3>3, Zenon
  <2>2. QED
    BY <1>1, <2>1, Zenon DEF teamTables, userRows
<1>3. ASSUME NEW p \in TeamProcs, Commit(p)
      PROVE  FALSE
  <2>1. CASE CommitGroup(p) \/ CommitInvite(p) \/ CommitDelete(p)
    BY <1>1, <2>1, Zenon DEF CommitGroup, CommitInvite, CommitDelete, userRows
  <2>2. CASE CommitCreate(p)
    <3>1. groupOf[actor[p]] = 0
      BY <2>2, Zenon DEF CommitCreate, TeamInv, TeamProcOK, HeldOK, ActorHeld
    <3>2. QED
      BY <1>0, <2>2, <3>1, Zenon DEF CommitCreate
  <2>3. CASE CommitLeave(p)
    BY <1>0, <2>3, Zenon DEF CommitLeave
  <2>4. CASE CommitDisband(p)
    BY <1>0, <2>4, Zenon DEF CommitDisband
  <2>5. CASE CommitRespond(p)
    <3>1. op[p] = "accept" => groupOf[actor[p]] = 0
      BY <2>5, CommitRespondTeam, Zenon
    <3>2. QED
      BY <1>0, <1>1, <2>5, <3>1, Zenon DEF CommitRespond
  <2>6. QED
    BY <1>3, <2>1, <2>2, <2>3, <2>4, <2>5, Zenon DEF Commit
<1>4. ASSUME NEW p \in TeamProcs, DropMembers(p)
      PROVE  FALSE
  BY <1>4, DropMembersTeam, Zenon
<1>5. ~CreateGroup /\ ~UNCHANGED teamVars
  BY <1>1, Zenon DEF CreateGroup, teamVars, teamTables, userRows
<1>6. PICK w \in TeamUsers, g \in 0..ngroups : MoveGroup(w, g)
  BY <1>2, <1>3, <1>4, <1>5, Zenon DEF TeamNext
<1>7. w = u
  BY <1>6, MoveGroupTeam, Zenon
<1>8. g \in 0..MaxGroups
  BY <1>0
<1>9. QED
  BY <1>6, <1>7, <1>8, Zenon

-----------------------------------------------------------------------------
\* The rows, the locks and what each request remembers have their types: no member and
\* no captain of a group there is no row for, no lock without a request.
THEOREM TeamsTyped == TeamSpec => []TeamTypes
<1>1. TeamInit => TeamInv
  BY InitTeamInv, Zenon
<1>2. TeamInv /\ [TeamNext]_teamVars => TeamInv'
  BY NextTeamInv, Zenon
<1>3. TeamInv => TeamTypes
  BY Zenon DEF TeamInv
<1>4. QED
  BY <1>1, <1>2, <1>3, PTL DEF TeamSpec

\* InviteUser looks for a pending invitation under the lock of the invitee's row: at
\* no time does a user hold two pending invitations to one team.
THEOREM OneInvite == TeamSpec => []OnePendingInvite
<1>1. TeamInit => TeamInv
  BY InitTeamInv, Zenon
<1>2. TeamInv /\ [TeamNext]_teamVars => TeamInv'
  BY NextTeamInv, Zenon
<1>3. TeamInv => OnePendingInvite
  BY Zenon DEF TeamInv
<1>4. QED
  BY <1>1, <1>2, <1>3, PTL DEF TeamSpec

\* The captain of a team is one of its members, whatever requests run at once, unless a
\* transaction wrote on an owner or a member that had changed since it was read, or an
\* administrator moved the captain.
THEOREM CaptainsAreMembers == TeamSpec => []CaptainIsMember
<1>1. TeamInit => TeamInv
  BY InitTeamInv, Zenon
<1>2. TeamInv /\ [TeamNext]_teamVars => TeamInv'
  BY NextTeamInv, Zenon
<1>3. TeamInv => CaptainIsMember
  BY Zenon DEF TeamInv
<1>4. QED
  BY <1>1, <1>2, <1>3, PTL DEF TeamSpec

\* CreateTeamForUser and RespondInvite take a user into a team under the lock of a row
\* that has none: only ProfileService.MoveGroup moves anybody from team to team.
THEOREM SwitchesAreMoves == TeamSpec => NoDirectSwitch
<1> DEFINE Step == \A u \in TeamUsers :
              groupOf[u] # 0 /\ groupOf'[u] \notin {0, groupOf[u]} => \E g \in 0..MaxGroups : MoveGroup(u, g)
<1>1. TeamInit => TeamInv
  BY InitTeamInv, Zenon
<1>2. TeamInv /\ [TeamNext]_teamVars => TeamInv'
  BY NextTeamInv, Zenon
<1>3. TeamInv /\ [TeamNext]_teamVars => Step
  BY MovesOnly, Zenon
<1> HIDE DEF Step
<1>4. TeamSpec => [][Step]_teamVars
  BY <1>1, <1>2, <1>3, PTL DEF TeamSpec
<1>5. QED
  BY <1>4, Zenon DEF NoDirectSwitch, Step
=============================================================================
