------------------------------- MODULE UserAccounts -------------------------------
(* The accounts of the user service: Login, Register and the invite code            *)
(* (service/auth.go), passwords (service/password.go), ChangePassword, DeleteUser     *)
(* and SetEmailEnabled (service/profile.go, data/dal/profile.go), SetUserRole         *)
(* (service/role.go), the rules they ask (permission_rules.go, auth_rules.go,        *)
(* common/utils/auth/check.go) and the operation log (service/audit.go).             *)
(*                                                                              *)
(* The statements of one request are steps of their own where the code reads in one  *)
(* and writes in another.  A token is [user, role]: who logged in, with the role      *)
(* read then; it is valid for 360 days, so it never expires here.  Statements do not  *)
(* fail.                                                                          *)
EXTENDS Integers, Sequences

CONSTANTS AccNames,      \* user names
          Passwords,     \* passwords
          Codes,         \* invite codes; DefaultCode is the one of a fresh system
          DefaultCode,
          Founders,      \* the rows at the start: sequence of [name, pw, form, role]
          MaxAccounts,   \* bound: rows of the table
          Handlers,      \* requests in progress at the same time
          MaxAccRequests \* bound: requests

RoleUser == 0
RoleAdmin == 1
RoleCoach == 2
Roles == {RoleUser, RoleAdmin, RoleCoach}
AccIds == 1..MaxAccounts

\* The users at the start have names of their own.
ASSUME AccountConstants ==
    /\ DefaultCode \in Codes /\ MaxAccounts \in Nat
    /\ Founders \in Seq([name : AccNames, pw : Passwords, form : {"plain", "hash"}, role : Roles])
    /\ Len(Founders) <= MaxAccounts
    /\ \A i, j \in DOMAIN Founders : Founders[i].name = Founders[j].name => i = j

VARIABLES
    acc,       \* id -> [there, name, pw, form, role, mail, saw]; form "plain" is a password of the
               \* time before hashing; saw is history: the rows there were at Register's look
    nacc,      \* rows created
    invite,    \* [row, code]: the system_config row of the invite code
    tokens,    \* tokens issued
    hreq,      \* per handler: [pc, tok, on, pw, role, name, saw]
    chosen,    \* history, per id: the password chosen last
    raced,     \* history: ids whose password was changed while a login was about to rehash it
    heldRoles, \* history: pairs <<id, role>> that were true at some time
    audit,     \* the operation log: set of [op, by, on, role]
    nreq       \* requests so far

accVars == <<acc, nacc, invite, tokens, hreq, chosen, raced, heldRoles, audit, nreq>>

NoRow == [there |-> "no", name |-> "none", pw |-> "none", form |-> "hash", role |-> 0, mail |-> "yes", saw |-> 0]
NoToken == [user |-> 0, role |-> 0]
IdleReq == [pc |-> "idle", tok |-> NoToken, on |-> 0, pw |-> "none", role |-> 0, name |-> "none", saw |-> 0]

AccInit ==
    /\ acc = [i \in AccIds |-> IF i \in DOMAIN Founders
                               THEN [there |-> "yes", name |-> Founders[i].name, pw |-> Founders[i].pw,
                                     form |-> Founders[i].form, role |-> Founders[i].role, mail |-> "yes", saw |-> i - 1]
                               ELSE NoRow]
    /\ nacc = Len(Founders) /\ invite = [row |-> "no", code |-> DefaultCode]
    /\ tokens = {[user |-> i, role |-> acc[i].role] : i \in DOMAIN Founders}
    /\ hreq = [h \in Handlers |-> IdleReq] /\ chosen = [i \in AccIds |-> acc[i].pw] /\ raced = {}
    /\ heldRoles = {<<i, acc[i].role>> : i \in DOMAIN Founders} /\ audit = {} /\ nreq = 0

There == {i \in AccIds : acc[i].there = "yes"}
Admins == {i \in There : acc[i].role = RoleAdmin}

-----------------------------------------------------------------------------
(* Rules *)

\* Mutant: a plain password is not compared.
MutPlainUnchecked(row, candidate) == row.form = "plain" \/ row.pw = candidate

verifyPassword(row, candidate) == row.pw = candidate
needsRehash(row) == row.form = "plain"
validateRegisterInviteCode(input) == input = invite.code
VerifyAdmin(tok) == tok.role = RoleAdmin
VerifySelfOrAbove(tok, target) == tok.role = RoleAdmin \/ tok.user = target
\* Mutant: the role of an admin can be given too.
MutGivesAdmin(caller, callerRole, target, targetRole, role) ==
    callerRole = RoleAdmin /\ caller # target /\ targetRole # RoleAdmin /\ role \in Roles

canSetUserRole(caller, callerRole, target, targetRole, role) ==
    callerRole = RoleAdmin /\ caller # target /\ targetRole # RoleAdmin /\ role \in {RoleUser, RoleCoach}
canDeleteUser(caller, callerRole, target, targetRole) ==
    callerRole = RoleAdmin /\ caller # target /\ targetRole # RoleAdmin

-----------------------------------------------------------------------------
(* Requests *)

Begins(h, req) == hreq[h].pc = "idle" /\ nreq < MaxAccRequests /\ nreq' = nreq + 1 /\ hreq' = [hreq EXCEPT ![h] = req]
Continue(h, pc) == hreq' = [hreq EXCEPT ![h].pc = pc] /\ UNCHANGED nreq
Finish(h) == hreq' = [hreq EXCEPT ![h] = IdleReq] /\ UNCHANGED nreq
ReadsOnly == UNCHANGED <<acc, nacc, invite, tokens, chosen, raced, heldRoles, audit>>
Current(h) == hreq[h]

\* Login: the first row of the name; a wrong password changes nothing.
Login(h, name, pw) ==
    /\ \E i \in There : /\ acc[i].name = name /\ \A j \in There : acc[j].name = name => i <= j
                        /\ verifyPassword(acc[i], pw)
                        /\ Begins(h, [IdleReq EXCEPT !.pc = IF needsRehash(acc[i]) THEN "rehash" ELSE "token",
                                                     !.on = i, !.pw = pw, !.role = acc[i].role])
    /\ ReadsOnly
LoginRehash(h) ==
    /\ Current(h).pc = "rehash" /\ Continue(h, "token")
    /\ LET i == Current(h).on IN
       acc' = [acc EXCEPT ![i] = IF @.there = "yes" THEN [@ EXCEPT !.pw = Current(h).pw, !.form = "hash"] ELSE @]
    /\ UNCHANGED <<nacc, invite, tokens, chosen, raced, heldRoles, audit>>
LoginToken(h) ==
    /\ Current(h).pc = "token" /\ Finish(h)
    /\ tokens' = tokens \cup {[user |-> Current(h).on, role |-> Current(h).role]}
    /\ UNCHANGED <<acc, nacc, invite, chosen, raced, heldRoles, audit>>

\* Register: the code and the name are looked up, then the row is created; the table has
\* no unique index on the name.
Register(h, name, pw, code) ==
    /\ validateRegisterInviteCode(code) /\ \A i \in There : acc[i].name # name
    /\ Begins(h, [IdleReq EXCEPT !.pc = "create", !.name = name, !.pw = pw, !.saw = nacc])
    /\ ReadsOnly
CreateUser(h) ==
    /\ Current(h).pc = "create" /\ nacc < MaxAccounts /\ Finish(h)
    /\ nacc' = nacc + 1
    /\ acc' = [acc EXCEPT ![nacc'] = [there |-> "yes", name |-> Current(h).name, pw |-> Current(h).pw, form |-> "hash",
                                      role |-> RoleUser, mail |-> "yes", saw |-> Current(h).saw]]
    /\ chosen' = [chosen EXCEPT ![nacc'] = Current(h).pw] /\ heldRoles' = heldRoles \cup {<<nacc', RoleUser>>}
    /\ UNCHANGED <<invite, tokens, raced, audit>>

\* UpdateRegisterInviteCode: the row is looked up, then created or saved; a second creation
\* fails at the unique index of the key.
UpdateRegisterInviteCode(h, tok, code) ==
    /\ VerifyAdmin(tok)
    /\ Begins(h, [IdleReq EXCEPT !.pc = IF invite.row = "yes" THEN "saveCode" ELSE "newCode", !.tok = tok, !.name = code])
    /\ ReadsOnly
SaveCode(h) ==
    /\ Current(h).pc \in {"saveCode", "newCode"} /\ Finish(h)
    /\ invite' = IF Current(h).pc = "newCode" /\ invite.row = "yes" THEN invite ELSE [row |-> "yes", code |-> Current(h).name]
    /\ UNCHANGED <<acc, nacc, tokens, chosen, raced, heldRoles, audit>>

\* ChangePassword: oneself with the old password, an admin for anyone but another admin.
ChangePassword(h, tok, target, old, new) ==
    /\ VerifyAdmin(tok) \/ tok.user = target
    /\ target \in There
    /\ acc[target].role = RoleAdmin => tok.user = target
    /\ tok.user = target => verifyPassword(acc[target], old)
    /\ Begins(h, [IdleReq EXCEPT !.pc = "change", !.tok = tok, !.on = target, !.pw = new])
    /\ ReadsOnly
StorePassword(h) ==
    /\ Current(h).pc = "change"
    /\ LET i == Current(h).on
       IN  IF i \in There
           THEN /\ acc' = [acc EXCEPT ![i].pw = Current(h).pw, ![i].form = "hash"]
                /\ chosen' = [chosen EXCEPT ![i] = Current(h).pw] /\ Continue(h, "record change")
                /\ raced' = IF \E g \in Handlers : hreq[g].pc = "rehash" /\ hreq[g].on = i THEN raced \cup {i} ELSE raced
           ELSE UNCHANGED <<acc, chosen, raced>> /\ Finish(h)
    /\ UNCHANGED <<nacc, invite, tokens, heldRoles, audit>>

\* SetUserRole: the caller's and the target's role are read from the table (the caller is
\* an admin, which no step changes), the new role is written later; on a row deleted
\* meanwhile the update has no effect and no error.
SetUserRole(h, tok, target, role) ==
    /\ tok.user \in There /\ target \in There
    /\ canSetUserRole(tok.user, acc[tok.user].role, target, acc[target].role, role)
    /\ Begins(h, [IdleReq EXCEPT !.pc = "role", !.tok = tok, !.on = target, !.role = role])
    /\ ReadsOnly
SetRoleId(h) ==
    /\ Current(h).pc = "role" /\ Continue(h, "record role")
    /\ LET i == Current(h).on
       IN  /\ acc' = [acc EXCEPT ![i].role = IF i \in There THEN Current(h).role ELSE @]
           /\ heldRoles' = IF i \in There THEN heldRoles \cup {<<i, Current(h).role>>} ELSE heldRoles
    /\ UNCHANGED <<nacc, invite, tokens, chosen, raced, audit>>

\* DeleteUser: by the role of the token; the transaction looks the row up again.
DeleteUser(h, tok, target) ==
    /\ target \in There /\ canDeleteUser(tok.user, tok.role, target, acc[target].role)
    /\ Begins(h, [IdleReq EXCEPT !.pc = "delete", !.tok = tok, !.on = target])
    /\ ReadsOnly
RemoveUser(h) ==
    /\ Current(h).pc = "delete"
    /\ LET i == Current(h).on
       IN  IF i \in There THEN acc' = [acc EXCEPT ![i].there = "no"] /\ Continue(h, "record delete")
           ELSE UNCHANGED acc /\ Finish(h)
    /\ UNCHANGED <<nacc, invite, tokens, chosen, raced, heldRoles, audit>>

SetEmailEnabled(tok, target, on) ==
    /\ VerifySelfOrAbove(tok, target) /\ nreq < MaxAccRequests /\ nreq' = nreq + 1
    /\ acc' = [acc EXCEPT ![target].mail = IF target \in There THEN on ELSE @]
    /\ UNCHANGED <<nacc, invite, tokens, hreq, chosen, raced, heldRoles, audit>>

Recorded == [p \in {"record change", "record role", "record delete"} |->
                IF p = "record change" THEN "change" ELSE IF p = "record role" THEN "role" ELSE "delete"]
\* recordUserOperation: the entry is written, or the failure only logged.
Entry(h) == [op |-> Recorded[Current(h).pc], by |-> Current(h).tok.user, on |-> Current(h).on, role |-> Current(h).role]
recordUserOperation(h) ==
    /\ Current(h).pc \in DOMAIN Recorded /\ Finish(h)
    /\ audit' = audit \cup {Entry(h)} \/ UNCHANGED audit
    /\ UNCHANGED <<acc, nacc, invite, tokens, chosen, raced, heldRoles>>

AccNext ==
    \/ \E h \in Handlers, name \in AccNames, pw \in Passwords :
          Login(h, name, pw) \/ \E code \in Codes : Register(h, name, pw, code)
    \/ \E h \in Handlers, tok \in tokens :
          \/ \E code \in Codes : UpdateRegisterInviteCode(h, tok, code)
          \/ \E target \in AccIds :
                \/ \E old, new \in Passwords : ChangePassword(h, tok, target, old, new)
                \/ \E role \in 0..3 : SetUserRole(h, tok, target, role)
                \/ DeleteUser(h, tok, target)
    \/ \E tok \in tokens, target \in AccIds, on \in {"yes", "no"} : SetEmailEnabled(tok, target, on)
    \/ \E h \in Handlers : LoginRehash(h) \/ LoginToken(h) \/ CreateUser(h) \/ SaveCode(h) \/ StorePassword(h)
                           \/ SetRoleId(h) \/ RemoveUser(h) \/ recordUserOperation(h)

AccSpec == AccInit /\ [][AccNext]_accVars

-----------------------------------------------------------------------------
Rows == [there : {"yes", "no"}, name : AccNames \cup {"none"}, pw : Passwords \cup {"none"}, form : {"plain", "hash"},
         role : Roles, mail : {"yes", "no"}, saw : Nat]
Tokens == [user : AccIds, role : Roles]
ReqPCs == {"idle", "rehash", "token", "create", "saveCode", "newCode", "change", "role", "delete"} \cup DOMAIN Recorded
Reqs == [pc : ReqPCs, tok : Tokens \cup {NoToken}, on : AccIds \cup {0}, pw : Passwords \cup {"none"}, role : Roles,
         name : AccNames \cup Codes \cup {"none"}, saw : Nat]
AccTypeOK ==
    /\ acc \in [AccIds -> Rows] /\ nacc \in 0..MaxAccounts /\ invite \in [row : {"yes", "no"}, code : Codes]
    /\ tokens \subseteq Tokens /\ hreq \in [Handlers -> Reqs]
    /\ chosen \in [AccIds -> Passwords \cup {"none"}] /\ raced \subseteq AccIds /\ nreq \in Nat

\* No request makes an admin, demotes one or removes one: the last admin cannot be lost,
\* whatever requests overlap ("避免误操作把最后一个管理员降级", role.go:44).
AdminsStay == [][Admins' = Admins]_accVars

\* What is logged was done: the operator is an admin, or changed the own password; a user
\* whose deletion is logged is gone, a logged role was held, unless the user was deleted
\* between the check and the update (role.go:49).  DeleteUser and ChangePassword judge by
\* the role of the token, up to 360 days old (profile.go:175, 229).
AuditIsTrue ==
    \A e \in audit : /\ e.by \in Admins \/ (e.op = "change" /\ e.by = e.on)
                     /\ e.op = "delete" => e.on \notin There
                     /\ e.op = "role" => <<e.on, e.role>> \in heldRoles \/ e.on \notin There

\* A user's password is the one chosen last, unless it was changed while a login was about
\* to replace the plain text of an older one by its hash (auth.go:96-100 writes what it
\* verified before): then the old password can come back.
PasswordIsChosen == \A i \in There : acc[i].pw = chosen[i] \/ i \in raced

\* Two users of one name exist only when the later one looked before the earlier one was
\* created: nothing but the look keeps names apart (auth.go:143-149, user.go:9).
SameNameOverlapped ==
    \A i, j \in There : i < j /\ acc[i].name = acc[j].name => acc[j].saw < i

\* Logs, passwords and names are what the requests made them (auth.go:80-149,
\* profile.go:160-250, role.go:30-60).
AccountsAreTrue == AuditIsTrue /\ PasswordIsChosen /\ SameNameOverlapped
=============================================================================
