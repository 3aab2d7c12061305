----------------------------- MODULE UserProofs ------------------------------
(* The user service, for any number of users, accounts and overlapping requests: *)
(* its accounts and sessions, and the columns a thread keeps beside its messages: *)
(* the counters count the unread messages and last_message_id is the newest.    *)
EXTENDS UserAccounts, Messages, TLAPS, FiniteSetTheorems, WellFoundedInduction

-----------------------------------------------------------------------------
(* The accounts *)

\* Ids are given in order and a token says "admin" only of an admin.
RowsInv ==
    /\ \A i \in There : i <= nacc
    /\ \A t \in tokens : t.role = RoleAdmin => t.user \in Admins

\* The requests whose reads still hold good for what they are about to write.
ByAdmin(r) == r.tok.user \in Admins
GoodReqs ==
    {r \in Reqs :
        /\ r.pc \in {"rehash", "token"} => r.on \in 1..nacc /\ (r.role = RoleAdmin => r.on \in Admins)
        /\ r.pc = "rehash" => r.on \notin There \/ r.pw = chosen[r.on] \/ r.on \in raced
        /\ r.pc = "create" => /\ r.name \in AccNames /\ r.saw <= nacc
                              /\ \A i \in There : acc[i].name = r.name => r.saw < i
        /\ r.pc \in {"saveCode", "newCode"} => r.name \in Codes
        /\ r.pc \in {"change", "record change"} => ByAdmin(r) \/ r.tok.user = r.on
        /\ r.pc \in {"role", "record role", "delete", "record delete"} => ByAdmin(r)
        /\ r.pc \in {"change", "role", "delete"} \cup DOMAIN Recorded => r.on \in 1..nacc
        /\ r.pc \in {"role", "delete"} => r.on \notin Admins
        /\ r.pc = "role" => r.role # RoleAdmin
        /\ r.pc = "record role" => <<r.on, r.role>> \in heldRoles \/ r.on \notin There
        /\ r.pc = "record delete" => r.on \notin There}
ReqInv == hreq \in [Handlers -> GoodReqs]

\* A logged operation was on a user there was.
AuditInv == AuditIsTrue /\ \A e \in audit : e.on \in 1..nacc

AccInv == AccTypeOK /\ RowsInv /\ ReqInv /\ AuditInv /\ PasswordIsChosen /\ SameNameOverlapped

-----------------------------------------------------------------------------
\* The steps at which a request is about to be logged.
LEMMA RecordedPCs == DOMAIN Recorded = {"record change", "record role", "record delete"}
<1> QED
  BY Zenon DEF Recorded

\* The ids given so far are ids.
LEMMA GivenIds == AccTypeOK => 1..nacc \subseteq AccIds
<1> QED
  BY AccountConstants DEF AccTypeOK, AccIds

\* Good requests are requests.
LEMMA GoodAreReqs == GoodReqs \subseteq Reqs
<1> QED
  BY Zenon DEF GoodReqs

\* An idle handler owes nothing.
LEMMA IdleIsOK == IdleReq \in GoodReqs
<1> QED
  BY RecordedPCs, Zenon DEF GoodReqs, IdleReq, Reqs, NoToken, ReqPCs, Roles, RoleUser

\* Init establishes the invariant: the founders have names of their own.
LEMMA InitAccInv == AccInit => AccInv
<1> SUFFICES ASSUME AccInit PROVE AccInv
  BY Zenon
<1>0. /\ Len(Founders) \in Nat /\ DOMAIN Founders = 1..Len(Founders) /\ DOMAIN Founders \subseteq AccIds
      /\ \A i \in DOMAIN Founders : Founders[i] \in [name : AccNames, pw : Passwords, form : {"plain", "hash"}, role : Roles]
  <2>1. Founders \in Seq([name : AccNames, pw : Passwords, form : {"plain", "hash"}, role : Roles])
        /\ Len(Founders) <= MaxAccounts /\ MaxAccounts \in Nat
    BY AccountConstants, Zenon
  <2>2. Len(Founders) \in Nat /\ DOMAIN Founders = 1..Len(Founders)
    BY <2>1
  <2>3. DOMAIN Founders \subseteq AccIds
    BY <2>1, <2>2, SMTT(30) DEF AccIds
  <2>4. QED
    <3>1. PICK R : R = [name : AccNames, pw : Passwords, form : {"plain", "hash"}, role : Roles]
      BY Zenon
    <3>2. Founders \in Seq(R)
      BY <2>1, <3>1, Zenon
    <3>3. \A i \in 1..Len(Founders) : Founders[i] \in R
      BY <3>2
    <3>4. QED
      BY <2>2, <2>3, <3>1, <3>3, Zenon
<1>1. acc \in [AccIds -> Rows]
  BY <1>0 DEF AccInit, Rows, NoRow, Roles, RoleUser, AccIds
<1>2. AccTypeOK
  <2>1. nacc \in 0..MaxAccounts /\ invite \in [row : {"yes", "no"}, code : Codes] /\ raced \subseteq AccIds /\ nreq \in Nat
    BY <1>0, AccountConstants, SMTT(30) DEF AccInit
  <2>2. tokens \subseteq Tokens /\ chosen \in [AccIds -> Passwords \cup {"none"}]
    BY <1>0, <1>1 DEF AccInit, Tokens, Rows
  <2>3. hreq \in [Handlers -> Reqs]
    BY IdleIsOK, GoodAreReqs, Zenon DEF AccInit
  <2>4. QED
    BY <1>1, <2>1, <2>2, <2>3, Zenon DEF AccTypeOK
<1>3. There = DOMAIN Founders
  BY <1>0, Zenon DEF AccInit, There, NoRow
<1>4. RowsInv
  <2>1. \A i \in There : i <= nacc
    BY <1>0, <1>3 DEF AccInit
  <2>2. \A t \in tokens : t.role = RoleAdmin => t.user \in Admins
    BY <1>3 DEF AccInit, Admins
  <2>3. QED
    BY <2>1, <2>2, Zenon DEF RowsInv
<1>5. ReqInv
  BY IdleIsOK, Zenon DEF AccInit, ReqInv
<1>6. AuditInv /\ PasswordIsChosen
  BY <1>3, <1>0, Zenon DEF AccInit, AuditInv, AuditIsTrue, PasswordIsChosen
<1>7. SameNameOverlapped
  BY <1>0, <1>3, AccountConstants DEF AccInit, SameNameOverlapped
<1>8. QED
  BY <1>2, <1>4, <1>5, <1>6, <1>7, Zenon DEF AccInv

\* A request stays good when no row goes back, no name changes and no admin is made or
\* unmade; a rehash needs its password to be still the one chosen.
LEMMA GoodStays ==
  ASSUME AccInv, NEW r \in GoodReqs, Admins' = Admins, nacc' \in Nat, nacc <= nacc',
         heldRoles \subseteq heldRoles',
         \A i \in There' : i > nacc \/ (i \in There /\ acc'[i].name = acc[i].name),
         r.pc = "rehash" => r.on \notin There' \/ r.pw = chosen'[r.on] \/ r.on \in raced'
  PROVE  r \in GoodReqs'
<1> USE DEF AccInv
<1>1. nacc \in Nat /\ There' \subseteq AccIds
  BY DEF AccTypeOK, There
<1>2. r.on \in 1..nacc => r.on \in 1..nacc' /\ (r.on \notin There => r.on \notin There')
  BY <1>1
<1>3. r.pc = "create" => r.saw <= nacc' /\ \A i \in There' : acc'[i].name = r.name => r.saw < i
  <2> SUFFICES ASSUME r.pc = "create" PROVE r.saw <= nacc' /\ \A i \in There' : acc'[i].name = r.name => r.saw < i
    BY Zenon
  <2>1. r.saw \in Nat /\ r.saw <= nacc /\ \A i \in There : acc[i].name = r.name => r.saw < i
    BY Zenon DEF GoodReqs, Reqs
  <2>2. ASSUME NEW i \in There', acc'[i].name = r.name PROVE r.saw < i
    BY <1>1, <2>1, <2>2 DEF AccIds
  <2>3. QED
    BY <1>1, <2>1, <2>2
<1>4. QED
  BY <1>2, <1>3, RecordedPCs, Zenon DEF GoodReqs, ByAdmin

\* An update of a row that keeps who is there, under which name and role.
SameUsers ==
    \A j \in AccIds : /\ acc'[j].there = acc[j].there /\ acc'[j].name = acc[j].name
                      /\ acc'[j].role = acc[j].role /\ acc'[j].saw = acc[j].saw

\* Such an update keeps the administrators and the requests in progress right.
LEMMA SameUsersKeep ==
  ASSUME AccInv, SameUsers, UNCHANGED <<nacc, heldRoles>>
  PROVE  /\ There' = There /\ Admins' = Admins /\ SameNameOverlapped'
         /\ \A r \in GoodReqs : (r.pc = "rehash" => r.pw = chosen'[r.on] \/ r.on \in raced') => r \in GoodReqs'
         /\ UNCHANGED <<chosen, raced>> => GoodReqs \subseteq GoodReqs'
<1>1. There' = There /\ Admins' = Admins
  BY Zenon DEF SameUsers, There, Admins
<1>2. SameNameOverlapped'
  BY <1>1, Zenon DEF AccInv, SameNameOverlapped, SameUsers, There
<1>3. nacc \in Nat /\ \A i \in There' : i \in There /\ acc'[i].name = acc[i].name
  BY <1>1 DEF AccInv, AccTypeOK, SameUsers, There
<1>4. ASSUME NEW r \in GoodReqs, r.pc = "rehash" => r.on \notin There' \/ r.pw = chosen'[r.on] \/ r.on \in raced'
      PROVE  r \in GoodReqs'
  BY <1>1, <1>3, <1>4, GoodStays
<1>5. UNCHANGED <<chosen, raced>> => GoodReqs \subseteq GoodReqs'
  BY <1>1, <1>4, Zenon DEF GoodReqs
<1>6. QED
  BY <1>1, <1>2, <1>4, <1>5, Zenon

\* A request that only reads keeps the invariant when it takes away what it may rely on.
LEMMA ReadStep ==
  ASSUME AccInv, ReadsOnly, NEW h \in Handlers, NEW r \in GoodReqs, nreq' \in Nat,
         hreq' = [hreq EXCEPT ![h] = r]
  PROVE  AccInv' /\ Admins' = Admins
<1> USE DEF AccInv, ReadsOnly
<1>1. AccTypeOK' /\ Admins' = Admins /\ There' = There
  BY GoodAreReqs, Zenon DEF AccTypeOK, Admins, There
<1>2. RowsInv' /\ AuditInv' /\ PasswordIsChosen' /\ SameNameOverlapped'
  BY <1>1, Zenon DEF RowsInv, AuditInv, AuditIsTrue, PasswordIsChosen, SameNameOverlapped
<1>3. GoodReqs \subseteq GoodReqs'
  BY SameUsersKeep, Zenon DEF SameUsers
<1>4. ReqInv'
  BY <1>3, Zenon DEF ReqInv
<1>5. QED
  BY <1>1, <1>2, <1>4, Zenon

\* Login reads a row and its role.
LEMMA LoginInv ==
  ASSUME AccInv, NEW h \in Handlers, NEW name \in AccNames, NEW pw \in Passwords, Login(h, name, pw)
  PROVE  AccInv' /\ Admins' = Admins
<1>0. PICK i \in There :
         /\ acc[i].pw = pw
         /\ Begins(h, [IdleReq EXCEPT !.pc = IF needsRehash(acc[i]) THEN "rehash" ELSE "token",
                                      !.on = i, !.pw = pw, !.role = acc[i].role])
  BY Zenon DEF Login, verifyPassword
<1>1. i \in AccIds /\ i \in 1..nacc /\ acc[i].role \in Roles /\ (acc[i].role = RoleAdmin => i \in Admins)
  BY DEF AccInv, AccTypeOK, RowsInv, Rows, There, Admins, AccIds
<1> DEFINE r == [IdleReq EXCEPT !.pc = IF needsRehash(acc[i]) THEN "rehash" ELSE "token", !.on = i, !.pw = pw, !.role = acc[i].role]
<1>2. nreq' = nreq + 1 /\ hreq' = [hreq EXCEPT ![h] = r]
  BY <1>0, Zenon DEF Begins
<1>3. r \in Reqs /\ r.pc = (IF needsRehash(acc[i]) THEN "rehash" ELSE "token") /\ r.on = i /\ r.pw = pw /\ r.role = acc[i].role
  BY <1>1, Zenon DEF IdleReq, Reqs, ReqPCs
<1>4. r \in GoodReqs
  <2> HIDE DEF r
  <2> QED
    BY <1>0, <1>1, <1>3, RecordedPCs, Zenon DEF GoodReqs, AccInv, PasswordIsChosen
<1>5. ReadsOnly /\ nreq' \in Nat
  BY <1>2 DEF Login, AccInv, AccTypeOK
<1>6. QED
  BY <1>2, <1>4, <1>5, ReadStep, Zenon

\* Register finds no row of the name among those there are.
LEMMA RegisterInv ==
  ASSUME AccInv, NEW h \in Handlers, NEW name \in AccNames, NEW pw \in Passwords, NEW code \in Codes, Register(h, name, pw, code)
  PROVE  AccInv' /\ Admins' = Admins
<1>1. nacc \in Nat /\ \A i \in There : acc[i].name # name
  BY DEF Register, AccInv, AccTypeOK
<1> DEFINE r == [IdleReq EXCEPT !.pc = "create", !.pw = pw, !.name = name, !.saw = nacc]
<1>2. nreq' = nreq + 1 /\ hreq' = [hreq EXCEPT ![h] = r]
  BY Zenon DEF Register, Begins
<1>3. r \in Reqs /\ r.pc = "create" /\ r.pw = pw /\ r.name = name /\ r.saw = nacc
  BY <1>1, Zenon DEF IdleReq, Reqs, ReqPCs, Roles, RoleUser
<1>4. r \in GoodReqs
  <2> HIDE DEF r
  <2>1. r.saw <= nacc /\ \A i \in There : acc[i].name = r.name => r.saw < i
    BY <1>1, <1>3
  <2> QED
    BY <1>3, <2>1, RecordedPCs, Zenon DEF GoodReqs
<1>5. ReadsOnly /\ nreq' \in Nat
  BY <1>2 DEF Register, AccInv, AccTypeOK
<1>6. QED
  BY <1>2, <1>4, <1>5, ReadStep, Zenon

\* An admin's request for a new code.
LEMMA UpdateRegisterInviteCodeInv ==
  ASSUME AccInv, NEW h \in Handlers, NEW tok \in tokens, NEW code \in Codes, UpdateRegisterInviteCode(h, tok, code)
  PROVE  AccInv' /\ Admins' = Admins
<1>1. tok \in Tokens
  BY Zenon DEF AccInv, AccTypeOK
<1> DEFINE r == [IdleReq EXCEPT !.pc = IF invite.row = "yes" THEN "saveCode" ELSE "newCode", !.tok = tok, !.name = code]
<1>2. nreq' = nreq + 1 /\ hreq' = [hreq EXCEPT ![h] = r]
  BY Zenon DEF UpdateRegisterInviteCode, Begins
<1>3. r \in Reqs /\ r.pc = (IF invite.row = "yes" THEN "saveCode" ELSE "newCode") /\ r.tok = tok /\ r.name = code
  BY <1>1, Zenon DEF IdleReq, Reqs, ReqPCs, Roles, RoleUser
<1>4. r \in GoodReqs
  <2> HIDE DEF r
  <2> QED
    BY <1>3, RecordedPCs, Zenon DEF GoodReqs
<1>5. ReadsOnly /\ nreq' \in Nat
  BY <1>2 DEF UpdateRegisterInviteCode, AccInv, AccTypeOK
<1>6. QED
  BY <1>2, <1>4, <1>5, ReadStep, Zenon

\* The token is the user's own or an admin's.
LEMMA ChangePasswordInv ==
  ASSUME AccInv, NEW h \in Handlers, NEW tok \in tokens, NEW target \in AccIds, NEW old \in Passwords, NEW new \in Passwords, ChangePassword(h, tok, target, old, new)
  PROVE  AccInv' /\ Admins' = Admins
<1>1. tok \in Tokens /\ target \in 1..nacc /\ (tok.user \in Admins \/ tok.user = target)
  BY DEF ChangePassword, VerifyAdmin, AccInv, AccTypeOK, RowsInv, There, AccIds
<1> DEFINE r == [IdleReq EXCEPT !.pc = "change", !.tok = tok, !.on = target, !.pw = new]
<1>2. nreq' = nreq + 1 /\ hreq' = [hreq EXCEPT ![h] = r]
  BY Zenon DEF ChangePassword, Begins
<1>3. r \in Reqs /\ r.pc = "change" /\ r.tok = tok /\ r.on = target /\ r.pw = new
  BY <1>1, Zenon DEF IdleReq, Reqs, ReqPCs, Roles, RoleUser
<1>4. r \in GoodReqs
  <2> HIDE DEF r
  <2> QED
    BY <1>1, <1>3, RecordedPCs, Zenon DEF GoodReqs, ByAdmin
<1>5. ReadsOnly /\ nreq' \in Nat
  BY <1>2 DEF ChangePassword, AccInv, AccTypeOK
<1>6. QED
  BY <1>2, <1>4, <1>5, ReadStep, Zenon

\* The caller is an admin, the target none, and the role not that of one.
LEMMA SetUserRoleInv ==
  ASSUME AccInv, NEW h \in Handlers, NEW tok \in tokens, NEW target \in AccIds, NEW role \in 0..3, SetUserRole(h, tok, target, role)
  PROVE  AccInv' /\ Admins' = Admins
<1>1. /\ tok \in Tokens /\ target \in 1..nacc /\ tok.user \in Admins /\ target \notin Admins
      /\ role \in Roles /\ role # RoleAdmin
  BY DEF SetUserRole, canSetUserRole, AccInv, AccTypeOK, RowsInv, There, AccIds, Admins, Roles, RoleUser, RoleAdmin, RoleCoach
<1> DEFINE r == [IdleReq EXCEPT !.pc = "role", !.tok = tok, !.on = target, !.role = role]
<1>2. nreq' = nreq + 1 /\ hreq' = [hreq EXCEPT ![h] = r]
  BY Zenon DEF SetUserRole, Begins
<1>3. r \in Reqs /\ r.pc = "role" /\ r.tok = tok /\ r.on = target /\ r.role = role
  BY <1>1, Zenon DEF IdleReq, Reqs, ReqPCs
<1>4. r \in GoodReqs
  <2> HIDE DEF r
  <2> QED
    BY <1>1, <1>3, RecordedPCs, Zenon DEF GoodReqs, ByAdmin
<1>5. ReadsOnly /\ nreq' \in Nat
  BY <1>2 DEF SetUserRole, AccInv, AccTypeOK
<1>6. QED
  BY <1>2, <1>4, <1>5, ReadStep, Zenon

\* The token is an admin's and the target is none.
LEMMA DeleteUserInv ==
  ASSUME AccInv, NEW h \in Handlers, NEW tok \in tokens, NEW target \in AccIds, DeleteUser(h, tok, target)
  PROVE  AccInv' /\ Admins' = Admins
<1>1. tok \in Tokens /\ target \in 1..nacc /\ tok.user \in Admins /\ target \notin Admins
  BY DEF DeleteUser, canDeleteUser, AccInv, AccTypeOK, RowsInv, There, AccIds, Admins
<1> DEFINE r == [IdleReq EXCEPT !.pc = "delete", !.tok = tok, !.on = target]
<1>2. nreq' = nreq + 1 /\ hreq' = [hreq EXCEPT ![h] = r]
  BY Zenon DEF DeleteUser, Begins
<1>3. r \in Reqs /\ r.pc = "delete" /\ r.tok = tok /\ r.on = target
  BY <1>1, Zenon DEF IdleReq, Reqs, ReqPCs, Roles, RoleUser
<1>4. r \in GoodReqs
  <2> HIDE DEF r
  <2> QED
    BY <1>1, <1>3, RecordedPCs, Zenon DEF GoodReqs, ByAdmin
<1>5. ReadsOnly /\ nreq' \in Nat
  BY <1>2 DEF DeleteUser, AccInv, AccTypeOK
<1>6. QED
  BY <1>2, <1>4, <1>5, ReadStep, Zenon

-----------------------------------------------------------------------------
\* The password verified before is written again, as a hash.
LEMMA LoginRehashInv ==
  ASSUME AccInv, NEW h \in Handlers, LoginRehash(h)
  PROVE  AccInv' /\ Admins' = Admins
<1> USE DEF AccInv
<1> DEFINE i == hreq[h].on
           r == [hreq[h] EXCEPT !.pc = "token"]
<1>0. /\ hreq[h] \in GoodReqs /\ hreq[h] \in Reqs /\ hreq[h].pc = "rehash" /\ i \in AccIds
      /\ i \notin There \/ hreq[h].pw = chosen[i] \/ i \in raced
  <2>1. hreq[h] \in GoodReqs /\ hreq[h].pc = "rehash"
    BY Zenon DEF ReqInv, LoginRehash, Current
  <2>2. hreq[h] \in Reqs /\ i \in 1..nacc /\ (i \notin There \/ hreq[h].pw = chosen[i] \/ i \in raced)
    BY <2>1, Zenon DEF GoodReqs
  <2>3. QED
    BY <2>1, <2>2, GivenIds, Zenon
<1>1. /\ hreq' = [hreq EXCEPT ![h] = r]
      /\ acc' = [acc EXCEPT ![i] = IF @.there = "yes" THEN [@ EXCEPT !.pw = hreq[h].pw, !.form = "hash"] ELSE @]
      /\ UNCHANGED <<nacc, invite, tokens, chosen, raced, heldRoles, audit, nreq>>
  BY Zenon DEF LoginRehash, Current, Continue, ReqInv
<1>2. acc' \in [AccIds -> Rows] /\ SameUsers
  <2>1. [acc[i] EXCEPT !.pw = hreq[h].pw, !.form = "hash"] \in Rows
    <3>1. acc[i] \in Rows /\ hreq[h].pw \in Passwords \cup {"none"}
      BY <1>0, Zenon DEF AccTypeOK, Reqs
    <3>2. QED
      BY <3>1, Zenon DEF Rows
  <2>2. acc' \in [AccIds -> Rows]
    BY <1>0, <1>1, <2>1, Zenon DEF AccTypeOK
  <2>3. SameUsers
    BY <1>0, <1>1 DEF AccTypeOK, Rows, SameUsers
  <2>4. QED
    BY <2>2, <2>3, Zenon
<1>3. /\ There' = There /\ Admins' = Admins /\ SameNameOverlapped' /\ GoodReqs \subseteq GoodReqs'
  BY <1>1, <1>2, SameUsersKeep, Zenon
<1>4. r \in GoodReqs
  BY <1>0, RecordedPCs, ZenonT(40) DEF GoodReqs, Reqs, ReqPCs
<1>5. ReqInv' /\ AccTypeOK'
  BY <1>1, <1>2, <1>3, <1>4, ZenonT(40) DEF ReqInv, AccTypeOK, GoodReqs
<1>6. RowsInv' /\ AuditInv'
  BY <1>1, <1>3, Zenon DEF RowsInv, AuditInv, AuditIsTrue
<1>7. PasswordIsChosen'
  BY <1>0, <1>1, <1>3 DEF PasswordIsChosen, AccTypeOK, Rows, There
<1>8. QED
  BY <1>3, <1>5, <1>6, <1>7, Zenon

\* A step that ends a request and leaves the rows alone: a token, a code, an entry.
LEMMA FinishStep ==
  ASSUME AccInv, NEW h \in Handlers, Finish(h), UNCHANGED <<acc, nacc, chosen, raced, heldRoles>>
  PROVE  /\ There' = There /\ Admins' = Admins /\ ReqInv' /\ PasswordIsChosen' /\ SameNameOverlapped'
         /\ hreq' \in [Handlers -> Reqs] /\ nreq' = nreq
<1> USE DEF AccInv
<1>1. SameUsers
  BY Zenon DEF SameUsers
<1>2. There' = There /\ Admins' = Admins /\ SameNameOverlapped' /\ GoodReqs \subseteq GoodReqs'
  BY <1>1, SameUsersKeep, Zenon
<1>3. ReqInv' /\ hreq' \in [Handlers -> Reqs]
  BY <1>2, IdleIsOK, Zenon DEF Finish, ReqInv, GoodReqs
<1>4. PasswordIsChosen'
  BY <1>2, Zenon DEF PasswordIsChosen
<1>5. QED
  BY <1>2, <1>3, <1>4, Zenon DEF Finish

\* The token carries the role that was read.
LEMMA LoginTokenInv ==
  ASSUME AccInv, NEW h \in Handlers, LoginToken(h)
  PROVE  AccInv' /\ Admins' = Admins
<1> USE DEF AccInv
<1>1. /\ There' = There /\ Admins' = Admins /\ ReqInv' /\ PasswordIsChosen' /\ SameNameOverlapped'
      /\ hreq' \in [Handlers -> Reqs] /\ nreq' = nreq
  BY FinishStep, Zenon DEF LoginToken
<1>2. /\ hreq[h] \in Reqs /\ hreq[h].on \in AccIds
      /\ hreq[h].role = RoleAdmin => hreq[h].on \in Admins
  <2>1. hreq[h] \in GoodReqs /\ hreq[h].pc = "token"
    BY Zenon DEF ReqInv, LoginToken, Current
  <2>2. hreq[h] \in Reqs /\ hreq[h].on \in 1..nacc /\ (hreq[h].role = RoleAdmin => hreq[h].on \in Admins)
    BY <2>1, Zenon DEF GoodReqs
  <2>3. QED
    BY <2>2, GivenIds, Zenon
<1>3. AccTypeOK'
  BY <1>1, <1>2, SMTT(30) DEF AccTypeOK, LoginToken, Current, Tokens, Reqs
<1>4. RowsInv'
  BY <1>1, <1>2 DEF RowsInv, LoginToken, Current
<1>5. AuditInv'
  BY <1>1, Zenon DEF AuditInv, AuditIsTrue, LoginToken
<1>6. QED
  BY <1>1, <1>3, <1>4, <1>5, Zenon

\* The code is created or saved.
LEMMA SaveCodeInv ==
  ASSUME AccInv, NEW h \in Handlers, SaveCode(h)
  PROVE  AccInv' /\ Admins' = Admins
<1> USE DEF AccInv
<1>1. /\ There' = There /\ Admins' = Admins /\ ReqInv' /\ PasswordIsChosen' /\ SameNameOverlapped'
      /\ hreq' \in [Handlers -> Reqs] /\ nreq' = nreq
  BY FinishStep, Zenon DEF SaveCode
<1>2. hreq[h].name \in Codes
  BY Zenon DEF ReqInv, GoodReqs, SaveCode, Current
<1>3. AccTypeOK'
  BY <1>1, <1>2, Zenon DEF AccTypeOK, SaveCode, Current
<1>4. RowsInv' /\ AuditInv'
  BY <1>1, Zenon DEF RowsInv, AuditInv, AuditIsTrue, SaveCode
<1>5. QED
  BY <1>1, <1>3, <1>4, Zenon

\* The entry is written, or only logged.
LEMMA recordUserOperationInv ==
  ASSUME AccInv, NEW h \in Handlers, recordUserOperation(h)
  PROVE  AccInv' /\ Admins' = Admins
<1> USE DEF AccInv
<1>1. /\ There' = There /\ Admins' = Admins /\ ReqInv' /\ PasswordIsChosen' /\ SameNameOverlapped'
      /\ hreq' \in [Handlers -> Reqs] /\ nreq' = nreq
  BY FinishStep, Zenon DEF recordUserOperation
<1>2. AccTypeOK' /\ RowsInv'
  BY <1>1, Zenon DEF AccTypeOK, RowsInv, recordUserOperation
<1> DEFINE e == Entry(h)
<1>3. /\ e.on \in 1..nacc
      /\ e.by \in Admins \/ (e.op = "change" /\ e.by = e.on)
      /\ e.op = "delete" => e.on \notin There
      /\ e.op = "role" => <<e.on, e.role>> \in heldRoles \/ e.on \notin There
  BY Zenon DEF ReqInv, GoodReqs, ByAdmin, recordUserOperation, Entry, Recorded, Current
<1>4. audit' \subseteq audit \cup {e} /\ nacc' = nacc /\ heldRoles' = heldRoles
  BY Zenon DEF recordUserOperation
<1>5. AuditInv'
  BY <1>1, <1>3, <1>4, Zenon DEF AuditInv, AuditIsTrue
<1>6. QED
  BY <1>1, <1>2, <1>5, Zenon

\* The row gets the next id and the role of a user; the look of Register bounds which
\* rows of the same name it can have missed.
LEMMA CreateUserInv ==
  ASSUME AccInv, NEW h \in Handlers, CreateUser(h)
  PROVE  AccInv' /\ Admins' = Admins
<1> USE DEF AccInv
<1> DEFINE n == nacc + 1
           q == hreq[h]
<1>0. /\ q \in Reqs /\ q.name \in AccNames /\ n \in AccIds /\ n \notin There /\ nacc \in Nat
      /\ \A i \in There : acc[i].name = q.name => q.saw < i
  <2>1. nacc \in Nat /\ n \in AccIds
    BY AccountConstants DEF CreateUser, AccTypeOK, AccIds
  <2>2. n \notin There
    BY <2>1 DEF RowsInv
  <2>3. q \in GoodReqs /\ q.pc = "create"
    BY Zenon DEF ReqInv, CreateUser, Current
  <2>4. QED
    BY <2>1, <2>2, <2>3, Zenon DEF GoodReqs
<1>1. /\ nacc' = n /\ hreq' = [hreq EXCEPT ![h] = IdleReq]
      /\ acc' = [acc EXCEPT ![n] = [there |-> "yes", name |-> q.name, pw |-> q.pw, form |-> "hash",
                                    role |-> RoleUser, mail |-> "yes", saw |-> q.saw]]
      /\ chosen' = [chosen EXCEPT ![n] = q.pw] /\ heldRoles' = heldRoles \cup {<<n, RoleUser>>}
      /\ UNCHANGED <<invite, tokens, raced, audit, nreq>>
  BY Zenon DEF CreateUser, Current, Finish
<1>2. /\ acc' \in [AccIds -> Rows] /\ \A j \in AccIds : j # n => acc'[j] = acc[j]
      /\ acc'[n].there = "yes" /\ acc'[n].role = RoleUser /\ acc'[n].name = q.name
      /\ acc'[n].pw = q.pw /\ acc'[n].saw = q.saw
  BY <1>0, <1>1, SMTT(30) DEF AccTypeOK, Rows, Reqs, Roles
<1>3. There' = There \cup {n} /\ Admins' = Admins
  BY <1>0, <1>2 DEF There, Admins, RoleUser, RoleAdmin
<1>4. AccTypeOK'
  <2>1. nacc' \in 0..MaxAccounts
    BY <1>0, <1>1 DEF AccIds
  <2>2. q.pw \in Passwords \cup {"none"} /\ IdleReq \in Reqs
    BY <1>0, IdleIsOK, GoodAreReqs, Zenon DEF Reqs
  <2>3. QED
    BY <1>0, <1>1, <1>2, <2>1, <2>2, Zenon DEF AccTypeOK
<1>5. RowsInv'
  BY <1>0, <1>1, <1>3, SMTT(30) DEF RowsInv, There, AccIds
<1>6. GoodReqs \subseteq GoodReqs'
  <2> SUFFICES ASSUME NEW r \in GoodReqs PROVE r \in GoodReqs'
    BY Zenon
  <2>1. \A i \in There' : i > nacc \/ (i \in There /\ acc'[i].name = acc[i].name)
    BY <1>0, <1>2, <1>3, SMTT(30) DEF There
  <2>2. r.pc = "rehash" => r.on \notin There' \/ r.pw = chosen'[r.on] \/ r.on \in raced'
    <3>1. r.pc = "rehash" => r.on \in 1..nacc /\ (r.on \notin There \/ r.pw = chosen[r.on] \/ r.on \in raced)
      BY Zenon DEF GoodReqs
    <3>2. r.pc = "rehash" => r.on # n
      BY <1>0, <3>1
    <3>3. QED
      BY <1>1, <1>3, <3>1, <3>2, SMTT(30) DEF AccTypeOK
  <2>3. QED
    BY <1>0, <1>1, <1>3, <2>1, <2>2, GoodStays, SMTT(30)
<1>7. ReqInv'
  BY <1>1, <1>6, IdleIsOK, Zenon DEF ReqInv
<1>8. AuditInv'
  BY <1>0, <1>1, <1>3, SMTT(30) DEF AuditInv, AuditIsTrue
<1>9. PasswordIsChosen'
  BY <1>0, <1>1, <1>2, <1>3, SMTT(30) DEF PasswordIsChosen, AccTypeOK, There
<1>10. SameNameOverlapped'
  BY <1>0, <1>2, <1>3 DEF SameNameOverlapped, RowsInv, There, AccIds
<1>11. QED
  BY <1>3, <1>4, <1>5, <1>7, <1>8, <1>9, <1>10, Zenon

\* An update of an existing row that keeps the names and the admins: what the requests
\* and the log rely on stays.
LEMMA RowUpdate ==
  ASSUME AccInv, NEW h \in Handlers, NEW r, acc' \in [AccIds -> Rows], hreq' = [hreq EXCEPT ![h] = r],
         r \in GoodReqs', There' \subseteq There, Admins' = Admins, heldRoles \subseteq heldRoles',
         \A j \in AccIds : acc'[j].name = acc[j].name /\ acc'[j].saw = acc[j].saw,
         chosen' \in [AccIds -> Passwords \cup {"none"}], raced' \subseteq AccIds,
         \A g \in Handlers : hreq[g].pc = "rehash" =>
             hreq[g].on \notin There' \/ hreq[g].pw = chosen'[hreq[g].on] \/ hreq[g].on \in raced',
         UNCHANGED <<nacc, invite, tokens, audit, nreq>>
  PROVE  AccTypeOK' /\ RowsInv' /\ ReqInv' /\ AuditInv' /\ SameNameOverlapped'
<1> USE DEF AccInv
<1>1. nacc \in Nat /\ There \subseteq AccIds
  BY SMTT(30) DEF AccTypeOK, There
<1>2. \A g \in Handlers : hreq[g] \in GoodReqs'
  <2> TAKE g \in Handlers
  <2>1. hreq[g] \in GoodReqs
    BY Zenon DEF ReqInv
  <2>2. \A i \in There' : i > nacc \/ (i \in There /\ acc'[i].name = acc[i].name)
    BY <1>1, Zenon
  <2>3. QED
    BY <1>1, <2>1, <2>2, GoodStays, SMTT(30)
<1>3. ReqInv'
  BY <1>2, Zenon DEF ReqInv
<1>4. AccTypeOK'
  <2>1. GoodReqs' \subseteq Reqs
    BY Zenon DEF GoodReqs
  <2>2. QED
    BY <1>3, <2>1, Zenon DEF AccTypeOK, ReqInv
<1>5. RowsInv' /\ AuditInv'
  BY Zenon DEF RowsInv, AuditInv, AuditIsTrue
<1>6. SameNameOverlapped'
  BY <1>1, Zenon DEF SameNameOverlapped
<1>7. QED
  BY <1>3, <1>4, <1>5, <1>6, Zenon

\* The new password is stored; a login about to rehash the old one is marked as outrun.
LEMMA StorePasswordInv ==
  ASSUME AccInv, NEW h \in Handlers, StorePassword(h)
  PROVE  AccInv' /\ Admins' = Admins
<1> USE DEF AccInv
<1> DEFINE i == hreq[h].on
           r == [hreq[h] EXCEPT !.pc = "record change"]
<1>0. hreq[h] \in GoodReqs /\ hreq[h] \in Reqs /\ hreq[h].pc = "change"
  BY GoodAreReqs, Zenon DEF ReqInv, StorePassword, Current
<1>1. CASE i \notin There
  <2>1. Finish(h) /\ UNCHANGED <<acc, chosen, raced, nacc, invite, tokens, heldRoles, audit>>
    BY <1>1, Zenon DEF StorePassword, Current
  <2>2. /\ There' = There /\ Admins' = Admins /\ ReqInv' /\ PasswordIsChosen' /\ SameNameOverlapped'
        /\ hreq' \in [Handlers -> Reqs] /\ nreq' = nreq
    BY <2>1, FinishStep, Zenon
  <2>3. AccTypeOK' /\ RowsInv' /\ AuditInv'
    BY <2>1, <2>2, Zenon DEF AccTypeOK, RowsInv, AuditInv, AuditIsTrue
  <2>4. QED
    BY <2>2, <2>3, Zenon
<1>2. CASE i \in There
  <2>1. /\ acc' = [acc EXCEPT ![i].pw = hreq[h].pw, ![i].form = "hash"] /\ chosen' = [chosen EXCEPT ![i] = hreq[h].pw]
        /\ hreq' = [hreq EXCEPT ![h] = r] /\ UNCHANGED <<nacc, invite, tokens, heldRoles, audit, nreq>>
        /\ raced' = IF \E g \in Handlers : hreq[g].pc = "rehash" /\ hreq[g].on = i THEN raced \cup {i} ELSE raced
    BY <1>2, Zenon DEF StorePassword, Current, Continue
  <2>2. i \in AccIds /\ acc[i] \in Rows /\ hreq[h].pw \in Passwords \cup {"none"}
    BY <1>0, <1>2, Zenon DEF AccTypeOK, Reqs, There
  <2>3. acc' = [acc EXCEPT ![i] = [acc[i] EXCEPT !.pw = hreq[h].pw, !.form = "hash"]]
    BY <2>1, <2>2, Zenon DEF AccTypeOK, Rows
  <2>4. /\ acc' \in [AccIds -> Rows] /\ SameUsers /\ acc'[i].pw = hreq[h].pw
        /\ \A j \in AccIds : j # i => acc'[j] = acc[j]
    <3>1. [acc[i] EXCEPT !.pw = hreq[h].pw, !.form = "hash"] \in Rows
      BY <2>2, Zenon DEF Rows
    <3>2. acc' \in [AccIds -> Rows]
      BY <2>3, <3>1, Zenon DEF AccTypeOK
    <3>3. QED
      BY <2>2, <2>3, <3>2 DEF AccTypeOK, Rows, SameUsers
  <2>5. There' = There /\ Admins' = Admins
    BY <2>1, <2>4, SameUsersKeep, Zenon
  <2>6. r \in GoodReqs'
    <3>1. r \in GoodReqs /\ r.pc = "record change"
      BY <1>0, RecordedPCs, ZenonT(40) DEF GoodReqs, Reqs, ReqPCs, ByAdmin
    <3>2. QED
      BY <2>1, <2>4, <3>1, SameUsersKeep, Zenon
  <2>7. \A g \in Handlers : hreq[g].pc = "rehash" =>
             hreq[g].on \notin There' \/ hreq[g].pw = chosen'[hreq[g].on] \/ hreq[g].on \in raced'
    <3> TAKE g \in Handlers
    <3>1. hreq[g].pc = "rehash" => hreq[g].on \notin There \/ hreq[g].pw = chosen[hreq[g].on] \/ hreq[g].on \in raced
      BY Zenon DEF ReqInv, GoodReqs
    <3>2. CASE hreq[g].on = i
      BY <2>1, <3>2, Zenon
    <3>3. CASE hreq[g].on # i
      <4>1. hreq[g].pc = "rehash" => hreq[g].on \notin There \/ hreq[g].on \in AccIds
        BY Zenon DEF There
      <4>2. QED
        BY <2>1, <2>5, <3>1, <3>3, <4>1, Zenon DEF AccTypeOK
    <3>4. QED
      BY <3>2, <3>3, Zenon
  <2>8. chosen' \in [AccIds -> Passwords \cup {"none"}] /\ raced' \subseteq AccIds
    BY <2>1, <2>2, Zenon DEF AccTypeOK
  <2>9. AccTypeOK' /\ RowsInv' /\ ReqInv' /\ AuditInv' /\ SameNameOverlapped'
    BY <2>1, <2>4, <2>5, <2>6, <2>7, <2>8, RowUpdate, ZenonT(40) DEF SameUsers
  <2>10. PasswordIsChosen'
    BY <2>1, <2>2, <2>4, <2>5, ZenonT(40) DEF PasswordIsChosen, AccTypeOK, There
  <2>11. QED
    BY <2>5, <2>9, <2>10, Zenon
<1>3. QED
  BY <1>1, <1>2, Zenon

\* The role is written, unless the user is gone: neither the old nor the new one is an
\* admin's.
LEMMA SetRoleIdInv ==
  ASSUME AccInv, NEW h \in Handlers, SetRoleId(h)
  PROVE  AccInv' /\ Admins' = Admins
<1> USE DEF AccInv
<1> DEFINE i == hreq[h].on
           role == IF i \in There THEN hreq[h].role ELSE acc[i].role
           r == [hreq[h] EXCEPT !.pc = "record role"]
<1>0. /\ hreq[h] \in Reqs /\ i \in 1..nacc /\ i \notin Admins /\ hreq[h].role # RoleAdmin /\ ByAdmin(hreq[h])
  <2>1. hreq[h] \in GoodReqs /\ hreq[h].pc = "role"
    BY Zenon DEF ReqInv, SetRoleId, Current
  <2>2. QED
    BY <2>1, Zenon DEF GoodReqs
<1>1. /\ hreq' = [hreq EXCEPT ![h] = r] /\ acc' = [acc EXCEPT ![i].role = role]
      /\ heldRoles' = IF i \in There THEN heldRoles \cup {<<i, hreq[h].role>>} ELSE heldRoles
      /\ UNCHANGED <<nacc, invite, tokens, chosen, raced, audit, nreq>>
  BY Zenon DEF SetRoleId, Current, Continue
<1>2. i \in AccIds /\ acc[i] \in Rows /\ role \in Roles
  BY <1>0, GivenIds, Zenon DEF AccTypeOK, Rows, Reqs
<1>3. acc' = [acc EXCEPT ![i] = [acc[i] EXCEPT !.role = role]]
  BY <1>1, <1>2, Zenon DEF AccTypeOK, Rows
<1>4. /\ acc' \in [AccIds -> Rows] /\ acc'[i].role = role
      /\ \A j \in AccIds : /\ acc'[j].there = acc[j].there /\ acc'[j].name = acc[j].name
                           /\ acc'[j].saw = acc[j].saw /\ acc'[j].pw = acc[j].pw
                           /\ j # i => acc'[j].role = acc[j].role
  <2>1. [acc[i] EXCEPT !.role = role] \in Rows
    BY <1>2, Zenon DEF Rows
  <2>2. acc' \in [AccIds -> Rows]
    BY <1>3, <2>1, ZenonT(40) DEF AccTypeOK
  <2>3. QED
    BY <1>2, <1>3, <2>2, Zenon DEF AccTypeOK, Rows
<1>5. There' = There /\ Admins' = Admins
  BY <1>0, <1>2, <1>4, SMTT(30) DEF There, Admins
<1>6. r \in GoodReqs'
  <2>1. r \in Reqs /\ r.pc = "record role" /\ r.tok = hreq[h].tok /\ r.on = i /\ r.role = hreq[h].role
    BY <1>0, RecordedPCs, Zenon DEF Reqs, ReqPCs
  <2> HIDE DEF r
  <2>2. r.on \in 1..nacc' /\ r.tok.user \in Admins' /\ (<<r.on, r.role>> \in heldRoles' \/ r.on \notin There')
    BY <1>0, <1>1, <1>5, <2>1, Zenon DEF ByAdmin
  <2>3. QED
    BY <2>1, <2>2, RecordedPCs, Zenon DEF GoodReqs, ByAdmin
<1>7. \A g \in Handlers : hreq[g].pc = "rehash" =>
           hreq[g].on \notin There' \/ hreq[g].pw = chosen'[hreq[g].on] \/ hreq[g].on \in raced'
  BY <1>1, <1>5, Zenon DEF ReqInv, GoodReqs
<1>8. AccTypeOK' /\ RowsInv' /\ ReqInv' /\ AuditInv' /\ SameNameOverlapped'
  <2>1. chosen' \in [AccIds -> Passwords \cup {"none"}] /\ raced' \subseteq AccIds /\ heldRoles \subseteq heldRoles'
    BY <1>1, ZenonT(40) DEF AccTypeOK
  <2> HIDE DEF r
  <2>2. QED
    BY <1>1, <1>4, <1>5, <1>6, <1>7, <2>1, RowUpdate, Zenon
<1>9. PasswordIsChosen'
  BY <1>1, <1>4, <1>5, ZenonT(40) DEF PasswordIsChosen, There
<1>10. QED
  BY <1>5, <1>8, <1>9, Zenon

\* The row is marked as deleted; it is no admin's.
LEMMA RemoveUserInv ==
  ASSUME AccInv, NEW h \in Handlers, RemoveUser(h)
  PROVE  AccInv' /\ Admins' = Admins
<1> USE DEF AccInv
<1> DEFINE i == hreq[h].on
           r == [hreq[h] EXCEPT !.pc = "record delete"]
<1>0. hreq[h] \in Reqs /\ i \in 1..nacc /\ i \notin Admins /\ ByAdmin(hreq[h])
  <2>1. hreq[h] \in GoodReqs /\ hreq[h].pc = "delete"
    BY Zenon DEF ReqInv, RemoveUser, Current
  <2>2. QED
    BY <2>1, Zenon DEF GoodReqs
<1>1. CASE i \notin There
  <2>1. Finish(h) /\ UNCHANGED <<acc, chosen, raced, nacc, invite, tokens, heldRoles, audit>>
    BY <1>1, Zenon DEF RemoveUser, Current
  <2>2. /\ There' = There /\ Admins' = Admins /\ ReqInv' /\ PasswordIsChosen' /\ SameNameOverlapped'
        /\ hreq' \in [Handlers -> Reqs] /\ nreq' = nreq
    BY <2>1, FinishStep, Zenon
  <2>3. AccTypeOK' /\ RowsInv' /\ AuditInv'
    BY <2>1, <2>2, Zenon DEF AccTypeOK, RowsInv, AuditInv, AuditIsTrue
  <2>4. QED
    BY <2>2, <2>3, Zenon
<1>2. CASE i \in There
  <2>1. /\ hreq' = [hreq EXCEPT ![h] = r] /\ acc' = [acc EXCEPT ![i].there = "no"]
        /\ UNCHANGED <<nacc, invite, tokens, chosen, raced, heldRoles, audit, nreq>>
    BY <1>2, Zenon DEF RemoveUser, Current, Continue
  <2>2. i \in AccIds /\ acc[i] \in Rows
    BY <1>0, GivenIds, Zenon DEF AccTypeOK
  <2>3. acc' = [acc EXCEPT ![i] = [acc[i] EXCEPT !.there = "no"]]
    BY <2>1, <2>2, Zenon DEF AccTypeOK, Rows
  <2>4. /\ acc' \in [AccIds -> Rows] /\ acc'[i].there = "no"
        /\ \A j \in AccIds : /\ acc'[j].name = acc[j].name /\ acc'[j].saw = acc[j].saw /\ acc'[j].pw = acc[j].pw
                             /\ acc'[j].role = acc[j].role /\ (j # i => acc'[j].there = acc[j].there)
    <3>1. [acc[i] EXCEPT !.there = "no"] \in Rows
      BY <2>2, Zenon DEF Rows
    <3>2. acc' \in [AccIds -> Rows]
      BY <2>3, <3>1, Zenon DEF AccTypeOK
    <3>3. QED
      BY <2>2, <2>3, <3>2, Zenon DEF AccTypeOK, Rows
  <2>5. There' = There \ {i} /\ Admins' = Admins
    BY <1>0, <2>2, <2>4 DEF There, Admins
  <2>6. r \in GoodReqs'
    <3>1. r \in Reqs /\ r.pc = "record delete" /\ r.tok = hreq[h].tok /\ r.on = i
      BY <1>0, RecordedPCs, Zenon DEF Reqs, ReqPCs
    <3> HIDE DEF r
    <3>2. r.on \in 1..nacc' /\ r.tok.user \in Admins' /\ r.on \notin There'
      BY <1>0, <2>1, <2>5, <3>1, Zenon DEF ByAdmin
    <3>3. QED
      BY <3>1, <3>2, RecordedPCs, Zenon DEF GoodReqs, ByAdmin
  <2>7. \A g \in Handlers : hreq[g].pc = "rehash" =>
             hreq[g].on \notin There' \/ hreq[g].pw = chosen'[hreq[g].on] \/ hreq[g].on \in raced'
    BY <2>1, <2>5, Zenon DEF ReqInv, GoodReqs
  <2>8. AccTypeOK' /\ RowsInv' /\ ReqInv' /\ AuditInv' /\ SameNameOverlapped'
    <3>1. /\ chosen' \in [AccIds -> Passwords \cup {"none"}] /\ raced' \subseteq AccIds
          /\ heldRoles \subseteq heldRoles' /\ There' \subseteq There
      BY <2>1, <2>5, Zenon DEF AccTypeOK
    <3> HIDE DEF r
    <3>2. QED
      BY <2>1, <2>4, <2>5, <2>6, <2>7, <3>1, RowUpdate, Zenon
  <2>9. PasswordIsChosen'
    BY <2>1, <2>4, <2>5, Zenon DEF PasswordIsChosen, There
  <2>10. QED
    BY <2>5, <2>8, <2>9, Zenon
<1>3. QED
  BY <1>1, <1>2, Zenon

\* The mail flag is nobody's business here.
LEMMA SetEmailEnabledInv ==
  ASSUME AccInv, NEW tok \in tokens, NEW target \in AccIds, NEW on \in {"yes", "no"}, SetEmailEnabled(tok, target, on)
  PROVE  AccInv' /\ Admins' = Admins
<1> USE DEF AccInv
<1> DEFINE mail == IF target \in There THEN on ELSE acc[target].mail
<1>1. /\ acc' = [acc EXCEPT ![target].mail = mail] /\ nreq' = nreq + 1
      /\ UNCHANGED <<nacc, invite, tokens, hreq, chosen, raced, heldRoles, audit>>
  BY Zenon DEF SetEmailEnabled
<1>2. acc[target] \in Rows /\ mail \in {"yes", "no"}
  BY Zenon DEF AccTypeOK, Rows
<1>3. acc' = [acc EXCEPT ![target] = [acc[target] EXCEPT !.mail = mail]]
  BY <1>1, <1>2, Zenon DEF AccTypeOK, Rows
<1>4. acc' \in [AccIds -> Rows] /\ SameUsers /\ \A j \in AccIds : acc'[j].pw = acc[j].pw
  <2>1. [acc[target] EXCEPT !.mail = mail] \in Rows
    BY <1>2, Zenon DEF Rows
  <2>2. acc' \in [AccIds -> Rows]
    BY <1>3, <2>1, Zenon DEF AccTypeOK
  <2>3. QED
    BY <1>2, <1>3, <2>2, Zenon DEF AccTypeOK, Rows, SameUsers
<1>5. There' = There /\ Admins' = Admins /\ SameNameOverlapped' /\ GoodReqs \subseteq GoodReqs'
  BY <1>1, <1>4, SameUsersKeep, Zenon
<1>6. AccTypeOK' /\ RowsInv' /\ ReqInv' /\ AuditInv'
  BY <1>1, <1>4, <1>5, SMTT(30) DEF AccTypeOK, RowsInv, ReqInv, AuditInv, AuditIsTrue
<1>7. PasswordIsChosen'
  BY <1>1, <1>4, <1>5, Zenon DEF PasswordIsChosen, There
<1>8. QED
  BY <1>5, <1>6, <1>7, Zenon

-----------------------------------------------------------------------------
\* Every step keeps the invariant and the admins.
LEMMA NextAccInv == AccInv /\ [AccNext]_accVars => AccInv' /\ Admins' = Admins
<1> SUFFICES ASSUME AccInv, [AccNext]_accVars PROVE AccInv' /\ Admins' = Admins
  BY Zenon
<1>1. ASSUME NEW h \in Handlers, NEW name \in AccNames, NEW pw \in Passwords,
             Login(h, name, pw) \/ \E code \in Codes : Register(h, name, pw, code)
      PROVE  AccInv' /\ Admins' = Admins
  BY <1>1, LoginInv, RegisterInv, Zenon
<1>2. ASSUME NEW h \in Handlers, NEW tok \in tokens,
             \/ \E code \in Codes : UpdateRegisterInviteCode(h, tok, code)
             \/ \E target \in AccIds :
                   \/ \E old, new \in Passwords : ChangePassword(h, tok, target, old, new)
                   \/ \E role \in 0..3 : SetUserRole(h, tok, target, role)
                   \/ DeleteUser(h, tok, target)
      PROVE  AccInv' /\ Admins' = Admins
  BY <1>2, UpdateRegisterInviteCodeInv, ChangePasswordInv, SetUserRoleInv, DeleteUserInv, Zenon
<1>3. ASSUME NEW h \in Handlers,
             \/ LoginRehash(h) \/ LoginToken(h) \/ CreateUser(h) \/ SaveCode(h) \/ StorePassword(h)
             \/ SetRoleId(h) \/ RemoveUser(h) \/ recordUserOperation(h)
      PROVE  AccInv' /\ Admins' = Admins
  BY <1>3, LoginRehashInv, LoginTokenInv, CreateUserInv, SaveCodeInv, StorePasswordInv, SetRoleIdInv, RemoveUserInv,
     recordUserOperationInv, Zenon
<1>4. ASSUME UNCHANGED accVars PROVE AccInv' /\ Admins' = Admins
  <2>1. SameUsers /\ UNCHANGED <<acc, nacc, invite, tokens, hreq, chosen, raced, heldRoles, audit, nreq>>
    BY <1>4, Zenon DEF accVars, SameUsers
  <2>2. There' = There /\ Admins' = Admins /\ SameNameOverlapped' /\ GoodReqs \subseteq GoodReqs'
    BY <2>1, SameUsersKeep, Zenon
  <2>3. QED
    BY <2>1, <2>2, Zenon DEF AccInv, AccTypeOK, RowsInv, ReqInv, AuditInv, AuditIsTrue, PasswordIsChosen
<1>5. QED
  BY <1>1, <1>2, <1>3, <1>4, SetEmailEnabledInv, Zenon DEF AccNext

\* AccInv is an invariant of the specification.
LEMMA AccInvariant == AccSpec => []AccInv
<1> QED
  BY InitAccInv, NextAccInv, PTL DEF AccSpec

\* The log names operators that may do what they did and operations that were done, the
\* passwords are the ones chosen last unless a rehash outran the choice, and two users of
\* one name looked at the same time (auth.go, profile.go, role.go).
THEOREM AccountsTrue == AccSpec => []AccountsAreTrue
<1>1. AccInv => AccountsAreTrue
  BY Zenon DEF AccInv, AuditInv, AccountsAreTrue
<1> QED
  BY <1>1, AccInvariant, PTL

\* No request makes, demotes or removes an admin, however requests overlap: SetUserRole
\* and DeleteUser check a row that can change before they write it, but never into an
\* admin's (canSetUserRole, canDeleteUser).
THEOREM AdminsNeverChange == AccSpec => AdminsStay
<1>1. AccInv /\ [AccNext]_accVars => [Admins' = Admins]_accVars
  BY NextAccInv, Zenon
<1> QED
  BY <1>1, AccInvariant, PTL DEF AccSpec, AdminsStay

-----------------------------------------------------------------------------
(* The messages *)

\* From the row lock on a request has its thread to itself, until it commits or fails.
Held == {"insert", "update", "mark", "reset"}
\* Between its parameters and its commit a request is about a pair of users.
Busy == {"receiver", "thread", "create"} \cup Held

MsgIds == {m.id : m \in messages}

\* A message that was drawn and is not committed is newer than those of its thread.
DrawnOK(p) ==
    /\ mid[p] <= nextId /\ mid[p] \notin MsgIds
    /\ \A m \in messages : m.thread = PairOf(p) => m.id <= mid[p]

\* The messages MarkThreadRead updated are the unread ones to the user, all of them.
MarkedOK(p) ==
    /\ marking[p] \subseteq MsgIds
    /\ \A m \in messages : m.id \in marking[p] => m.thread = PairOf(p) /\ m.receiver = user[p]
    /\ \A m \in UnreadTo(PairOf(p), user[p]) : m.id \in marking[p]

ProcOK(p) ==
    /\ user[p] \notin todo[p]
    /\ mop[p] = "none" => mpc[p] = "idle"
    /\ mpc[p] = "next" => user[p] \in MsgUsers
    /\ mpc[p] \in Busy => user[p] \in MsgUsers /\ peer[p] \in MsgUsers /\ user[p] # peer[p]
    /\ mpc[p] \in Held => lock[PairOf(p)] = p
    /\ mpc[p] = "update" => DrawnOK(p)
    /\ mpc[p] = "reset" => MarkedOK(p)

\* Ids are drawn once, and only committed messages are read.
StoreOK ==
    /\ IsFiniteSet(messages)
    /\ \A m \in messages : m.id <= nextId
    /\ \A m, n \in messages : m.id = n.id => m = n
    /\ isRead \subseteq MsgIds

DrawnOnce ==
    \A p, r \in MsgProcs : mpc[p] = "update" /\ mpc[r] = "update" /\ mid[p] = mid[r] => p = r

MsgInv ==
    /\ MsgTypeOK /\ StoreOK /\ ThreadsAreTrue /\ DrawnOnce
    /\ \A p \in MsgProcs : ProcOK(p)

-----------------------------------------------------------------------------
\* A pair is the thread of its two users.
LEMMA PairFacts ==
  ASSUME NEW u \in MsgUsers, NEW v \in MsgUsers, u # v
  PROVE  /\ messagePair(u, v) \in Pairs
         /\ {messagePair(u, v)[1], messagePair(u, v)[2]} = {u, v}
<1> u \in Nat /\ v \in Nat
  BY MessagesAssumption, Zenon
<1> QED
  BY DEF messagePair, Pairs

\* The two users of a pair differ.
LEMMA PairsDiffer == \A q \in Pairs : q[1] # q[2] /\ q[1] \in MsgUsers /\ q[2] \in MsgUsers
<1> SUFFICES ASSUME NEW q \in Pairs PROVE q[1] # q[2] /\ q[1] \in MsgUsers /\ q[2] \in MsgUsers
  BY Zenon
<1>1. q[1] \in MsgUsers /\ q[2] \in MsgUsers /\ q[1] < q[2]
  BY Zenon DEF Pairs
<1>2. q[1] \in Nat /\ q[2] \in Nat
  BY <1>1, MessagesAssumption, Zenon
<1>3. QED
  BY <1>1, <1>2

\* The thread of a request in progress.
LEMMA BusyPair ==
  ASSUME MsgInv, NEW p \in MsgProcs, mpc[p] \in Busy
  PROVE  /\ PairOf(p) \in Pairs /\ {PairOf(p)[1], PairOf(p)[2]} = {user[p], peer[p]}
         /\ user[p] \in MsgUsers /\ peer[p] \in MsgUsers /\ user[p] # peer[p]
         /\ mpc[p] \in Held => lock[PairOf(p)] = p
<1>1. /\ user[p] \in MsgUsers /\ peer[p] \in MsgUsers /\ user[p] # peer[p]
      /\ mpc[p] \in Held => lock[PairOf(p)] = p
  BY Zenon DEF MsgInv, ProcOK
<1>2. QED
  BY <1>1, PairFacts, Zenon DEF PairOf

\* Two requests that hold a row lock are about different threads.
LEMMA HeldApart ==
  ASSUME MsgInv, NEW p \in MsgProcs, NEW r \in MsgProcs, p # r, mpc[p] \in Held, mpc[r] \in Held
  PROVE  PairOf(p) # PairOf(r)
<1> QED
  BY Zenon DEF MsgInv, ProcOK

\* Init establishes the invariant.
LEMMA InitMsgInv == MsgInit => MsgInv
<1> SUFFICES ASSUME MsgInit PROVE MsgInv
  BY Zenon
<1>1. MsgTypeOK
  BY Zenon DEF MsgInit, MsgTypeOK
<1>2. StoreOK
  BY FS_EmptySet, Zenon DEF MsgInit, StoreOK, MsgIds
<1>3. ThreadsAreTrue
  <2>1. \A q \in Pairs, u \in MsgUsers : UnreadTo(q, u) = {}
    BY Zenon DEF MsgInit, UnreadTo
  <2>2. QED
    BY <2>1, PairsDiffer, FS_EmptySet, Zenon DEF MsgInit, ThreadsAreTrue, UnreadMatches, LastIsNewest
<1>4. DrawnOnce /\ \A p \in MsgProcs : ProcOK(p)
  BY Zenon DEF MsgInit, DrawnOnce, ProcOK, Busy, Held
<1>5. QED
  BY <1>1, <1>2, <1>3, <1>4, Zenon DEF MsgInv

-----------------------------------------------------------------------------
\* A step that leaves the rows of a request alone, and its lock.
SameProc(r) ==
    /\ UNCHANGED <<mpc[r], mop[r], user[r], peer[r], todo[r], mid[r], marking[r]>>
    /\ mpc[r] \in Held => lock'[PairOf(r)] = lock[PairOf(r)]

\* Tables that are left alone are right; ids may have been drawn.
LEMMA StoreKept ==
  ASSUME MsgInv, UNCHANGED store, nextId' \in Nat, nextId <= nextId'
  PROVE  StoreOK' /\ ThreadsAreTrue'
<1>1. UNCHANGED <<threads, unreadA, unreadB, last, messages, isRead>>
  BY Zenon DEF store
<1>2. \A m \in messages : m.id \in Nat
  BY Zenon DEF MsgInv, MsgTypeOK
<1>3. StoreOK'
  BY <1>1, <1>2 DEF MsgInv, MsgTypeOK, StoreOK, MsgIds
<1>4. ThreadsAreTrue'
  BY <1>1, Zenon DEF MsgInv, ThreadsAreTrue, UnreadMatches, UnreadTo, LastIsNewest
<1>5. QED
  BY <1>3, <1>4, Zenon

\* A request that is left alone, with its tables, is where it was.
LEMMA ProcKept ==
  ASSUME MsgInv, NEW r \in MsgProcs, SameProc(r), UNCHANGED <<messages, isRead>>,
         nextId' \in Nat, nextId <= nextId'
  PROVE  ProcOK(r)'
<1>1. /\ ProcOK(r) /\ mid[r] \in Nat /\ nextId \in Nat
      /\ PairOf(r)' = PairOf(r)
  BY Zenon DEF MsgInv, MsgTypeOK, SameProc, PairOf
<1>2. mpc[r] = "update" => DrawnOK(r)'
  BY <1>1 DEF ProcOK, SameProc, DrawnOK, MsgIds
<1>3. mpc[r] = "reset" => MarkedOK(r)'
  BY <1>1, Zenon DEF ProcOK, SameProc, MarkedOK, MsgIds, UnreadTo
<1>4. QED
  BY <1>1, <1>2, <1>3, Zenon DEF ProcOK, SameProc

\* A step of one request that leaves the tables alone.
LEMMA LocalStep ==
  ASSUME MsgInv, NEW p \in MsgProcs, MsgTypeOK', UNCHANGED store, nextId <= nextId',
         \A r \in MsgProcs : r # p => SameProc(r),
         ProcOK(p)',
         mpc'[p] = "update" => \A r \in MsgProcs : r # p /\ mpc[r] = "update" => mid[r] # mid'[p]
  PROVE  MsgInv'
<1>1. nextId' \in Nat /\ UNCHANGED <<messages, isRead>>
  BY Zenon DEF MsgTypeOK, store
<1>2. StoreOK' /\ ThreadsAreTrue'
  BY <1>1, StoreKept, ZenonT(40)
<1>3. DrawnOnce'
  BY DEF MsgInv, DrawnOnce, SameProc
<1>4. \A r \in MsgProcs : ProcOK(r)'
  BY <1>1, ProcKept, Zenon
<1>5. QED
  BY <1>2, <1>3, <1>4 DEF MsgInv

\* A request ends: its locals are cleared, and its locks released or none held.
LEMMA ClearInv ==
  ASSUME MsgInv, NEW p \in MsgProcs, MsgClear(p), UNCHANGED <<msgAlive, store, nextId, mrequests>>,
         Release(p) \/ UNCHANGED lock
  PROVE  MsgInv'
<1>0. /\ mpc'[p] = "idle" /\ todo'[p] = {} /\ nextId <= nextId'
      /\ \A r \in MsgProcs : r # p => UNCHANGED <<mpc[r], mop[r], user[r], peer[r], todo[r], mid[r], marking[r]>>
  BY DEF MsgInv, MsgTypeOK, MsgClear, MsgGoto
<1>1. MsgTypeOK'
  BY Zenon DEF MsgInv, MsgTypeOK, MsgClear, MsgGoto, store, Release
<1>2. ASSUME NEW r \in MsgProcs, r # p PROVE SameProc(r)
  BY <1>0, <1>2, BusyPair DEF SameProc, Busy, Release
<1>3. ProcOK(p)'
  BY <1>0, Zenon DEF ProcOK, Busy, Held
<1>4. QED
  BY <1>0, <1>1, <1>2, <1>3, LocalStep, ZenonT(40)

\* An error, and a failed statement.
LEMMA AbortInv ==
  ASSUME MsgInv, NEW p \in MsgProcs, Abort(p)
  PROVE  MsgInv'
<1> QED
  BY ClearInv, Zenon DEF Abort

\* The handlers fill in a request: sender and receiver differ, and a broadcast leaves
\* out its sender.
LEMMA BeginInv ==
  ASSUME MsgInv, NEW p \in MsgProcs, NEW o \in {"send", "read", "broadcast"}, NEW u \in MsgUsers,
         NEW v \in MsgUsers \cup {0}, NEW all \in SUBSET MsgUsers, u \notin all,
         o \in {"send", "read"} => v \in MsgUsers /\ u # v, MsgBegin(p, o, u, v, all)
  PROVE  MsgInv'
<1>0. /\ mpc'[p] \in {"receiver", "thread", "next"} /\ (mpc'[p] # "next" => o \in {"send", "read"})
      /\ mop'[p] = o /\ user'[p] = u /\ peer'[p] = v /\ todo'[p] = all /\ UNCHANGED lock /\ nextId <= nextId'
      /\ \A r \in MsgProcs : r # p => UNCHANGED <<mpc[r], mop[r], user[r], peer[r], todo[r], mid[r], marking[r]>>
  BY SMTT(30) DEF MsgInv, MsgTypeOK, MsgBegin, MsgGoto
<1>1. MsgTypeOK'
  BY DEF MsgInv, MsgTypeOK, MsgBegin, MsgGoto, store
<1>2. ASSUME NEW r \in MsgProcs, r # p PROVE SameProc(r)
  BY <1>0, <1>2, Zenon DEF SameProc
<1>3. ProcOK(p)'
  BY <1>0, Zenon DEF ProcOK, Busy, Held
<1>4. QED
  BY <1>0, <1>1, <1>2, <1>3, LocalStep, Zenon DEF MsgBegin

\* The end of a broadcast's loop.
LEMMA SentInv ==
  ASSUME MsgInv, NEW p \in MsgProcs, BroadcastSent(p)
  PROVE  MsgInv'
<1>0. /\ mpc[p] = "next" /\ mpc'[p] = "replied" /\ UNCHANGED <<mop, user, todo, lock>>
      /\ nextId <= nextId' /\ UNCHANGED store
      /\ \A r \in MsgProcs : r # p => UNCHANGED <<mpc[r], mop[r], user[r], peer[r], todo[r], mid[r], marking[r]>>
  BY DEF MsgInv, MsgTypeOK, BroadcastSent, MsgGoto
<1>1. MsgTypeOK'
  BY Zenon DEF MsgInv, MsgTypeOK, BroadcastSent, MsgGoto, store
<1>2. ASSUME NEW r \in MsgProcs, r # p PROVE SameProc(r)
  BY <1>0, <1>2, Zenon DEF SameProc
<1>3. ProcOK(p)'
  BY <1>0, Zenon DEF ProcOK, Busy, Held, MsgInv
<1>4. QED
  BY <1>0, <1>1, <1>2, <1>3, LocalStep, ZenonT(40)

\* GetUserView finds the receiver, or Send fails.
LEMMA CheckReceiverInv ==
  ASSUME MsgInv, NEW p \in MsgProcs, CheckReceiver(p)
  PROVE  MsgInv'
<1>1. CASE peer[p] \notin msgAlive
  BY <1>1, AbortInv, Zenon DEF CheckReceiver, NoReceiver
<1>2. CASE peer[p] \in msgAlive
  <2>0. /\ mpc[p] = "receiver" /\ mpc'[p] = "thread" /\ UNCHANGED <<mop, user, peer, todo, lock>>
        /\ nextId <= nextId' /\ UNCHANGED store
        /\ \A r \in MsgProcs : r # p => UNCHANGED <<mpc[r], mop[r], user[r], peer[r], todo[r], mid[r], marking[r]>>
    BY <1>2 DEF MsgInv, MsgTypeOK, CheckReceiver, MsgGoto
  <2>1. MsgTypeOK'
    BY <1>2, Zenon DEF MsgInv, MsgTypeOK, CheckReceiver, MsgGoto, store
  <2>2. ASSUME NEW r \in MsgProcs, r # p PROVE SameProc(r)
    BY <2>0, <2>2, Zenon DEF SameProc
  <2>3. ProcOK(p)'
    BY <2>0, Zenon DEF MsgInv, ProcOK, Busy, Held
  <2>4. QED
    BY <2>0, <2>1, <2>2, <2>3, LocalStep, ZenonT(40)
<1>3. QED
  BY <1>1, <1>2, Zenon

\* The sequence gives a number above all others.
LEMMA InsertMessageInv ==
  ASSUME MsgInv, NEW p \in MsgProcs, InsertMessage(p)
  PROVE  MsgInv'
<1>0. /\ mpc[p] = "insert" /\ mpc'[p] = "update" /\ mid'[p] = nextId + 1 /\ nextId' = nextId + 1
      /\ UNCHANGED <<mop, user, peer, todo, lock, messages>>
      /\ nextId <= nextId' /\ UNCHANGED store
      /\ \A r \in MsgProcs : r # p => UNCHANGED <<mpc[r], mop[r], user[r], peer[r], todo[r], mid[r], marking[r]>>
  BY SMTT(30) DEF MsgInv, MsgTypeOK, InsertMessage, MsgGoto, store
<1>1. MsgTypeOK'
  BY DEF MsgInv, MsgTypeOK, InsertMessage, MsgGoto, store, store
<1>2. ASSUME NEW r \in MsgProcs, r # p PROVE SameProc(r)
  BY <1>0, <1>2, Zenon DEF SameProc
<1>3. ProcOK(p)'
  <2>1. PairOf(p)' = PairOf(p) /\ ProcOK(p)
    BY <1>0, ZenonT(40) DEF MsgInv, PairOf
  <2>2. DrawnOK(p)'
    <3>1. nextId \in Nat /\ \A m \in messages : m.id \in Nat /\ m.id <= nextId
      BY ZenonT(40) DEF MsgInv, MsgTypeOK, StoreOK
    <3>2. QED
      BY <1>0, <3>1 DEF DrawnOK, MsgIds
  <2>3. QED
    BY <1>0, <2>1, <2>2, Zenon DEF ProcOK, Busy, Held
<1>4. \A r \in MsgProcs : mpc[r] = "update" => mid[r] # mid'[p]
  BY <1>0 DEF MsgInv, MsgTypeOK, ProcOK, DrawnOK
<1>5. QED
  BY <1>0, <1>1, <1>2, <1>3, <1>4, LocalStep, ZenonT(40)

\* The UPDATE takes the unread messages to the user.
LEMMA MarkMessagesInv ==
  ASSUME MsgInv, NEW p \in MsgProcs, MarkMessages(p)
  PROVE  MsgInv'
<1>0. /\ mpc[p] = "mark" /\ mpc'[p] = "reset" /\ UNCHANGED <<mop, user, peer, todo, lock, messages, isRead>>
      /\ marking'[p] = {m.id : m \in {n \in messages : n.thread = PairOf(p) /\ n.receiver = user[p]}} \ isRead
      /\ nextId <= nextId' /\ UNCHANGED store
      /\ \A r \in MsgProcs : r # p => UNCHANGED <<mpc[r], mop[r], user[r], peer[r], todo[r], mid[r], marking[r]>>
  BY SMTT(30) DEF MsgInv, MsgTypeOK, MarkMessages, MsgGoto, store
<1>1. MsgTypeOK'
  BY DEF MsgInv, MsgTypeOK, MarkMessages, MsgGoto, store, store
<1>2. ASSUME NEW r \in MsgProcs, r # p PROVE SameProc(r)
  BY <1>0, <1>2, Zenon DEF SameProc
<1>3. ProcOK(p)'
  <2>1. PairOf(p)' = PairOf(p) /\ ProcOK(p)
    BY <1>0, ZenonT(40) DEF MsgInv, PairOf
  <2>2. MarkedOK(p)'
    BY <1>0, <2>1 DEF MsgInv, StoreOK, MarkedOK, MsgIds, UnreadTo
  <2>3. QED
    BY <1>0, <2>1, <2>2, Zenon DEF ProcOK, Busy, Held
<1>4. QED
  BY <1>0, <1>1, <1>2, <1>3, LocalStep, ZenonT(40)

Less == {q \in Nat \X Nat : q[1] < q[2]}

\* The loop of Broadcast takes one of those still to send to.
LEMMA LowestIsOne ==
  ASSUME NEW S \in SUBSET Nat, S # {}
  PROVE  MsgLowest(S) \in S
<1>1. IsWellFoundedOn(Less, Nat)
  BY NatLessThanWellFounded, Zenon DEF OpToRel, Less
<1>2. PICK u \in S : \A v \in S : ~(<<v, u>> \in Less)
  BY <1>1, WFMin, Zenon
<1>3. \A v \in S : ~(v < u)
  BY <1>2, Zenon DEF Less
<1>4. \A v \in S : u <= v
  BY <1>3
<1>5. QED
  BY <1>4, Zenon DEF MsgLowest

\* The loop of Broadcast turns to the next user.
LEMMA NextReceiverInv ==
  ASSUME MsgInv, NEW p \in MsgProcs, NextReceiver(p)
  PROVE  MsgInv'
<1> DEFINE u == MsgLowest(todo[p])
<1>0. u \in todo[p] /\ u \in MsgUsers
  <2>1. todo[p] \in SUBSET MsgUsers /\ todo[p] # {} /\ todo[p] \in SUBSET Nat
    BY MessagesAssumption, Zenon DEF MsgInv, MsgTypeOK, NextReceiver
  <2>2. QED
    BY <2>1, LowestIsOne, Zenon
<1> HIDE DEF u
<1>1. /\ mpc[p] = "next" /\ mpc'[p] = "receiver" /\ peer'[p] = u /\ todo'[p] = todo[p] \ {u}
      /\ UNCHANGED <<mop, user, lock>>
      /\ nextId <= nextId' /\ UNCHANGED store
      /\ \A r \in MsgProcs : r # p => UNCHANGED <<mpc[r], mop[r], user[r], peer[r], todo[r], mid[r], marking[r]>>
  BY DEF MsgInv, MsgTypeOK, NextReceiver, MsgGoto, u
<1>2. MsgTypeOK'
  BY <1>0, Zenon DEF MsgInv, MsgTypeOK, NextReceiver, MsgGoto, store, u
<1>3. ASSUME NEW r \in MsgProcs, r # p PROVE SameProc(r)
  BY <1>1, <1>3, Zenon DEF SameProc
<1>4. ProcOK(p)'
  BY <1>0, <1>1, Zenon DEF MsgInv, ProcOK, Busy, Held
<1>5. QED
  BY <1>1, <1>2, <1>3, <1>4, LocalStep, Zenon

\* SELECT ... FOR UPDATE waits for the row lock and takes it.
LEMMA FindThreadInv ==
  ASSUME MsgInv, NEW p \in MsgProcs, FindThread(p)
  PROVE  MsgInv'
<1> DEFINE q == PairOf(p)
<1>0. LocksThread(mop[p]) /\ mpc[p] = "thread" /\ q \in Pairs /\ lock \in [Pairs -> MsgProcs \cup {NoMsg}]
  BY BusyPair, Zenon DEF MsgInv, MsgTypeOK, ProcOK, FindThread, LocksThread, Busy
<1>1. /\ UNCHANGED <<mop, user, peer, todo>>
      /\ mpc'[p] \in {"mark", "insert", "replied", "create"}
      /\ mpc'[p] \in Held => lock[q] = NoMsg /\ lock'[q] = p
      /\ \A t \in Pairs : lock'[t] = lock[t] \/ (t = q /\ lock[t] = NoMsg)
      /\ nextId <= nextId' /\ UNCHANGED store
      /\ \A r \in MsgProcs : r # p => UNCHANGED <<mpc[r], mop[r], user[r], peer[r], todo[r], mid[r], marking[r]>>
  <2>1. CASE q \in threads
    BY <1>0, <2>1, SMTT(30) DEF MsgInv, MsgTypeOK, FindThread, MsgGoto
  <2>2. CASE q \notin threads
    BY <1>0, <2>2, SMTT(30) DEF MsgInv, MsgTypeOK, FindThread, MsgGoto, Held
  <2>3. QED
    BY <2>1, <2>2, ZenonT(40)
<1>2. MsgTypeOK'
  BY <1>0, ZenonT(40) DEF MsgInv, MsgTypeOK, FindThread, MsgGoto, store
<1>3. ASSUME NEW r \in MsgProcs, r # p PROVE SameProc(r)
  BY <1>1, <1>3, BusyPair, MessagesAssumption, SMTT(30) DEF SameProc, Busy
<1>4. ProcOK(p)'
  <2>1. PairOf(p)' = PairOf(p) /\ ProcOK(p)
    BY <1>1, Zenon DEF MsgInv, PairOf
  <2>2. QED
    BY <1>0, <1>1, <2>1, Zenon DEF ProcOK, Busy, Held
<1>5. QED
  BY <1>1, <1>2, <1>3, <1>4, LocalStep, Zenon DEF Held

\* INSERT of the thread: refused, or the new row is the request's own.
LEMMA CreateThreadInv ==
  ASSUME MsgInv, NEW p \in MsgProcs, CreateThread(p)
  PROVE  MsgInv'
<1> DEFINE q == PairOf(p)
<1>1. CASE q \in threads
  BY <1>1, AbortInv, Zenon DEF CreateThread
<1>2. CASE q \notin threads
  <2>0. mpc[p] = "create" /\ q \in Pairs /\ lock[q] = NoMsg /\ lock \in [Pairs -> MsgProcs \cup {NoMsg}]
    BY BusyPair, Zenon DEF MsgInv, MsgTypeOK, CreateThread, Busy
  <2>1. /\ UNCHANGED <<mop, user, peer, todo>>
        /\ mpc'[p] = "insert" /\ lock'[q] = p
        /\ \A t \in Pairs : lock'[t] = lock[t] \/ (t = q /\ lock[t] = NoMsg)
        /\ nextId <= nextId' /\ UNCHANGED store
        /\ \A r \in MsgProcs : r # p => UNCHANGED <<mpc[r], mop[r], user[r], peer[r], todo[r], mid[r], marking[r]>>
    BY <1>2, <2>0 DEF MsgInv, MsgTypeOK, CreateThread, MsgGoto
  <2>2. MsgTypeOK'
    BY <1>2, <2>0, ZenonT(40) DEF MsgInv, MsgTypeOK, CreateThread, MsgGoto, store
  <2>3. ASSUME NEW r \in MsgProcs, r # p PROVE SameProc(r)
    BY <2>0, <2>1, <2>3, BusyPair, MessagesAssumption, SMTT(30) DEF SameProc, Busy
  <2>4. ProcOK(p)'
    <3>1. PairOf(p)' = PairOf(p) /\ ProcOK(p)
      BY <2>1, Zenon DEF MsgInv, PairOf
    <3>2. QED
      BY <2>0, <2>1, <3>1, Zenon DEF ProcOK, Busy, Held
  <2>5. QED
    BY <2>1, <2>2, <2>3, <2>4, LocalStep, Zenon
<1>3. QED
  BY <1>1, <1>2, Zenon

-----------------------------------------------------------------------------
\* The unread messages are finitely many.
LEMMA UnreadFinite ==
  ASSUME MsgInv, NEW q, NEW u
  PROVE  IsFiniteSet(UnreadTo(q, u)) /\ Cardinality(UnreadTo(q, u)) \in Nat
<1>1. IsFiniteSet(UnreadTo(q, u))
  BY FS_Subset, Zenon DEF MsgInv, StoreOK, UnreadTo
<1>2. QED
  BY <1>1, FS_CardinalityType, Zenon

\* The commit of Send adds one message, newer than its thread's, to one counter.
LEMMA UpdateThreadInv ==
  ASSUME MsgInv, NEW p \in MsgProcs, UpdateThread(p)
  PROVE  MsgInv'
<1> DEFINE q == PairOf(p)
           v == peer[p]
           new == [id |-> mid[p], thread |-> q, receiver |-> v, req |-> req[p]]
<1>0. /\ mpc[p] = "update" /\ q \in Pairs /\ v \in {q[1], q[2]} /\ q[1] # q[2] /\ v \in MsgUsers /\ user[p] \in MsgUsers
      /\ mid[p] \in Nat /\ req[p] \in Nat /\ DrawnOK(p) /\ mop[p] # "none" /\ user[p] \notin todo[p]
  BY BusyPair, PairsDiffer, Zenon DEF MsgInv, MsgTypeOK, UpdateThread, Busy, Held, ProcOK
<1>1. /\ new.id = mid[p] /\ new.thread = q /\ new.receiver = v /\ new.req = req[p]
      /\ new \in [id : Nat, thread : Pairs, receiver : MsgUsers, req : Nat]
  BY <1>0, Zenon
<1>2. /\ messages' = messages \cup {new} /\ threads' = threads \cup {q} /\ UNCHANGED <<isRead, nextId, user, mop, todo>>
      /\ last' = [last EXCEPT ![q] = mid[p]]
      /\ unreadA' = (IF v = q[1] THEN [unreadA EXCEPT ![q] = @ + 1] ELSE unreadA)
      /\ unreadB' = (IF v = q[1] THEN unreadB ELSE [unreadB EXCEPT ![q] = @ + 1])
      /\ mpc'[p] \in {"replied", "next"}
      /\ \A t \in Pairs : lock[t] # p => lock'[t] = lock[t]
      /\ \A r \in MsgProcs : r # p => UNCHANGED <<mpc[r], mop[r], user[r], peer[r], todo[r], mid[r], marking[r]>>
  BY <1>0, Zenon DEF MsgInv, MsgTypeOK, UpdateThread, MsgGoto, Release
<1>3. MsgTypeOK'
  <2>1. messages' \subseteq [id : Nat, thread : Pairs, receiver : MsgUsers, req : Nat]
    BY <1>1, <1>2, ZenonT(40) DEF MsgInv, MsgTypeOK
  <2>2. unreadA' \in [Pairs -> Nat] /\ unreadB' \in [Pairs -> Nat] /\ last' \in [Pairs -> Nat] /\ threads' \subseteq Pairs
    BY <1>0, <1>2, SMTT(30) DEF MsgInv, MsgTypeOK
  <2>3. QED
    BY <1>2, <2>1, <2>2, ZenonT(40) DEF MsgInv, MsgTypeOK, UpdateThread, MsgGoto, Release
<1> HIDE DEF new
<1>4. new.id \notin MsgIds /\ new.id \notin isRead /\ new.id <= nextId /\ new \notin messages /\ MsgIds' = MsgIds \cup {new.id}
  BY <1>0, <1>1, <1>2, SMTT(30) DEF DrawnOK, MsgInv, StoreOK, MsgIds
<1>5. StoreOK'
  <2>1. IsFiniteSet(messages')
    BY <1>2, FS_AddElement, ZenonT(40) DEF MsgInv, StoreOK
  <2>2. QED
    BY <1>2, <1>4, <2>1, SMTT(30) DEF MsgInv, StoreOK, MsgIds
<1>6. /\ \A t \in Pairs, u \in MsgUsers : t # q \/ u # v => UnreadTo(t, u)' = UnreadTo(t, u)
      /\ \A t \in Pairs, u \in MsgUsers : t = q /\ u = v =>
            UnreadTo(t, u)' = UnreadTo(t, u) \cup {new} /\ new \notin UnreadTo(t, u)
  BY <1>1, <1>2, <1>4, SMTT(30) DEF UnreadTo
<1>7. \A t \in Pairs, u \in MsgUsers : t = q /\ u = v =>
          Cardinality(UnreadTo(t, u)') = Cardinality(UnreadTo(t, u)) + 1
  BY <1>6, UnreadFinite, FS_AddElement, SMTT(30)
<1>8. UnreadMatches'
  <2>1. SUFFICES ASSUME NEW t \in Pairs
                 PROVE  /\ unreadA'[t] = Cardinality(UnreadTo(t, t[1])')
                        /\ unreadB'[t] = Cardinality(UnreadTo(t, t[2])')
    BY Zenon DEF UnreadMatches
  <2>2. /\ unreadA[t] = Cardinality(UnreadTo(t, t[1])) /\ unreadB[t] = Cardinality(UnreadTo(t, t[2]))
        /\ t[1] \in MsgUsers /\ t[2] \in MsgUsers /\ t[1] # t[2]
    BY PairsDiffer, Zenon DEF MsgInv, ThreadsAreTrue, UnreadMatches
  <2>3. /\ unreadA'[t] = IF t = q /\ t[1] = v THEN unreadA[t] + 1 ELSE unreadA[t]
        /\ unreadB'[t] = IF t = q /\ t[2] = v THEN unreadB[t] + 1 ELSE unreadB[t]
    BY <1>0, <1>2, ZenonT(40) DEF MsgInv, MsgTypeOK
  <2>4. QED
    BY <1>6, <1>7, <2>2, <2>3, Zenon
<1>9. LastIsNewest'
  <2>1. last'[q] = mid[p] /\ \A t \in Pairs : t # q => last'[t] = last[t]
    BY <1>0, <1>2, Zenon DEF MsgInv, MsgTypeOK
  <2>2. \A m \in messages : m.thread \in Pairs /\ (m.thread = q => m.id <= mid[p])
    BY <1>0, Zenon DEF MsgInv, MsgTypeOK, DrawnOK
  <2>3. new.thread \in threads' /\ new.id <= last'[new.thread]
    <3>1. new.thread \in threads' /\ last'[new.thread] = mid[p]
      BY <1>1, <1>2, <2>1, ZenonT(40)
    <3>2. mid[p] <= mid[p]
      BY <1>0
    <3>3. QED
      BY <1>1, <3>1, <3>2, Zenon
  <2>4. \A m \in messages : m.thread \in threads' /\ m.id <= last'[m.thread]
    BY <1>2, <2>1, <2>2, Zenon DEF MsgInv, ThreadsAreTrue, LastIsNewest
  <2>5. QED
    BY <1>2, <2>3, <2>4, Zenon DEF LastIsNewest
<1>10. DrawnOnce'
  <2>1. \A r \in MsgProcs : mpc'[r] = "update" => r # p /\ mpc[r] = "update" /\ mid'[r] = mid[r]
    BY <1>2, Zenon
  <2>2. QED
    BY <2>1, Zenon DEF MsgInv, DrawnOnce
<1>11. ASSUME NEW r \in MsgProcs, r # p PROVE ProcOK(r)'
  <2>0. ProcOK(r) /\ PairOf(r)' = PairOf(r)
    BY <1>2, <1>11, Zenon DEF MsgInv, PairOf
  <2>1. mpc[r] \in Held => PairOf(r) # q /\ lock'[PairOf(r)] = r
    BY <1>0, <1>2, <1>11, BusyPair, HeldApart, Zenon DEF Busy, Held
  <2>2. mpc[r] = "update" => DrawnOK(r)'
    <3>1. SUFFICES ASSUME mpc[r] = "update" PROVE DrawnOK(r)'
      BY Zenon
    <3>2. PairOf(r) # q /\ DrawnOK(r) /\ mid[r] # mid[p]
      BY <1>0, <1>11, <2>0, <2>1, <3>1, Zenon DEF MsgInv, DrawnOnce, ProcOK, Held
    <3>3. UNCHANGED <<mid[r], nextId>>
      BY <1>2, <1>11, Zenon
    <3>4. QED
      BY <1>1, <1>2, <1>4, <2>0, <3>2, <3>3, ZenonT(40) DEF DrawnOK
  <2>3. mpc[r] = "reset" => MarkedOK(r)'
    <3>1. SUFFICES ASSUME mpc[r] = "reset" PROVE MarkedOK(r)'
      BY Zenon
    <3>2. PairOf(r) # q /\ MarkedOK(r)
      BY <2>0, <2>1, <3>1, Zenon DEF ProcOK, Held
    <3>3. UNCHANGED <<marking[r], user[r]>>
      BY <1>2, <1>11, Zenon
    <3>4. QED
      BY <1>1, <1>2, <1>4, <2>0, <3>2, <3>3, ZenonT(40) DEF MarkedOK, UnreadTo
  <2>4. QED
    BY <1>2, <1>11, <2>0, <2>1, <2>2, <2>3, ZenonT(40) DEF ProcOK
<1>12. ProcOK(p)'
  BY <1>0, <1>2, Zenon DEF ProcOK, Busy, Held
<1>13. QED
  BY <1>3, <1>5, <1>8, <1>9, <1>10, <1>11, <1>12, ZenonT(40) DEF MsgInv, ThreadsAreTrue

\* The commit of MarkThreadRead reads every unread message to the user, and no other,
\* and sets one counter to zero.
LEMMA ResetUnreadInv ==
  ASSUME MsgInv, NEW p \in MsgProcs, ResetUnread(p)
  PROVE  MsgInv'
<1> DEFINE q == PairOf(p)
           u == user[p]
<1>0. /\ mpc[p] = "reset" /\ q \in Pairs /\ u \in {q[1], q[2]} /\ q[1] # q[2] /\ u \in MsgUsers
      /\ MarkedOK(p) /\ mop[p] # "none" /\ user[p] \notin todo[p]
  BY BusyPair, PairsDiffer, Zenon DEF MsgInv, ResetUnread, Busy, Held, ProcOK
<1>1. /\ isRead' = isRead \cup marking[p] /\ UNCHANGED <<messages, threads, last, nextId, user, mop, todo>>
      /\ unreadA' = (IF q[1] = u THEN [unreadA EXCEPT ![q] = 0] ELSE unreadA)
      /\ unreadB' = (IF q[1] = u THEN unreadB ELSE [unreadB EXCEPT ![q] = 0])
      /\ mpc'[p] = "replied"
      /\ \A t \in Pairs : lock[t] # p => lock'[t] = lock[t]
      /\ \A r \in MsgProcs : r # p => UNCHANGED <<mpc[r], mop[r], user[r], peer[r], todo[r], mid[r], marking[r]>>
  BY <1>0, Zenon DEF MsgInv, MsgTypeOK, ResetUnread, ResetCounter, MsgGoto, Release
<1>2. MsgTypeOK'
  <2>1. unreadA' \in [Pairs -> Nat] /\ unreadB' \in [Pairs -> Nat] /\ isRead' \subseteq Nat
    BY <1>0, <1>1, Zenon DEF MsgInv, MsgTypeOK
  <2>2. QED
    BY <1>1, <2>1, Zenon DEF MsgInv, MsgTypeOK, ResetUnread, MsgGoto, Release
<1>3. MsgIds' = MsgIds /\ StoreOK'
  BY <1>0, <1>1, ZenonT(40) DEF MsgInv, StoreOK, MarkedOK, MsgIds
<1>4. /\ \A t \in Pairs, x \in MsgUsers : t # q \/ x # u => UnreadTo(t, x)' = UnreadTo(t, x)
      /\ \A t \in Pairs, x \in MsgUsers : t = q /\ x = u => UnreadTo(t, x)' = {}
  <2>1. \A m \in messages : m.id \in isRead' <=> m.id \in isRead \/ m.id \in marking[p]
    BY <1>1, Zenon
  <2>2. /\ \A m \in messages : m.id \in marking[p] => m.thread = q /\ m.receiver = u
        /\ \A m \in messages : m.thread = q /\ m.receiver = u /\ m.id \notin isRead => m.id \in marking[p]
    BY <1>0, Zenon DEF MarkedOK, UnreadTo
  <2>3. QED
    BY <1>1, <2>1, <2>2, ZenonT(40) DEF UnreadTo
<1>5. UnreadMatches'
  <2>1. SUFFICES ASSUME NEW t \in Pairs
                 PROVE  /\ unreadA'[t] = Cardinality(UnreadTo(t, t[1])')
                        /\ unreadB'[t] = Cardinality(UnreadTo(t, t[2])')
    BY Zenon DEF UnreadMatches
  <2>2. /\ unreadA[t] = Cardinality(UnreadTo(t, t[1])) /\ unreadB[t] = Cardinality(UnreadTo(t, t[2]))
        /\ t[1] \in MsgUsers /\ t[2] \in MsgUsers /\ t[1] # t[2]
    BY PairsDiffer, Zenon DEF MsgInv, ThreadsAreTrue, UnreadMatches
  <2>3. /\ unreadA'[t] = IF t = q /\ t[1] = u THEN 0 ELSE unreadA[t]
        /\ unreadB'[t] = IF t = q /\ t[2] = u THEN 0 ELSE unreadB[t]
    BY <1>0, <1>1, ZenonT(40) DEF MsgInv, MsgTypeOK
  <2>4. QED
    BY <1>4, <2>2, <2>3, FS_EmptySet, Zenon
<1>6. LastIsNewest'
  BY <1>1, Zenon DEF MsgInv, ThreadsAreTrue, LastIsNewest
<1>7. DrawnOnce'
  <2>1. \A r \in MsgProcs : mpc'[r] = "update" => r # p /\ mpc[r] = "update" /\ mid'[r] = mid[r]
    BY <1>1, Zenon
  <2>2. QED
    BY <2>1, Zenon DEF MsgInv, DrawnOnce
<1>8. ASSUME NEW r \in MsgProcs, r # p PROVE ProcOK(r)'
  <2>0. ProcOK(r) /\ PairOf(r)' = PairOf(r)
    BY <1>1, <1>8, Zenon DEF MsgInv, PairOf
  <2>1. mpc[r] \in Held => lock'[PairOf(r)] = r
    BY <1>1, <1>8, BusyPair, Zenon DEF Busy
  <2>2. mpc[r] = "update" => DrawnOK(r)'
    BY <1>1, <1>3, <1>8, <2>0, Zenon DEF ProcOK, DrawnOK
  <2>3. mpc[r] = "reset" => MarkedOK(r)'
    BY <1>1, <1>3, <1>8, <2>0, Zenon DEF ProcOK, MarkedOK, UnreadTo
  <2>4. QED
    BY <1>1, <1>8, <2>0, <2>1, <2>2, <2>3, Zenon DEF ProcOK
<1>9. ProcOK(p)'
  BY <1>0, <1>1, Zenon DEF ProcOK, Busy, Held
<1>10. QED
  BY <1>2, <1>3, <1>5, <1>6, <1>7, <1>8, <1>9, ZenonT(40) DEF MsgInv, ThreadsAreTrue

\* A step that touches no request and no thread.
LEMMA QuietInv ==
  ASSUME MsgInv, UNCHANGED <<store, lock, nextId, process>>, msgAlive' \subseteq MsgUsers, mrequests' \in Nat
  PROVE  MsgInv'
<1>1. nextId' \in Nat /\ nextId <= nextId' /\ UNCHANGED <<messages, isRead>> /\ UNCHANGED lock
  BY DEF MsgInv, MsgTypeOK, store
<1>2. MsgTypeOK'
  BY Zenon DEF MsgInv, MsgTypeOK, store, process
<1>3. StoreOK' /\ ThreadsAreTrue'
  BY <1>1, StoreKept, Zenon
<1>4. DrawnOnce'
  BY Zenon DEF MsgInv, DrawnOnce, process
<1>5. ASSUME NEW r \in MsgProcs PROVE ProcOK(r)'
  BY <1>1, ProcKept, Zenon DEF SameProc, process
<1>6. QED
  BY <1>2, <1>3, <1>4, <1>5, ZenonT(40) DEF MsgInv

\* Every step of a request.
LEMMA StepInv ==
  ASSUME MsgInv, NEW p \in MsgProcs, Step(p)
  PROVE  MsgInv'
<1>1. CASE Reply(p)
  BY <1>1, ClearInv, Zenon DEF Reply
<1>2. QED
  BY <1>1, NextReceiverInv, SentInv, CheckReceiverInv, FindThreadInv, CreateThreadInv, InsertMessageInv,
     UpdateThreadInv, MarkMessagesInv, ResetUnreadInv, ZenonT(40) DEF Step

\* Every step keeps the invariant.
LEMMA NextMsgInv == MsgInv /\ [MsgNext]_msgVars => MsgInv'
<1> SUFFICES ASSUME MsgInv, [MsgNext]_msgVars PROVE MsgInv'
  BY Zenon
<1>0. msgAlive \subseteq MsgUsers /\ mrequests \in Nat
  BY Zenon DEF MsgInv, MsgTypeOK
<1>1. CASE UNCHANGED msgVars
  BY <1>0, <1>1, QuietInv, Zenon DEF msgVars
<1>2. ASSUME NEW p \in MsgProcs, Step(p) \/ Fail(p) PROVE MsgInv'
  BY <1>2, StepInv, AbortInv, Zenon DEF Fail
<1>3. ASSUME NEW p \in MsgProcs, NEW u \in MsgUsers, Broadcast(p, u) PROVE MsgInv'
  BY <1>0, <1>3, BeginInv, Zenon DEF Broadcast
<1>4. ASSUME NEW p \in MsgProcs, NEW u \in MsgUsers, NEW v \in MsgUsers, Send(p, u, v) \/ MarkRead(p, u, v) PROVE MsgInv'
  BY <1>4, BeginInv DEF Send, MarkRead
<1>5. ASSUME NEW u \in MsgUsers, MsgDeleteUser(u) PROVE MsgInv'
  BY <1>0, <1>5, QuietInv DEF MsgDeleteUser
<1>6. QED
  BY <1>1, <1>2, <1>3, <1>4, <1>5, Zenon DEF MsgNext

\* Whatever Send, MarkThreadRead and Broadcast are in progress, and wherever they fail,
\* the counters of every thread are the numbers of its unread messages and
\* last_message_id is its newest (dal/message.go:88-150, 285-327).
THEOREM ThreadsTrue == MsgSpec => []ThreadsAreTrue
<1>1. MsgInv => ThreadsAreTrue
  BY Zenon DEF MsgInv
<1>2. QED
  BY <1>1, InitMsgInv, NextMsgInv, PTL DEF MsgSpec

-----------------------------------------------------------------------------
(* A broadcast that is answered has reached everybody it listed.                      *)

Sending == {"receiver", "thread", "create", "insert", "update"}
Reached(p, u) == {m \in messages : m.req = req[p] /\ m.receiver = u}
Waiting(p, u) == u \in todo[p] \/ (mpc[p] \in Sending /\ u = peer[p])

\* A broadcast in its loop has sent one message to each user it has passed.
CastOK(p) ==
    /\ mpc[p] \in Sending \cup {"next", "replied"}
    /\ mpc[p] \in Sending => peer[p] \notin todo[p]
    /\ mpc[p] = "replied" => todo[p] = {}
    /\ \A u \in mlisted[p] : /\ Waiting(p, u) => Reached(p, u) = {}
                             /\ ~Waiting(p, u) => \E m \in messages : Reached(p, u) = {m}

\* Requests have numbers of their own, and messages those of requests there were.
NumbersOK ==
    /\ \A p \in MsgProcs : req[p] <= mrequests /\ (mop[p] # "none" => req[p] # 0)
    /\ \A p, r \in MsgProcs : req[p] = req[r] /\ req[p] # 0 => p = r
    /\ \A m \in messages : m.req <= mrequests

CastInv == NumbersOK /\ \A p \in MsgProcs : mop[p] = "broadcast" => CastOK(p)

SameCast(r) == UNCHANGED <<mpc[r], mop[r], req[r], peer[r], mlisted[r], todo[r]>>

\* A broadcast that is left alone, with the messages.
LEMMA CastKept ==
  ASSUME NEW r \in MsgProcs, CastOK(r), SameCast(r), UNCHANGED messages
  PROVE  CastOK(r)'
<1> QED
  BY DEF CastOK, SameCast, Waiting, Reached

\* A step of one request that sends nothing.
LEMMA SilentStep ==
  ASSUME CastInv, NEW p \in MsgProcs, UNCHANGED <<messages, mrequests>>,
         \A r \in MsgProcs : r # p => SameCast(r),
         req'[p] = req[p] \/ (req'[p] = 0 /\ mop'[p] = "none"), mrequests \in Nat,
         mop'[p] = mop[p] \/ mop'[p] = "none",
         mop'[p] = "broadcast" => CastOK(p)'
  PROVE  CastInv'
<1>1. NumbersOK'
  <2>1. 0 <= mrequests
    OBVIOUS
  <2>2. \A r \in MsgProcs : \/ req'[r] = req[r] /\ mop'[r] \in {mop[r], "none"}
                            \/ req'[r] = 0 /\ mop'[r] = "none"
    BY Zenon DEF SameCast
  <2>3. QED
    BY <2>1, <2>2, Zenon DEF CastInv, NumbersOK
<1>2. QED
  BY <1>1, CastKept, Zenon DEF CastInv, SameCast

\* A request ends.
LEMMA ClearCast ==
  ASSUME MsgInv, CastInv, NEW p \in MsgProcs, MsgClear(p), UNCHANGED <<store, mrequests>>
  PROVE  CastInv'
<1>1. /\ mop'[p] = "none" /\ req'[p] = 0 /\ mrequests \in Nat /\ UNCHANGED <<messages, mrequests>>
      /\ \A r \in MsgProcs : r # p => SameCast(r)
  BY Zenon DEF MsgInv, MsgTypeOK, MsgClear, MsgGoto, store, SameCast
<1>2. QED
  BY <1>1, SilentStep, Zenon

\* The statements of Send before its commit, and those of MarkThreadRead.
LEMMA StatementCast ==
  ASSUME MsgInv, CastInv, NEW p \in MsgProcs, NEW s, MsgGoto(p, s),
         UNCHANGED <<messages, mrequests, mop, req, peer, mlisted, todo>>,
         mop[p] = "broadcast" => mpc[p] \in Sending /\ s \in Sending
  PROVE  CastInv'
<1>1. /\ mpc'[p] = s /\ mrequests \in Nat
      /\ \A r \in MsgProcs : r # p => SameCast(r)
  BY ZenonT(40) DEF MsgInv, MsgTypeOK, MsgGoto, SameCast
<1>2. mop[p] = "broadcast" => CastOK(p)'
  BY <1>1 DEF CastInv, CastOK, Waiting, Reached, Sending
<1>3. QED
  BY <1>1, <1>2, SilentStep, Zenon

\* The loop of Broadcast: the user it takes is still to be reached.
LEMMA NextReceiverCast ==
  ASSUME MsgInv, CastInv, NEW p \in MsgProcs, NextReceiver(p)
  PROVE  CastInv'
<1> DEFINE u == MsgLowest(todo[p])
<1>0. u \in todo[p]
  <2>1. todo[p] # {} /\ todo[p] \in SUBSET Nat
    BY MessagesAssumption, Zenon DEF MsgInv, MsgTypeOK, NextReceiver
  <2>2. QED
    BY <2>1, LowestIsOne, Zenon
<1> HIDE DEF u
<1>1. /\ mpc[p] = "next" /\ mpc'[p] = "receiver" /\ peer'[p] = u /\ todo'[p] = todo[p] \ {u} /\ mrequests \in Nat
      /\ UNCHANGED <<messages, mrequests, mop, req, mlisted>>
      /\ \A r \in MsgProcs : r # p => SameCast(r)
  BY ZenonT(40) DEF MsgInv, MsgTypeOK, NextReceiver, MsgGoto, store, SameCast, u
<1>2. mop[p] = "broadcast" => CastOK(p)'
  BY <1>0, <1>1 DEF CastInv, CastOK, Waiting, Reached, Sending
<1>3. QED
  BY <1>1, <1>2, SilentStep, Zenon

\* "sent to all": nobody is left.
LEMMA SentCast ==
  ASSUME MsgInv, CastInv, NEW p \in MsgProcs, BroadcastSent(p)
  PROVE  CastInv'
<1>1. /\ mpc[p] = "next" /\ mpc'[p] = "replied" /\ todo[p] = {} /\ mrequests \in Nat
      /\ UNCHANGED <<messages, mrequests, mop, req, peer, mlisted, todo>>
      /\ \A r \in MsgProcs : r # p => SameCast(r)
  BY ZenonT(40) DEF MsgInv, MsgTypeOK, BroadcastSent, MsgGoto, store, SameCast
<1>2. mop[p] = "broadcast" => CastOK(p)'
  BY <1>1 DEF CastInv, CastOK, Waiting, Reached, Sending
<1>3. QED
  BY <1>1, <1>2, SilentStep, Zenon

\* A new request has a new number, and no message.
LEMMA BeginCast ==
  ASSUME MsgInv, CastInv, NEW p \in MsgProcs, NEW o \in {"send", "read", "broadcast"}, NEW u, NEW v, NEW all,
         MsgBegin(p, o, u, v, all)
  PROVE  CastInv'
<1>1. /\ req'[p] = mrequests + 1 /\ mrequests' = mrequests + 1 /\ mrequests \in Nat /\ mop'[p] = o /\ UNCHANGED messages
      /\ mlisted'[p] = all /\ todo'[p] = all /\ (o = "broadcast" => mpc'[p] = "next")
      /\ \A r \in MsgProcs : r # p => SameCast(r) /\ req'[r] = req[r] /\ mop'[r] = mop[r]
      /\ \A r \in MsgProcs : req[r] \in Nat
      /\ \A m \in messages : m.req \in Nat
  BY ZenonT(40) DEF MsgInv, MsgTypeOK, MsgBegin, MsgGoto, store, SameCast
<1>2. NumbersOK'
  BY <1>1 DEF CastInv, NumbersOK
<1>3. o = "broadcast" => CastOK(p)'
  <2>1. \A m \in messages : m.req # mrequests + 1
    BY <1>1 DEF CastInv, NumbersOK
  <2>2. QED
    BY <1>1, <2>1, ZenonT(40) DEF CastOK, Waiting, Reached, Sending
<1>4. QED
  BY <1>1, <1>2, <1>3, CastKept, Zenon DEF CastInv

\* The commit of Send reaches one user for one request.
LEMMA UpdateCast ==
  ASSUME MsgInv, CastInv, NEW p \in MsgProcs, UpdateThread(p)
  PROVE  CastInv'
<1> DEFINE new == [id |-> mid[p], thread |-> PairOf(p), receiver |-> peer[p], req |-> req[p]]
<1>1. new.req = req[p] /\ new.receiver = peer[p]
  BY Zenon
<1>2. /\ mpc[p] = "update" /\ messages' = messages \cup {new} /\ UNCHANGED <<mrequests, mop, req, peer, mlisted, todo>>
      /\ mop[p] = "broadcast" => mpc'[p] = "next"
      /\ \A r \in MsgProcs : r # p => SameCast(r)
      /\ mop[p] # "none"
  BY Zenon DEF MsgInv, MsgTypeOK, ProcOK, UpdateThread, MsgGoto, SameCast
<1> HIDE DEF new
<1>3. NumbersOK'
  BY <1>1, <1>2, Zenon DEF CastInv, NumbersOK
<1>4. ASSUME NEW r \in MsgProcs, r # p, mop[r] = "broadcast" PROVE CastOK(r)'
  <2>1. req[r] # req[p] /\ CastOK(r)
    BY <1>2, <1>4, Zenon DEF CastInv, NumbersOK
  <2>2. \A u \in mlisted[r] : {m \in messages' : m.req = req[r] /\ m.receiver = u} = Reached(r, u)
    BY <1>1, <1>2, <2>1, Zenon DEF Reached
  <2>3. QED
    <3>1. UNCHANGED <<mpc[r], mop[r], req[r], peer[r], mlisted[r], todo[r]>>
      BY <1>2, <1>4, Zenon DEF SameCast
    <3>2. \A u \in mlisted[r] : Reached(r, u)' = Reached(r, u) /\ (Waiting(r, u)' <=> Waiting(r, u))
      BY <2>2, <3>1, Zenon DEF Waiting, Reached
    <3>3. QED
      BY <1>2, <2>1, <3>1, <3>2, ZenonT(40) DEF CastOK
<1>5. mop[p] = "broadcast" => CastOK(p)'
  <2>1. SUFFICES ASSUME mop[p] = "broadcast" PROVE CastOK(p)'
    BY Zenon
  <2>2. CastOK(p) /\ mpc'[p] = "next" /\ peer[p] \notin todo[p] /\ mpc[p] \in Sending
    BY <1>2, <2>1, Zenon DEF CastInv, CastOK, Sending
  <2>3. \A u \in mlisted[p] : Waiting(p, u)' <=> Waiting(p, u) /\ u # peer[p]
    BY <1>2, <2>2, Zenon DEF Waiting, Sending
  <2>4. \A u \in mlisted[p] : u # peer[p] => Reached(p, u)' = Reached(p, u)
    BY <1>1, <1>2, Zenon DEF Reached
  <2>5. \A u \in mlisted[p] : u = peer[p] => Reached(p, u) = {} /\ Reached(p, u)' = {new}
    BY <1>1, <1>2, <2>2, Zenon DEF CastOK, Waiting, Reached
  <2>6. QED
    BY <1>2, <2>2, <2>3, <2>4, <2>5, ZenonT(40) DEF CastOK, Sending
<1>6. QED
  BY <1>2, <1>3, <1>4, <1>5, Zenon DEF CastInv

\* Every step keeps the account of broadcasts.
LEMMA NextCastInv == MsgInv /\ CastInv /\ [MsgNext]_msgVars => CastInv'
<1> SUFFICES ASSUME MsgInv, CastInv, [MsgNext]_msgVars PROVE CastInv'
  BY Zenon
<1>1. ASSUME UNCHANGED <<messages, process>>, mrequests' \in Nat, mrequests <= mrequests' PROVE CastInv'
  <2>1. mrequests \in Nat /\ (\A r \in MsgProcs : req[r] \in Nat) /\ (\A m \in messages : m.req \in Nat)
    BY ZenonT(40) DEF MsgInv, MsgTypeOK
  <2>2. NumbersOK'
    BY <1>1, <2>1, SMTT(30) DEF CastInv, NumbersOK, process
  <2>3. \A r \in MsgProcs : mop[r] = "broadcast" => CastOK(r)'
    BY <1>1, CastKept, Zenon DEF CastInv, SameCast, process
  <2>4. QED
    BY <1>1, <2>2, <2>3, Zenon DEF CastInv, process
<1>2. ASSUME NEW p \in MsgProcs, Abort(p) PROVE CastInv'
  BY <1>2, ClearCast, Zenon DEF Abort
<1>3. ASSUME NEW p \in MsgProcs, CheckReceiver(p) PROVE CastInv'
  BY <1>2, <1>3, StatementCast, Zenon DEF CheckReceiver, NoReceiver, Sending, store
<1>4. ASSUME NEW p \in MsgProcs, FindThread(p) PROVE CastInv'
  BY <1>4, StatementCast, Zenon DEF FindThread, Sending, store
<1>5. ASSUME NEW p \in MsgProcs, CreateThread(p) PROVE CastInv'
  BY <1>2, <1>5, StatementCast, Zenon DEF CreateThread, Sending, store
<1>6. ASSUME NEW p \in MsgProcs, InsertMessage(p) PROVE CastInv'
  BY <1>6, StatementCast, Zenon DEF InsertMessage, Sending, store
<1>7. ASSUME NEW p \in MsgProcs, MarkMessages(p) \/ ResetUnread(p) PROVE CastInv'
  <2>1. mop[p] # "broadcast"
    BY <1>7, Zenon DEF MarkMessages, ResetUnread, CastInv, CastOK, Sending
  <2>2. QED
    BY <1>7, <2>1, StatementCast, Zenon DEF MarkMessages, ResetUnread, store
<1>8. ASSUME NEW p \in MsgProcs, Step(p) PROVE CastInv'
  BY <1>3, <1>4, <1>5, <1>6, <1>7, <1>8, NextReceiverCast, SentCast, UpdateCast, ClearCast, ZenonT(40) DEF Step, Reply
<1>9. ASSUME NEW u \in MsgUsers, MsgDeleteUser(u) PROVE CastInv'
  <2>1. mrequests \in Nat
    BY Zenon DEF MsgInv, MsgTypeOK
  <2>2. QED
    BY <1>1, <1>9, <2>1, SMTT(30) DEF MsgDeleteUser, store
<1>10. CASE UNCHANGED msgVars
  <2>1. mrequests \in Nat
    BY Zenon DEF MsgInv, MsgTypeOK
  <2>2. QED
    BY <1>1, <1>10, <2>1, SMTT(30) DEF msgVars, store
<1>11. ASSUME NEW p \in MsgProcs, NEW u \in MsgUsers, Broadcast(p, u) PROVE CastInv'
  BY <1>11, BeginCast, Zenon DEF Broadcast
<1>12. ASSUME NEW p \in MsgProcs, NEW u \in MsgUsers, NEW v \in MsgUsers, Send(p, u, v) \/ MarkRead(p, u, v) PROVE CastInv'
  BY <1>12, BeginCast, Zenon DEF Send, MarkRead
<1>13. QED
  BY <1>2, <1>8, <1>9, <1>10, <1>11, <1>12, ZenonT(40) DEF MsgNext, Fail

\* A Broadcast that answers "sent" has delivered exactly one message to each user it
\* listed, whoever was deleted and whatever threads were created meanwhile
\* (service/message.go:171-235).
THEOREM BroadcastsComplete == MsgSpec => []BroadcastComplete
<1>1. MsgInit => CastInv
  BY DEF MsgInit, CastInv, NumbersOK
<1>2. CastInv => BroadcastComplete
  <2>1. SUFFICES ASSUME CastInv, NEW p \in MsgProcs, mpc[p] = "replied", mop[p] = "broadcast", NEW u \in mlisted[p]
                 PROVE  Cardinality(Reached(p, u)) = 1
    BY Zenon DEF BroadcastComplete, Reached
  <2>2. PICK m \in messages : Reached(p, u) = {m}
    BY <2>1, Zenon DEF CastInv, CastOK, Waiting, Sending
  <2>3. QED
    BY <2>2, FS_Singleton, Zenon
<1>3. QED
  BY <1>1, <1>2, InitMsgInv, NextMsgInv, NextCastInv, PTL DEF MsgSpec
=============================================================================
