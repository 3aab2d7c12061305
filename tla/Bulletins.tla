------------------------------ MODULE Bulletins ------------------------------
(* The bulletins of core_data (service/bulletin.go, dal/bulletin.go): editors who   *)
(* create, update and delete, one statement after the other without a transaction,  *)
(* and a reader who turns the pages of the list.                                  *)
(*                                                                              *)
(* Ids are given in the order of created_at.                                     *)
EXTENDS Integers, FiniteSets

CONSTANTS Editors,        \* requests of editors in progress
          EditorRoles,    \* the role ids in their tokens
          Drafts,         \* what is published: [title, content, pinned]
          Revisions,      \* what an update sends, Blank where it sends no text
          BoardPage,      \* rows of a page
          MaxBulletins,   \* bound: bulletins created
          MaxEdits        \* bound: updates and deletions asked for

ASSUME BoardConstants == BoardPage \in Nat /\ MaxBulletins \in Nat /\ MaxEdits \in Nat

VARIABLES board,    \* the table bulletins: id -> [title, content, pinned]
          bnext,    \* the last id given
          edits,    \* updates and deletions asked for
          edit,     \* per editor: the request
          view      \* the reader: page, total, and the rows it has yet to be shown

boardVars == <<board, bnext, edits, edit, view>>

Blank == "blank"   \* the empty text
NoText == [title |-> Blank, content |-> Blank, pinned |-> "no"]
Quiescent == [pc |-> "idle", op |-> "none", id |-> 0, sent |-> NoText, role |-> 0, hit |-> "no"]
Unread == [pc |-> "idle", page |-> 0, total |-> 0, unseen |-> {}]

BoardInit ==
    /\ board = <<>> /\ bnext = 0 /\ edits = 0
    /\ edit = [e \in Editors |-> Quiescent] /\ view = Unread

\* auth.VerifyMinRole(ctx, permission.RoleCoach), of permission/const.go.
CoachRole == 2
VerifyMinRole(role) == role >= CoachRole

Ends(e) == edit' = [edit EXCEPT ![e] = Quiescent]
Goes(e, pc) == edit' = [edit EXCEPT ![e].pc = pc]
\* A write that shifts rows past the reader excuses what it has not seen.
Upsets(yes) == view' = [view EXCEPT !.unseen = IF yes THEN {} ELSE @]

\* A caller without the role is answered with code 1.
Refused(e, role) ==
    /\ edit[e].pc = "idle" /\ ~VerifyMinRole(role)
    /\ edit' = [edit EXCEPT ![e].pc = "refused", ![e].role = role]
    /\ UNCHANGED <<board, bnext, edits, view>>

\* Create: one INSERT.
Create(e, role, draft) ==
    /\ edit[e].pc = "idle" /\ VerifyMinRole(role) /\ draft.title # Blank /\ draft.content # Blank
    /\ bnext < MaxBulletins /\ bnext' = bnext + 1
    /\ board' = [i \in DOMAIN board \cup {bnext + 1} |->
                   IF i = bnext + 1 THEN draft ELSE board[i]]
    /\ Upsets(view.pc = "page")
    /\ UNCHANGED <<edits, edit>>

\* Update and Delete look for the bulletin first: code 2 without one.
Look(e, role, op, i, sent) ==
    /\ edit[e].pc = "idle" /\ VerifyMinRole(role)
    /\ edits < MaxEdits /\ edits' = edits + 1
    /\ IF i \in DOMAIN board
       THEN edit' = [edit EXCEPT ![e] = [pc |-> op, op |-> op, id |-> i, sent |-> sent, role |-> 0, hit |-> "no"]]
       ELSE UNCHANGED edit
    /\ UNCHANGED <<board, bnext, view>>

\* Mutants: texts that were not sent are written too; no second look.
MutWritesAll(sent, row) == sent
MutNoSecondLook(e) ==
    /\ edit[e].pc = "again" /\ Goes(e, "success") /\ UNCHANGED <<board, bnext, edits, view>>

\* UPDATE of the columns that were sent; is_pinned is always one of them.
Updated(sent, row) ==
    [title |-> IF sent.title = Blank THEN row.title ELSE sent.title,
     content |-> IF sent.content = Blank THEN row.content ELSE sent.content,
     pinned |-> sent.pinned]
UpdateBulletin(e) ==
    LET q == edit[e]
        found == q.id \in DOMAIN board
    IN  /\ q.pc = "update"
        /\ board' = IF found THEN [board EXCEPT ![q.id] = Updated(q.sent, @)] ELSE board
        /\ edit' = [edit EXCEPT ![e].pc = "again", ![e].sent = NoText, ![e].hit = IF found THEN "yes" ELSE "no"]
        /\ Upsets(found /\ board[q.id].pinned # q.sent.pinned)
        /\ UNCHANGED <<bnext, edits>>

\* The bulletin is read again for the answer; without it the answer is an error.
ReadAgain(e) ==
    /\ edit[e].pc = "again"
    /\ Goes(e, IF edit[e].id \in DOMAIN board THEN "success" ELSE "error")
    /\ UNCHANGED <<board, bnext, edits, view>>

\* DELETE, a success with or without a row.
DeleteBulletin(e) ==
    /\ edit[e].pc = "delete"
    /\ board' = [i \in DOMAIN board \ {edit[e].id} |-> board[i]]
    /\ Goes(e, "success") /\ Upsets(edit[e].id \in DOMAIN board)
    /\ UNCHANGED <<bnext, edits>>

\* A statement fails.
StatementFails(e) ==
    /\ edit[e].pc \in {"update", "again", "delete"} /\ Goes(e, "error")
    /\ UNCHANGED <<board, bnext, edits, view>>

Answered(e) ==
    /\ edit[e].pc \in {"success", "error", "refused"} /\ Ends(e)
    /\ UNCHANGED <<board, bnext, edits, view>>

\* List: the count, then the page, pinned bulletins first and then the newest: the
\* page is the rows whose place in this order is on it.
Order(i, j) == IF board[i].pinned # board[j].pinned THEN board[i].pinned = "yes" ELSE i > j
Place(i) == Cardinality({j \in DOMAIN board : j = i \/ Order(j, i)})

BulletinPage(page) == {i \in DOMAIN board : (page - 1) * BoardPage < Place(i) /\ Place(i) <= page * BoardPage}
CountBulletins ==
    /\ view.pc \in {"idle", "next"}
    /\ view' = IF view.pc = "idle"
               THEN [Unread EXCEPT !.pc = "page", !.page = 1, !.total = Cardinality(DOMAIN board), !.unseen = DOMAIN board]
               ELSE [view EXCEPT !.pc = "page", !.page = @ + 1, !.total = Cardinality(DOMAIN board)]
    /\ UNCHANGED <<board, bnext, edits, edit>>
FindPage ==
    /\ view.pc = "page"
    /\ view' = [view EXCEPT !.unseen = @ \ BulletinPage(view.page),
                            !.pc = IF view.page * BoardPage < view.total THEN "next" ELSE "read"]
    /\ UNCHANGED <<board, bnext, edits, edit>>
CloseList == view.pc = "read" /\ view' = Unread /\ UNCHANGED <<board, bnext, edits, edit>>

BoardNext ==
    \/ \E e \in Editors : UpdateBulletin(e) \/ ReadAgain(e) \/ DeleteBulletin(e) \/ StatementFails(e) \/ Answered(e)
    \/ \E e \in Editors, role \in EditorRoles :
          \/ Refused(e, role)
          \/ \E draft \in Drafts : Create(e, role, draft)
          \/ \E i \in 1..MaxBulletins :
                Look(e, role, "delete", i, NoText) \/ \E sent \in Revisions : Look(e, role, "update", i, sent)
    \/ CountBulletins \/ FindPage \/ CloseList

BoardSpec == BoardInit /\ [][BoardNext]_boardVars

-----------------------------------------------------------------------------
BoardTypeOK ==
    /\ bnext \in 0..MaxBulletins /\ edits \in 0..MaxEdits
    /\ DOMAIN board \subseteq 1..bnext
    /\ \A e \in Editors : edit[e].pc \in {"idle", "refused", "update", "again", "delete", "success", "error"}
    /\ \A e \in Editors : edit[e].id \in 0..bnext
    /\ view.pc \in {"idle", "page", "next", "read"} /\ view.unseen \subseteq 1..bnext

\* Two editors of one bulletin do not undo each other's texts: a title or a content
\* changes only in the UPDATE of a request that sent one, whatever was read before
\* (bulletin.go:99-126).
EditsStayApart ==
    [][\A i \in DOMAIN board \cap DOMAIN board', text \in {"title", "content"} :
         board'[i][text] # board[i][text] =>
            \E e \in Editors : /\ edit[e].pc = "update" /\ edit[e].id = i
                              /\ edit[e].sent[text] = board'[i][text] /\ edit[e].sent[text] # Blank]_boardVars

\* An update that answers success has changed the row: when the bulletin is deleted
\* between the look and the UPDATE, the second look finds nothing and the answer is
\* an error (bulletin.go:124-133).
SuccessIsApplied == \A e \in Editors : edit[e].pc = "success" /\ edit[e].op = "update" => edit[e].hit = "yes"

\* A reader who turns the pages until the total is reached has seen every bulletin
\* that was there at the beginning, although bulletins are published and edited
\* meanwhile; deletions, changed pins and a bulletin published between the count and
\* the page excepted, which shift rows past the reader (dal/bulletin.go:44-66).
PagesShowAll == view.pc = "read" => view.unseen = {}

\* "Create 创建公告（教练/管理员）": neither a coach nor an admin is refused
\* (bulletin.go:38-46).  Role ids are compared by size, and an admin's, 1, is the
\* smaller one (permission/const.go:5-9).
AdminsMayPublish == \A e \in Editors : edit[e].pc = "refused" => edit[e].role \notin {CoachRole, 1}

\* An editor's success is in the table, and a reader's pages show all of it
\* (bulletin.go:99-133, dal/bulletin.go:44-66).
BulletinsAreSound == BoardTypeOK /\ SuccessIsApplied /\ PagesShowAll
=============================================================================
