-------------------------------- MODULE Editing --------------------------------
(***************************************************************************)
(* The forms of the client (src/client/src/pages): a page shows one row of *)
(* several, has a form about it, sends what the form holds, and is         *)
(* answered while the user goes on clicking.  The forms differ in a few    *)
(* respects only, so each is a record and the machine is one; a behaviour  *)
(* is about one form.                                                      *)
(*                                                                         *)
(* A version of a row stands for its contents.  Bounds of the model: the   *)
(* versions of a row, and one request of the form on its way at a time.    *)
(***************************************************************************)
EXTENDS Naturals

CONSTANTS
  Rows,
  NoRow,
  MaxVersion  \* versions of a row

ASSUME EditingAssumption == NoRow \notin Rows /\ MaxVersion \in Nat \ {0}

VARIABLES
  form,     \* the form: one of Forms
  saved,    \* saved[r]: the version of row r on the server
  known,    \* known[r]: the version the client has, 0 if it has none
  chosen,   \* the row the page is to show: a selection, or the route
  shown,    \* the row it shows
  fields,   \* what the form holds, and whether it is open
  request   \* what the form has sent

editVars == <<form, saved, known, chosen, shown, fields, request>>

------------------------------------------------------------------------------
(* A form that edits what it shows.                                        *)
(*   rows: "one" row per page, "many" to choose from, or a "menu" of rows  *)
(*     that opens the form for one of them                                 *)
(*   lags: until the chosen row has been loaded, the page shows the one    *)
(*     before (RTK Query keeps "data" of the previous argument)            *)
(*   refill: an effect fills the form when another "row" is shown, or when *)
(*     its "data" change, or whenever they change and the form is "idle"   *)
(*   opening, closing, answered: the fields are "filled" again, or "kept"; *)
(*     there may be two ways to close it                                   *)
(*   leaves: the form is open after a good answer; one that is part of its *)
(*     page is opened and closed with it                                   *)
(*   closable, locked: the form can be closed, the fields cannot be        *)
(*     changed, while a request is on its way                              *)
(*   added: rows are added, and chosen when they are                       *)
(*   modes: it sends an "edit" of the row, or creates a new thing, for     *)
(*     which filling the form empties it                                   *)
(*   buttons: one click sends, for the chosen row, what the shown one      *)
(*     offers; there is nothing to fill in                                 *)
Edits(name) ==
  [name |-> name, rows |-> "one", lags |-> FALSE, refill |-> "never", opening |-> "kept",
   closing |-> {"kept"}, answered |-> "kept", leaves |-> FALSE, closable |-> FALSE,
   locked |-> FALSE, added |-> FALSE, modes |-> {"edit"}, buttons |-> FALSE]

Creates(name) == [Edits(name) EXCEPT !.modes = {"create"}, !.answered = "filled"]

Buttons(name) == [Edits(name) EXCEPT !.rows = "many", !.lags = TRUE, !.buttons = TRUE]

(* Administration.                                                         *)
RoleForm == [Edits("role") EXCEPT !.rows = "many", !.lags = TRUE, !.refill = "row", !.added = TRUE]
RoleButtons == Buttons("permissions of a role")
RoleCreation == [Creates("new role") EXCEPT !.closable = TRUE]

PositionForm == [Edits("position") EXCEPT !.rows = "many", !.refill = "row", !.added = TRUE]
PositionButtons == Buttons("roles of a position")
PositionCreation == [Creates("new position") EXCEPT !.closable = TRUE]

(* The menu of a unit opens one form to edit it, or to create one below    *)
(* it; a new root is created below a row that stands for none.  The button *)
(* of the header closes the form while it creates, and deleting the unit   *)
(* it edits closes it too, whether a request is on its way or not.         *)
UnitMenuForm ==
  [Edits("unit of the tree") EXCEPT !.rows = "menu", !.opening = "filled", !.closing = {"filled"},
                                    !.answered = "filled", !.closable = TRUE,
                                    !.modes = {"edit", "create"}]
UnitForm ==
  [Edits("unit") EXCEPT !.rows = "many", !.lags = TRUE, !.opening = "filled", !.closable = TRUE]
UnitButtons == Buttons("members and tags of a unit")
ChildCreation ==
  [Creates("child unit") EXCEPT !.rows = "many", !.lags = TRUE, !.closing = {"kept", "filled"},
                                !.closable = TRUE]
MemberAddition ==
  [Creates("member of a unit") EXCEPT !.rows = "many", !.lags = TRUE, !.closing = {"filled"},
                                      !.closable = TRUE]

RegistrationRejection ==
  [Edits("rejected registration") EXCEPT !.rows = "menu", !.answered = "filled", !.closable = TRUE]
ResetRejection == [RegistrationRejection EXCEPT !.name = "rejected password reset"]

UserForm == [Edits("user") EXCEPT !.refill = "data", !.closing = {"filled"}]
UserCreation == [Creates("new user") EXCEPT !.closable = TRUE]
TagCreation == [Creates("new tag") EXCEPT !.closable = TRUE]

(* The user's own.  The password form closes by itself a moment after the  *)
(* answer, which closing it then stands for.                               *)
ProfileForm == [Edits("profile") EXCEPT !.refill = "data", !.closing = {"filled"}]
PasswordForm == [Creates("password") EXCEPT !.opening = "filled", !.leaves = TRUE]
Application == [Creates("application") EXCEPT !.opening = "filled", !.leaves = TRUE]

(* Tasks, events and polls.                                                *)
TaskCreation ==
  [Creates("new task") EXCEPT !.opening = "filled", !.closing = {"filled"}, !.closable = TRUE]
EventCreation == [TaskCreation EXCEPT !.name = "new event"]
PollCreation ==
  [Creates("new poll") EXCEPT !.opening = "filled", !.answered = "kept", !.closable = TRUE]
TaskInvitation == [Creates("assignment") EXCEPT !.closing = {"filled"}, !.closable = TRUE]
EventInvitation == [TaskInvitation EXCEPT !.name = "invitation to an event"]
PollInvitation ==
  [TaskInvitation EXCEPT !.name = "invitation to a poll", !.opening = "filled"]
DueDateForm == [Creates("due date") EXCEPT !.opening = "filled", !.leaves = TRUE]
PollForm == [Edits("poll") EXCEPT !.opening = "filled", !.closable = TRUE]

(* The chat.                                                               *)
TitleForm ==
  [Edits("title of a topic") EXCEPT !.rows = "many", !.refill = "data", !.closing = {"filled"},
                                    !.locked = TRUE]
VisibilityForm ==
  [Edits("visibility of a topic") EXCEPT !.rows = "many", !.lags = TRUE, !.refill = "idle",
                                         !.closing = {"filled"}]
TopicCreation ==
  [Creates("new topic") EXCEPT !.rows = "many", !.closing = {"kept", "filled"}, !.closable = TRUE]
MessageDraft ==
  [Creates("message") EXCEPT !.rows = "many", !.opening = "filled", !.leaves = TRUE,
                             !.locked = TRUE]
RoomButtons == Buttons("room")
RoomCreation == [Creates("new room") EXCEPT !.closing = {"filled"}, !.closable = TRUE]
RoomMemberAddition ==
  [MemberAddition EXCEPT !.name = "member of a room", !.leaves = TRUE]

Forms ==
  {RoleForm, RoleButtons, RoleCreation, PositionForm, PositionButtons, PositionCreation,
   UnitMenuForm, UnitForm, UnitButtons, ChildCreation, MemberAddition, RegistrationRejection,
   ResetRejection, UserForm, UserCreation, TagCreation, ProfileForm, PasswordForm, Application,
   TaskCreation, EventCreation, PollCreation, TaskInvitation, EventInvitation, PollInvitation,
   DueDateForm, PollForm, TitleForm, VisibilityForm, TopicCreation, MessageDraft, RoomButtons,
   RoomCreation, RoomMemberAddition}

------------------------------------------------------------------------------
(* Contents: "filled" from the row "of", with its version; "typed" over;   *)
(* or "sent" as they are.                                                  *)
Filled(f, r, k) == [f EXCEPT !.of = r, !.version = k[r], !.contents = "filled"]

FilledIf(how, f, r, k) == IF how = "filled" THEN Filled(f, r, k) ELSE f

NoRequest ==
  [at |-> "none", to |-> NoRow, of |-> NoRow, early |-> FALSE, button |-> FALSE, mode |-> "edit"]

Busy == request.at \in {"sent", "written"}

(* The row shown, when r is chosen and the client knows k.                 *)
Shows(r, k) == IF k[r] # 0 THEN r ELSE IF form.lags THEN shown ELSE NoRow

(* Mutant: the page has no effects.                                        *)
RefilledNever(f, s, k) == f

(* The effects of the page, once it shows row s and knows k.               *)
Refilled(f, s, k) ==
  CASE s = NoRow -> f
    [] s # NoRow /\ form.refill = "row" /\ s # shown -> [Filled(f, s, k) EXCEPT !.open = FALSE]
    [] s # NoRow /\ form.refill = "data" /\ (s # shown \/ k[s] # known[s]) -> Filled(f, s, k)
    [] s # NoRow /\ form.refill = "idle" /\ ~f.open -> Filled(f, s, k)
    [] OTHER -> f

Show(r, k, f) ==
  /\ chosen' = r
  /\ known' = k
  /\ shown' = Shows(r, k)
  /\ fields' = Refilled(f, Shows(r, k), k)

------------------------------------------------------------------------------
(* The user, or the answer to a creation or a deletion of a row, chooses.  *)
Choose(r) ==
  /\ form.rows = "many" /\ r # chosen
  /\ Show(r, known, fields)
  /\ UNCHANGED <<form, saved, request>>

(* An answer brings the chosen row, or the list the page shows it from.    *)
Load ==
  LET k == IF form.lags THEN [known EXCEPT ![chosen] = saved[chosen]] ELSE saved
  IN /\ k # known
     /\ Show(chosen, k, fields)
     /\ UNCHANGED <<form, saved, request>>

Open ==
  /\ form.rows # "menu" /\ ~form.buttons
  /\ ~fields.open /\ shown # NoRow
  /\ fields' = [FilledIf(form.opening, fields, shown, known) EXCEPT !.open = TRUE]
  /\ UNCHANGED <<form, saved, known, chosen, shown, request>>

(* A menu that fills the form is within reach while the form is open.      *)
OpenFor(r, mode) ==
  /\ form.rows = "menu" /\ mode \in form.modes
  /\ form.opening = "kept" => ~fields.open /\ ~Busy
  /\ chosen' = r /\ shown' = r
  /\ LET how == IF fields.contents = "filled" THEN "filled" ELSE form.opening
     IN fields' = [FilledIf(how, fields, r, known) EXCEPT !.open = TRUE, !.mode = mode]
  /\ UNCHANGED <<form, saved, known, request>>

Editable == fields.open /\ shown # NoRow

(* What is typed into an empty form is meant for the row then shown.       *)
Type ==
  /\ Editable /\ fields.contents # "typed"
  /\ Busy => ~form.locked
  /\ LET of == IF fields.mode = "create" /\ fields.contents = "filled" THEN shown ELSE fields.of
     IN fields' = [fields EXCEPT !.contents = "typed", !.of = of]
  /\ UNCHANGED <<form, saved, known, chosen, shown, request>>

Close ==
  /\ Editable
  /\ Busy => form.closable
  /\ \E how \in form.closing :
       Show(chosen, known, [FilledIf(how, fields, shown, known) EXCEPT !.open = FALSE])
  /\ UNCHANGED <<form, saved, request>>

(* What is sent goes to the row chosen at the click.                       *)
Asking(r) ==
  [NoRequest EXCEPT !.at = "sent", !.to = chosen, !.of = r, !.early = shown # chosen,
                    !.mode = fields.mode]

Submit ==
  /\ Editable /\ ~Busy
  /\ fields.mode = "create" => fields.contents # "filled"
  /\ request' = Asking(fields.of)
  /\ fields' = [fields EXCEPT !.contents = "sent"]
  /\ UNCHANGED <<form, saved, known, chosen, shown>>

Press ==
  /\ form.buttons /\ ~Busy
  /\ request' = [Asking(shown) EXCEPT !.button = TRUE]
  /\ UNCHANGED <<form, saved, known, chosen, shown, fields>>

Bounded(r) == saved[r] < MaxVersion

NewVersion(r) == [saved EXCEPT ![r] = @ + 1]

(* The server writes.                                                      *)
Write ==
  /\ request.at = "sent"
  /\ request' = [request EXCEPT !.at = "written"]
  /\ \/ request.mode = "create" /\ saved' = saved
     \/ request.mode = "edit" /\ Bounded(request.to) /\ saved' = NewVersion(request.to)
  /\ UNCHANGED <<form, known, chosen, shown, fields>>

(* A topic is given its visibility, and a direct room asked for its        *)
(* topics, by a second request, which keeps no button from being clicked.  *)
AcceptFirst ==
  /\ request.at = "written" /\ form \in {TopicCreation, RoomCreation}
  /\ request' = [request EXCEPT !.at = "accepted"]
  /\ UNCHANGED <<form, saved, known, chosen, shown, fields>>

(* A good answer closes, and where the page says so empties, whatever the  *)
(* form holds by then.  The list of topics takes the new title at once.    *)
Accept ==
  LET k == IF form = TitleForm THEN [known EXCEPT ![request.to] = saved[request.to]] ELSE known
      f == [FilledIf(form.answered, fields, shown, known) EXCEPT !.open = @ /\ form.leaves]
  IN /\ request.at \in (IF form = TopicCreation THEN {"accepted"} ELSE {"written", "accepted"})
     /\ request' = NoRequest
     /\ Show(chosen, k, IF request.button THEN fields ELSE f)
     /\ UNCHANGED <<form, saved>>

(* A refusal, or a lost answer, leaves the form as it is.                  *)
Refuse ==
  /\ request.at # "none"
  /\ request' = NoRequest
  /\ fields' = [fields EXCEPT !.contents = IF @ = "sent" THEN "typed" ELSE @]
  /\ UNCHANGED <<form, saved, known, chosen, shown>>

OthersChange(r) ==
  /\ Bounded(r)
  /\ saved' = NewVersion(r)
  /\ UNCHANGED <<form, known, chosen, shown, fields, request>>

EditInit ==
  /\ form \in Forms
  /\ saved = [r \in Rows |-> 1]
  /\ chosen \in Rows /\ shown = chosen
  /\ known \in [Rows -> {0, 1}] /\ known[chosen] = 1
  /\ form.lags \/ form.added \/ \A r \in Rows : known[r] = 1
  /\ \E mode \in form.modes :
       fields = [open |-> FALSE, of |-> chosen, version |-> 1, contents |-> "filled",
                 mode |-> mode]
  /\ request = NoRequest

EditNext ==
  \/ \E r \in Rows : Choose(r) \/ OthersChange(r)
  \/ \E r \in Rows, mode \in {"edit", "create"} : OpenFor(r, mode)
  \/ Load \/ Open \/ Type \/ Close
  \/ Submit \/ Press \/ Write \/ AcceptFirst \/ Accept \/ Refuse

EditSpec == EditInit /\ [][EditNext]_editVars

------------------------------------------------------------------------------
(* What is sent for a row was shown with it, and typed for it.  Not where  *)
(* the row is read from the route or the selection at the click: while the *)
(* chosen row is loading, the page still offers the one before             *)
(* (RolesPage.tsx 281, PositionsPage.tsx 177, ChatInfoPanel.tsx 66);       *)
(* an open form follows the user to the next unit, topic or room           *)
(* (OrgDetailsPage.tsx 147 and 172, TopicManagementPanel.tsx 189,          *)
(* AddMembersModal.tsx 67); and a reason that was abandoned is offered for *)
(* the next rejection (RegistrationRequestsPage.tsx 161).                  *)
FollowsTheUser ==
  {UnitForm, ChildCreation, MemberAddition, VisibilityForm, TopicCreation, MessageDraft,
   RoomMemberAddition, RegistrationRejection, ResetRejection}

SavesAreMeant ==
  Busy /\ request.of # request.to =>
    \/ form \in FollowsTheUser
    \/ request.early /\ (form = RoleForm \/ form.buttons)

(* A form that is opened holds what the page shows.  But a role or a       *)
(* position is filled in when it is selected only; a user or a profile     *)
(* may still hold what was typed after the form was sent; and a reason to  *)
(* reject, or a form that is toggled, keeps what was abandoned in it.      *)
OpenedAsShown ==
  ~fields.open /\ fields'.open =>
    \/ fields'.contents = "filled" /\ fields'.mode = "create"
    \/ fields'.contents = "filled" /\ fields'.of = shown' /\ fields'.version = known'[shown']
    \/ form.refill = "data" /\ ~form.locked
    \/ form.refill = "row"
    \/ form.rows = "menu" /\ form.opening = "kept"
    \/ fields'.mode = "create" /\ form.opening = "kept" /\ "kept" \in form.closing

(* What has been created is not offered again, but for a topic whose       *)
(* visibility is still on its way (TopicsList.tsx 87), and for a direct    *)
(* room, which the server makes once.                                      *)
SentOnce ==
  fields.mode = "create" /\ fields.open /\ fields.contents = "sent" =>
    Busy \/ (request.at = "accepted" /\ form \in {TopicCreation, RoomCreation})

(* What is typed is not taken away by news of the row it is about, but for *)
(* a user, a profile and a topic, whose forms follow their data            *)
(* (UserDetailsPage.tsx 80, ProfilePage.tsx 45,                            *)
(* TopicManagementPanel.tsx 101).                                          *)
NewsKeepsTyping ==
  known' # known /\ shown' = shown /\ fields.contents = "typed" =>
    fields'.contents = "typed" \/ form.refill = "data"

(* An answer closes the form it was asked from, but for pages where a form *)
(* of another row may have been opened meanwhile (as OrgDetailsPage.tsx    *)
(* 173-175 empties and closes the form of whichever unit is then shown).   *)
OpenMeanwhile ==
  {RoleForm, PositionForm, UnitMenuForm, UnitForm, ChildCreation, MemberAddition, TitleForm,
   TopicCreation}

AnswerMindsForm ==
  request.at # "none" /\ request' = NoRequest /\ fields.open /\ ~fields'.open =>
    fields.of = request.of \/ form \in OpenMeanwhile

EditingSound ==
  [][SavesAreMeant' /\ OpenedAsShown /\ SentOnce' /\ NewsKeepsTyping /\ AnswerMindsForm]_editVars

==============================================================================
