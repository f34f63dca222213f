------------------------------- MODULE Drafts -------------------------------
(***************************************************************************)
(* The form of one Task, or the editor of one Wiki page, and the draft of  *)
(* it that the browser keeps while the user is elsewhere: TaskModal with   *)
(* TaskDraftProvider, WikiPageWorkspace with WikiDraftProvider.  Others    *)
(* write the same row meanwhile.                                           *)
(*                                                                         *)
(* One save is under way at a time.  Its form is disabled until it is      *)
(* answered, but another form can be opened on the same draft, by leaving  *)
(* the page and coming back.                                               *)
(*                                                                         *)
(* A fetch that does not succeed takes the form from the screen until one  *)
(* does: a Task's form is unmounted, a page's editor stands behind the     *)
(* error.  What is deleted is never fetched again.                         *)
(***************************************************************************)
EXTENDS Functions

CONSTANTS Fields, Values, Gone

ASSUME GoneAssumption == Gone \notin [Fields -> Values]

VARIABLES
  kind,               \* "task" or "wiki"
  row,                \* of the server, or Gone
  known,              \* the row as the last answer had it, or Gone
  failed,             \* the last fetch failed, the row may still be there
  form,               \* what is open: Closed, or fields and what they were
  draft,              \* what is kept: Closed if nothing is
  save,               \* the request under way
  origin,             \* history: what the user saw before the first change
  text,               \* history: what the user has typed in the form or its draft
  answeredLate        \* history: a save was answered after the page was left

draftVars == <<kind, row, known, failed, form, draft, save, origin, text, answeredLate>>

Rows == [Fields -> Values]

Closed == [fields |-> <<>>, baseline |-> <<>>]

Open == form # Closed

NoSave == [at |-> "none", input |-> <<>>, text |-> <<>>, here |-> FALSE, reply |-> <<>>]

\* An error is shown where the form would be.
Hidden == failed \/ known = Gone

\* The form's own request is pending, which disables its fields.
Waiting == save.at # "none" /\ save.here

Enabled == Open /\ ~Hidden /\ ~Waiting

Edited(f) == f.fields # f.baseline

\* The effect of a change: a Task's draft is kept while it differs from what the
\* form began with, a page's as long as it is edited.
Kept(f) == IF kind = "wiki" \/ Edited(f) THEN f ELSE Closed

\* Mutant: a restored form measures its changes by the row as it is now.
Rebased(f) == [f EXCEPT !.baseline = known]

Restored(f) == f

\* Mutant: every failure is taken for "no longer available".
DropDraft(unavailable) == Closed

\* What a fetch of a Task that does not succeed leaves of its draft.
DraftAfterError(unavailable) == IF unavailable THEN Closed ELSE draft

\* Mutant: the whole form is sent.
EveryField(f) == f.fields

\* A Task: what differs from the baseline; a page: title and content.
Input(f) ==
  Restrict(f.fields, {x \in Fields : kind = "wiki" \/ f.fields[x] # f.baseline[x]})

-----------------------------------------------------------------------------
DraftsInit ==
  /\ kind \in {"task", "wiki"}
  /\ row \in Rows /\ known = row /\ origin = row
  /\ failed = FALSE /\ form = Closed /\ draft = Closed /\ save = NoSave
  /\ text = <<>> /\ answeredLate = FALSE

\* Another user's request.
OtherWrites ==
  /\ row # Gone
  /\ \E x \in Fields, v \in Values : row[x] # v /\ row' = [row EXCEPT ![x] = v]
  /\ UNCHANGED <<kind, known, failed, form, draft, save, origin, text, answeredLate>>

OtherRemoves ==
  /\ row # Gone /\ row' = Gone
  /\ UNCHANGED <<kind, known, failed, form, draft, save, origin, text, answeredLate>>

\* A fetch is answered.  No form is touched by what the row is now, but one whose
\* row is gone is shown no more: a Task's is closed and its draft deleted, a
\* page's editor keeps both and stands behind the error from now on (Hidden).
RefetchRow ==
  LET lost == row = Gone /\ kind = "task"
  IN /\ known' = row /\ failed' = FALSE
     /\ form' = IF lost THEN Closed ELSE form
     /\ draft' = IF lost THEN DraftAfterError(TRUE) ELSE draft
     /\ text' = IF lost THEN <<>> ELSE text
     /\ save' = IF lost THEN [save EXCEPT !.here = FALSE] ELSE save
     /\ UNCHANGED <<kind, row, origin, answeredLate>>

\* A fetch fails for another reason.  A Task's form is closed, and opened again
\* on its draft when a later fetch succeeds; a page's editor is hidden so long.
RefetchFails ==
  /\ failed' = TRUE
  /\ IF kind = "task"
     THEN /\ form' = Closed /\ draft' = DraftAfterError(FALSE)
          /\ save' = [save EXCEPT !.here = FALSE]
     ELSE UNCHANGED <<form, draft, save>>
  /\ UNCHANGED <<kind, row, known, origin, text, answeredLate>>

\* A page with a draft is opened in its editor, also when that will be hidden.
OpenForm ==
  /\ ~Open /\ (Hidden => kind = "wiki" /\ draft # Closed)
  /\ IF draft # Closed
     THEN form' = Restored(draft) /\ UNCHANGED <<origin, text, answeredLate>>
     ELSE /\ form' = [fields |-> known, baseline |-> known]
          /\ origin' = known /\ text' = <<>> /\ answeredLate' = FALSE
  /\ draft' = IF kind = "wiki" THEN form' ELSE draft
  /\ UNCHANGED <<kind, row, known, failed, save>>

Type ==
  /\ Enabled
  /\ \E x \in Fields, v \in Values :
       /\ form.fields[x] # v
       /\ form' = [form EXCEPT !.fields[x] = v]
       /\ text' = IF v = origin[x] THEN Restrict(text, DOMAIN text \ {x})
                   ELSE [y \in DOMAIN text \cup {x} |-> IF y = x THEN v ELSE text[y]]
  /\ draft' = Kept(form')
  /\ answeredLate' = FALSE
  /\ UNCHANGED <<kind, row, known, failed, save, origin>>

\* The user goes to another page.
LeavePage ==
  /\ Open
  /\ form' = Closed
  /\ save' = [save EXCEPT !.here = FALSE]
  /\ UNCHANGED <<kind, row, known, failed, draft, origin, text, answeredLate>>

\* By Cancel, or by selecting another page, also while the editor is hidden.
\* Confirmed if there is something to lose.
DiscardEdits ==
  /\ Open /\ ~Waiting
  /\ form' = Closed /\ draft' = Closed /\ text' = <<>> /\ answeredLate' = FALSE
  /\ UNCHANGED <<kind, row, known, failed, save, origin>>

Save ==
  /\ Enabled /\ save.at = "none"
  /\ kind = "task" => Edited(form)
  /\ save' = [at |-> "sent", input |-> Input(form), text |-> text, here |-> TRUE,
              reply |-> <<>>]
  /\ UNCHANGED <<kind, row, known, failed, form, draft, origin, text, answeredLate>>

\* The server writes the fields of the request.
WriteRow ==
  /\ save.at = "sent"
  /\ IF row = Gone
     THEN save' = [save EXCEPT !.at = "refused"] /\ UNCHANGED row
     ELSE /\ row' = [x \in Fields |-> IF x \in DOMAIN save.input THEN save.input[x] ELSE row[x]]
          /\ save' = [save EXCEPT !.at = "written", !.reply = row']
  /\ UNCHANGED <<kind, known, failed, form, draft, origin, text, answeredLate>>

\* What the user has typed since the request was sent.
Newer == Restrict(text, {x \in DOMAIN text : x \notin DOMAIN save.text \/ save.text[x] # text[x]})

\* onSuccess: the draft is deleted, and the form closed if it is still there; a
\* form opened since then keeps what it shows.
Saved ==
  /\ save.at = "written"
  /\ known' = save.reply /\ failed' = FALSE
  /\ draft' = Closed
  /\ form' = IF save.here THEN Closed ELSE form
  /\ text' = IF Open /\ ~save.here THEN text ELSE Newer
  /\ answeredLate' = (text' # <<>>)
  /\ save' = NoSave
  /\ UNCHANGED <<kind, row, origin>>

\* onError, also when the answer is lost.
NotSaved ==
  /\ save.at # "none" /\ save' = NoSave
  /\ UNCHANGED <<kind, row, known, failed, form, draft, origin, text, answeredLate>>

DraftsNext ==
  \/ OtherWrites \/ OtherRemoves \/ RefetchRow \/ RefetchFails
  \/ OpenForm \/ Type \/ LeavePage \/ DiscardEdits \/ Save \/ WriteRow \/ Saved \/ NotSaved

DraftsSpec == DraftsInit /\ [][DraftsNext]_draftVars

-----------------------------------------------------------------------------
Holds(f) == f # Closed /\ \A x \in DOMAIN text : f.fields[x] = text[x]

\* The page that is edited was deleted by others, and the browser knows: an error
\* stands in place of the editor for good, also after coming back to the draft.
Withheld == kind = "wiki" /\ known = Gone

\* What the user has typed and neither saved nor discarded is in the form, or
\* comes back with it from the draft, also after fetches of the row and failures
\* of them, after writes of others and while a save is refused; and the row of
\* that form is not known to be gone, so that the next fetch that succeeds shows
\* it.  Exempt are the page that is known to be deleted (Withheld), and what is
\* typed after coming back to a page whose save is still under way, as its answer
\* deletes the newer draft too.  What is typed in a Task ends with the Task.
DraftsSurvive ==
  text # <<>> =>
    \/ known # Gone /\ (Holds(form) \/ (~Open /\ Holds(draft)))
    \/ answeredLate \/ Withheld

\* What a save of a Task writes is what its user has typed: it undoes no change
\* that others have made to another field since the form was opened.
OthersKept ==
  kind = "task" /\ save.at = "sent" /\ save'.at = "written" =>
    \A x \in Fields : row'[x] # row[x] => x \in DOMAIN save.text /\ save.text[x] = row'[x]

\* But for the exempt cases, no edit is lost on the way from the form to the row,
\* and none of others is undone: DraftsSurvive after every step, OthersKept in
\* every step.
EditsAreKept == [][DraftsSurvive' /\ OthersKept]_draftVars
=============================================================================
