--------------------------- MODULE ThreadResponse ---------------------------
(***************************************************************************)
(* One response of a discussion thread as the browser of a moderator shows *)
(* it: common/js/discussion/views/thread_response_view.js, its comments    *)
(* (response_comment_view.js), the views they swap in and out of their     *)
(* elements, and the requests sent with DiscussionUtil.safeAjax, whose     *)
(* callbacks run after whatever the learner did in the meantime.           *)
(*                                                                         *)
(* An element holds its show view or its edit view.  A button disabled by  *)
(* safeAjax is a node of the view that was on the page when it was         *)
(* clicked: the view rendered next has a button of its own, and the        *)
(* request is no longer `live'.                                            *)
(* The server carries requests out in any order.                           *)
(***************************************************************************)
EXTENDS Integers, FiniteSets

CONSTANTS
  Loaded,      \* the comments the response came with
  Reply,       \* the comments the learner may add
  MaxActs,     \* how often the learner acts
  MaxToggles   \* how often the thread is closed or reopened

Comment == Loaded \cup Reply
Response == "response"
Element == Comment \cup {Response}

ASSUME ResponseAssumption ==
  /\ Loaded \cap Reply = {} /\ Response \notin Comment
  /\ IsFiniteSet(Loaded) /\ IsFiniteSet(Reply)
  /\ MaxActs \in Nat /\ MaxToggles \in Nat

VARIABLES
  area,      \* what .discussion-response holds: the show or the edit view, or nothing
  edited,    \* whether this.editView was ever created
  view,      \* what the element of each comment holds
  saved,     \* the comments whose model has its id and abilities
  form,      \* whether the form for a new comment is visible
  closed,    \* the thread's "closed" attribute
  count,     \* the thread's "comments_count", for this response and its comments
  requests,  \* the requests that wait for an answer
  stored,    \* the comments the server holds
  acts, toggles

page == <<area, edited, view, saved, form>>
vars == <<area, edited, view, saved, form, closed, count, requests, stored,
          acts, toggles>>

Request ==
  [id : 0..MaxActs, kind : {"update", "delete", "reply", "vote", "endorse"},
   on : Element, live : BOOLEAN, answer : {"pending", "yes", "no"}]

Shown == {c \in Comment : view[c] \in {"show", "edit"}}

Init ==
  /\ area = "show" /\ edited = FALSE
  /\ view = [c \in Comment |-> IF c \in Loaded THEN "show" ELSE "none"]
  /\ saved = Loaded /\ stored = Loaded
  /\ closed \in BOOLEAN /\ form = ~closed
  /\ count = 1 + Cardinality(Loaded)
  /\ requests = {}
  /\ acts = 0 /\ toggles = 0

(***************************************************************************)
(* What the handlers are made of.                                          *)
(***************************************************************************)

Acts == area # "gone" /\ acts < MaxActs /\ acts' = acts + 1

\* safeAjax rejects when the button is disabled, that is, while the request that
\* the same button sent has no answer.
Pressed(kind, e) == \E r \in requests : r.live /\ r.kind = kind /\ r.on = e

Sent(kind, e) ==
  [id |-> acts, kind |-> kind, on |-> e, live |-> TRUE, answer |-> "pending"]

Send(kind, e) ==
  /\ ~Pressed(kind, e)
  /\ requests' = requests \cup {Sent(kind, e)}

\* New views on the elements S have buttons that no request disabled.
Fresh(rs, S) == {[r EXCEPT !.live = @ /\ r.on \notin S] : r \in rs}

Editing == {c \in Comment : view[c] = "edit"}

\* Every comment view runs cancelEdit: the edit views give way to show views.
CommentsAtRest == [c \in Comment |-> IF view[c] = "edit" THEN "show" ELSE view[c]]

Kept == UNCHANGED <<closed, stored, toggles>>

(***************************************************************************)
(* The learner.                                                            *)
(***************************************************************************)
\* ThreadResponseView.edit, from the show view's button.
EditResponse ==
  /\ Acts /\ area = "show"
  /\ area' = "edit" /\ edited' = TRUE
  /\ view' = CommentsAtRest /\ form' = FALSE
  /\ requests' = Fresh(requests, Editing \cup {Response})
  /\ Kept /\ UNCHANGED <<saved, count>>

\* ThreadResponseView.cancelEdit, from the editor's button.
CancelResponse ==
  /\ Acts /\ area = "edit"
  /\ area' = "show" /\ form' = TRUE
  /\ requests' = Fresh(requests, {Response})
  /\ Kept /\ UNCHANGED <<edited, view, saved, count>>

\* Mutated: the response leaves its own editor open.
EditCommentBeside(c) ==
  /\ Acts /\ view[c] = "show" /\ c \in saved
  /\ view' = [CommentsAtRest EXCEPT ![c] = "edit"] /\ form' = FALSE
  /\ requests' = Fresh(requests, Editing \cup {c})
  /\ Kept /\ UNCHANGED <<area, edited, saved, count>>

\* ResponseCommentView.edit: the response closes its own editor if it ever had
\* one, then those of the other comments, and hides the form.
EditComment(c) ==
  /\ Acts /\ view[c] = "show" /\ c \in saved
  /\ area' = IF edited THEN "show" ELSE area
  /\ view' = [CommentsAtRest EXCEPT ![c] = "edit"] /\ form' = FALSE
  /\ requests' = Fresh(requests, Editing \cup {c} \cup (IF edited THEN {Response} ELSE {}))
  /\ Kept /\ UNCHANGED <<edited, saved, count>>

CancelComment(c) ==
  /\ Acts /\ view[c] = "edit"
  /\ view' = [view EXCEPT ![c] = "show"] /\ form' = TRUE
  /\ requests' = Fresh(requests, {c})
  /\ Kept /\ UNCHANGED <<area, edited, saved, count>>

\* update of the response or of a comment: the editor stays until the answer.
Update(e) ==
  /\ Acts /\ IF e = Response THEN area = "edit" ELSE view[e] = "edit"
  /\ Send("update", e)
  /\ Kept /\ UNCHANGED <<page, count>>

\* ThreadResponseView.submitComment shows and counts the comment before it asks
\* safeAjax, which sends nothing while another comment is being sent.
SubmitComment(c) ==
  /\ Acts /\ form /\ view[c] = "none" /\ c \in Reply
  /\ requests' = IF \E r \in requests : r.kind = "reply" THEN requests
                 ELSE requests \cup {Sent("reply", c)}
  /\ view' = [view EXCEPT ![c] = "show"]
  /\ count' = count + 1
  /\ Kept /\ UNCHANGED <<area, edited, saved, form>>

\* ResponseCommentView._delete waits for the server.
DeleteComment(c) ==
  /\ Acts /\ view[c] = "show" /\ c \in saved
  /\ Send("delete", c)
  /\ Kept /\ UNCHANGED <<page, count>>

\* ThreadResponseView._delete does not: the response leaves the page, and
\* Content.removeComment takes it and the comments of its model off the count.
DeleteResponse ==
  /\ Acts /\ area = "show"
  /\ Send("delete", Response)
  /\ area' = "gone"
  /\ count' = count - (1 + Cardinality(Loaded))
  /\ Kept /\ UNCHANGED <<edited, view, saved, form>>

\* toggleVote changes the user's model, which no view of the response watches.
Vote ==
  /\ Acts /\ area = "show"
  /\ Send("vote", Response)
  /\ Kept /\ UNCHANGED <<page, count>>

\* toggleEndorse and toggleReport change the response's model at once: its show
\* view renders again, with buttons that are enabled.
Endorse ==
  /\ Acts /\ area = "show"
  /\ ~Pressed("endorse", Response)
  /\ requests' = Fresh(requests \cup {Sent("endorse", Response)}, {Response})
  /\ Kept /\ UNCHANGED <<page, count>>

\* The thread is closed or reopened: DiscussionThreadView hides or shows the
\* form of every response, whatever is being edited there.
ThreadToggled ==
  /\ area # "gone" /\ toggles < MaxToggles /\ toggles' = toggles + 1
  /\ closed' = ~closed /\ form' = closed
  /\ UNCHANGED <<area, edited, view, saved, count, requests, stored, acts>>

(***************************************************************************)
(* The server carries a request out or refuses it; what was deleted can    *)
(* not be deleted again.  The answer may be lost after the work was done:  *)
(* the page then sees an error.                                            *)
(***************************************************************************)
\* Mutated: the request is still waiting when its answer is there.
SettleTwice(r, answer) ==
  /\ r.answer = "pending"
  /\ requests' = requests \cup {[r EXCEPT !.answer = answer]}
  /\ UNCHANGED <<page, closed, count, acts, toggles>>

Settle(r, answer) ==
  /\ r.answer = "pending"
  /\ requests' = (requests \ {r}) \cup {[r EXCEPT !.answer = answer]}
  /\ UNCHANGED <<page, closed, count, acts, toggles>>

Handle(r, answer) ==
  /\ r.kind # "reply" /\ r.on \in Comment => r.on \in stored
  /\ Settle(r, answer)
  /\ stored' = CASE r.kind = "reply"  -> stored \cup {r.on}
                 [] r.kind = "delete" -> stored \ {r.on}
                 [] OTHER             -> stored

Refuse(r) == Settle(r, "no") /\ UNCHANGED stored

(***************************************************************************)
(* The answers.                                                            *)
(***************************************************************************)
Answered(r, S) ==
  /\ requests' = Fresh(requests \ {r}, S)
  /\ Kept /\ UNCHANGED acts

\* ThreadResponseShowView renders into the element it shares with the edit view,
\* each time the model of the response changes.
ShowsAgain == area' = IF area = "gone" THEN area ELSE "show"

\* Mutated: it ends the editing of the comments too.
ResponseUpdatedAll(r) ==
  /\ r.kind = "update" /\ r.on = Response /\ r.answer = "yes"
  /\ ShowsAgain /\ form' = TRUE /\ view' = CommentsAtRest
  /\ Answered(r, {Response} \cup Editing) /\ UNCHANGED <<edited, saved, count>>

\* The show view replaces the editor, and the form shows.
ResponseUpdated(r) ==
  /\ r.kind = "update" /\ r.on = Response /\ r.answer = "yes"
  /\ ShowsAgain /\ form' = TRUE
  /\ Answered(r, {Response}) /\ UNCHANGED <<edited, view, saved, count>>

CommentUpdated(r) ==
  /\ r.kind = "update" /\ r.on \in Comment /\ r.answer = "yes"
  /\ view' = [view EXCEPT ![r.on] = IF @ = "edit" THEN "show" ELSE @]
  /\ form' = TRUE
  /\ Answered(r, {r.on} \cap Editing) /\ UNCHANGED <<area, edited, saved, count>>

\* Mutated: the comment stays counted.
CommentDeletedCounted(r) ==
  /\ r.kind = "delete" /\ r.on \in Comment /\ r.answer = "yes"
  /\ view' = [view EXCEPT ![r.on] = "removed"]
  /\ Answered(r, {}) /\ UNCHANGED <<area, edited, saved, form, count>>

\* The comment is taken off the count and its element off the page, with the
\* editor that may have been opened in it.
CommentDeleted(r) ==
  /\ r.kind = "delete" /\ r.on \in Comment /\ r.answer = "yes"
  /\ view' = [view EXCEPT ![r.on] = "removed"]
  /\ count' = count - 1
  /\ Answered(r, {}) /\ UNCHANGED <<area, edited, saved, form>>

ReplySaved(r) ==
  /\ r.kind = "reply" /\ r.answer = "yes"
  /\ saved' = saved \cup {r.on}
  /\ Answered(r, {}) /\ UNCHANGED <<area, edited, view, form, count>>

\* A vote that succeeded and an endorsement that is undone change the model.
Rerendered(r) ==
  /\ <<r.kind, r.answer>> \in {<<"vote", "yes">>, <<"endorse", "no">>}
  /\ ShowsAgain
  /\ Answered(r, {Response}) /\ UNCHANGED <<edited, view, saved, form, count>>

\* Every other answer leaves the page alone: an alert at most.  What a failed
\* reply or a failed deletion of the response did before is not undone.
Ignored(r) ==
  /\ \/ r.answer = "no" /\ r.kind # "endorse"
     \/ r.answer = "yes" /\ (r.kind = "endorse" \/ (r.kind = "delete" /\ r.on = Response))
  /\ Answered(r, {}) /\ UNCHANGED <<page, count>>

Learner ==
  \/ EditResponse \/ CancelResponse \/ DeleteResponse \/ Vote \/ Endorse \/ ThreadToggled
  \/ \E c \in Comment : EditComment(c) \/ CancelComment(c) \/ SubmitComment(c) \/ DeleteComment(c)
  \/ \E e \in Element : Update(e)

Serve ==
  \E r \in requests : Refuse(r) \/ \E answer \in {"yes", "no"} : Handle(r, answer)

Answer ==
  \E r \in requests :
    \/ ResponseUpdated(r) \/ CommentUpdated(r) \/ CommentDeleted(r)
    \/ ReplySaved(r) \/ Rerendered(r) \/ Ignored(r)

Next == Learner \/ Serve \/ Answer

Spec == Init /\ [][Next]_vars
=============================================================================
