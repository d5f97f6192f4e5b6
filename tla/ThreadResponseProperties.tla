----------------------- MODULE ThreadResponseProperties -----------------------
(***************************************************************************)
(* What ThreadResponse promises, and what a test says of it.               *)
(***************************************************************************)
EXTENDS ThreadResponse

\* Every variable has its type, and a request waits once.
TypeOK ==
  /\ area \in {"show", "edit", "gone"}
  /\ {edited, form, closed} \subseteq BOOLEAN
  /\ view \in [Comment -> {"none", "show", "edit", "removed"}]
  /\ saved \subseteq Comment /\ stored \subseteq Comment
  /\ count \in Int
  /\ requests \subseteq Request
  /\ \A r, s \in requests : r.id = s.id => r = s
  /\ acts \in 0 .. MaxActs /\ toggles \in 0 .. MaxToggles

OpenEditors == {e \in Element : IF e = Response THEN area = "edit" ELSE view[e] = "edit"}

\* At most one edit view is open within the response, whatever is answered, in
\* whatever order, while the learner goes from one to the other.
OneEditView == Cardinality(OpenEditors) <= 1

\* The thread counts this response and the comments that the page shows under
\* it, through replies and deletions that are answered late, twice or never.
CountShown == area # "gone" => count = 1 + Cardinality(Shown)

\* An answer closes the editor of a comment only if it is about that comment:
\* what the learner types there survives the answers to everything else.
CommentEditorKept ==
  [][\A c \in Comment :
       view[c] = "edit" /\ view'[c] # "edit" =>
         \/ acts' > acts
         \/ \E r \in requests : r.on = c /\ r.answer = "yes" /\ r \notin requests']_vars

-----------------------------------------------------------------------------
(***************************************************************************)
(* The inductive invariant: with the types, what the requests that wait    *)
(* for an answer rely on.                                                  *)
(***************************************************************************)
\* A request has the number of the act that sent it.
Numbered == \A r \in requests : r.id < acts

\* A comment that is being sent is on the page and not saved, and is the only one.
Replying ==
  \A r \in requests : r.kind = "reply" =>
    /\ r.on \in Comment \ saved /\ view[r.on] # "none"
    /\ \A s \in requests : s.kind = "reply" => s = r

\* Only saved comments are deleted; the server says so once, and then the page
\* still shows the comment.
Deleting ==
  \A r \in requests : r.kind = "delete" /\ r.on \in Comment =>
    /\ r.on \in saved
    /\ r.answer = "yes" =>
         /\ r.on \notin stored /\ r.on \in Shown
         /\ \A s \in requests : s.kind = "delete" /\ s.on = r.on /\ s.answer = "yes" => s = r

\* The response's editor is open only if it was created, and then no other is.
Editors ==
  /\ area = "edit" => edited /\ Editing = {}
  /\ \A c, d \in Editing : c = d

\* A saved comment is or was on the page; one that left it was deleted.
Elements ==
  /\ \A c \in saved : view[c] # "none"
  /\ \A c \in Comment : view[c] = "removed" => c \in saved \ stored

\* What the page and the waiting requests rely on: the server deletes a
\* comment once, the page takes it off the count once, and an editor that
\* opens finds every other closed.
ResponseInvariant ==
  /\ TypeOK
  /\ Numbered /\ Replying /\ Deleting /\ Editors /\ Elements
  /\ CountShown
=============================================================================
