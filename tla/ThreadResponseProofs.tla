------------------------- MODULE ThreadResponseProofs -------------------------
(***************************************************************************)
(* Proofs about ThreadResponse, for any comments, any number of acts and   *)
(* any order of the answers.                                               *)
(***************************************************************************)
EXTENDS ThreadResponseProperties, FiniteSetTheorems, TLAPS

-----------------------------------------------------------------------------
(***************************************************************************)
(* Requests.                                                               *)
(***************************************************************************)
\* What is said of a set of requests, of the saved and the stored comments and
\* of what the elements of the comments hold; the invariant says it of the
\* current ones.
Waits(rs, sv, st, vw, n) ==
  /\ rs \subseteq Request
  /\ \A r, s \in rs : r.id = s.id => r = s
  /\ \A r \in rs : r.id < n
  /\ \A r \in rs : r.kind = "reply" =>
       /\ r.on \in Comment \ sv /\ vw[r.on] # "none"
       /\ \A s \in rs : s.kind = "reply" => s = r
  /\ \A r \in rs : r.kind = "delete" /\ r.on \in Comment =>
       /\ r.on \in sv
       /\ r.answer = "yes" =>
            /\ r.on \notin st /\ vw[r.on] \in {"show", "edit"}
            /\ \A s \in rs : s.kind = "delete" /\ s.on = r.on /\ s.answer = "yes" => s = r

LEMMA WaitsNow ==
  ASSUME ResponseInvariant
  PROVE  Waits(requests, saved, stored, view, acts)
BY DEF ResponseInvariant, TypeOK, Numbered, Replying, Deleting, Shown, Waits

\* A view rendered again changes nothing but whether a request is live.
LEMMA Fields ==
  ASSUME NEW r \in Request, NEW S
  PROVE  LET q == [r EXCEPT !.live = @ /\ r.on \notin S]
         IN /\ q \in Request
            /\ q.id = r.id /\ q.kind = r.kind /\ q.on = r.on /\ q.answer = r.answer
BY DEF Request

LEMMA FreshWaits ==
  ASSUME NEW rs, NEW sv, NEW st, NEW vw, NEW n, NEW S, Waits(rs, sv, st, vw, n)
  PROVE  Waits(Fresh(rs, S), sv, st, vw, n)
<1> DEFINE Aged(r) == [r EXCEPT !.live = @ /\ r.on \notin S]
<1>1. \A q \in Fresh(rs, S) : \E r \in rs : q = Aged(r)
  BY DEF Fresh
<1>2. \A r \in rs : /\ Aged(r) \in Request
                    /\ Aged(r).id = r.id /\ Aged(r).kind = r.kind
                    /\ Aged(r).on = r.on /\ Aged(r).answer = r.answer
  BY Fields DEF Waits
<1> HIDE DEF Aged
<1>3. Fresh(rs, S) \subseteq Request
  BY <1>1, <1>2
<1>4. \A q, p \in Fresh(rs, S) : q.id = p.id => q = p
  BY <1>1, <1>2 DEF Waits
<1>5. \A q \in Fresh(rs, S) : q.id < n
  BY <1>1, <1>2 DEF Waits
<1>6. \A q \in Fresh(rs, S) : q.kind = "reply" =>
        /\ q.on \in Comment \ sv /\ vw[q.on] # "none"
        /\ \A p \in Fresh(rs, S) : p.kind = "reply" => p = q
  BY <1>1, <1>2 DEF Waits
<1>7. \A q \in Fresh(rs, S) : q.kind = "delete" /\ q.on \in Comment =>
        /\ q.on \in sv
        /\ q.answer = "yes" =>
             /\ q.on \notin st /\ vw[q.on] \in {"show", "edit"}
             /\ \A p \in Fresh(rs, S) :
                  p.kind = "delete" /\ p.on = q.on /\ p.answer = "yes" => p = q
  BY <1>1, <1>2 DEF Waits
<1> QED BY <1>3, <1>4, <1>5, <1>6, <1>7 DEF Waits

\* Fewer requests wait for less, and time does not matter.
LEMMA FewerWait ==
  ASSUME NEW rs, NEW sv, NEW st, NEW vw, NEW n \in Nat, NEW qs \in SUBSET rs,
         NEW k \in Nat, n <= k, Waits(rs, sv, st, vw, n)
  PROVE  Waits(qs, sv, st, vw, k)
<1>1. \A r \in qs : r.id \in Nat
  BY DEF Waits, Request
<1> QED BY <1>1 DEF Waits

\* What an act sends: not a reply, unless none is waiting; a comment is deleted
\* only when it is saved.
LEMMA OneMoreWaits ==
  ASSUME NEW rs, NEW sv, NEW st, NEW vw, NEW n \in Nat, NEW kind, NEW e,
         NEW r, r \in Request, r.id = n, r.kind = kind, r.on = e, r.answer = "pending",
         kind = "reply" =>
           e \in Comment \ sv /\ vw[e] # "none" /\ \A s \in rs : s.kind # "reply",
         kind = "delete" /\ e \in Comment => e \in sv,
         Waits(rs, sv, st, vw, n)
  PROVE  Waits(rs \cup {r}, sv, st, vw, n + 1)
<1>1. \A s \in rs : s.id \in Nat /\ s.id < n
  BY DEF Waits, Request
<1>2. \A s \in rs \cup {r} : s.id < n + 1
  BY <1>1
<1>3. \A s, q \in rs \cup {r} : s.id = q.id => s = q
  BY <1>1 DEF Waits
<1> QED BY <1>2, <1>3 DEF Waits

LEMMA SentTyped ==
  ASSUME acts \in 0 .. MaxActs, NEW kind \in {"update", "delete", "reply", "vote", "endorse"},
         NEW e \in Element
  PROVE  /\ Sent(kind, e) \in Request
         /\ Sent(kind, e).id = acts /\ Sent(kind, e).kind = kind
         /\ Sent(kind, e).on = e /\ Sent(kind, e).answer = "pending"
BY DEF Sent, Request

\* The elements of comments may change, as long as what is shown stays shown
\* and what is there stays there.
LEMMA OtherViewsWait ==
  ASSUME NEW rs, NEW sv, NEW st, NEW vw, NEW n, NEW ww,
         \A c \in Comment : vw[c] \in {"show", "edit"} => ww[c] \in {"show", "edit"},
         \A c \in Comment : vw[c] # "none" => ww[c] # "none",
         Waits(rs, sv, st, vw, n)
  PROVE  Waits(rs, sv, st, ww, n)
BY DEF Waits

-----------------------------------------------------------------------------
(***************************************************************************)
(* The page.                                                               *)
(***************************************************************************)
\* The invariant without what it says of the requests.
PageOK ==
  /\ area \in {"show", "edit", "gone"}
  /\ edited \in BOOLEAN /\ form \in BOOLEAN /\ closed \in BOOLEAN
  /\ view \in [Comment -> {"none", "show", "edit", "removed"}]
  /\ saved \subseteq Comment /\ stored \subseteq Comment
  /\ count \in Int
  /\ acts \in 0 .. MaxActs /\ toggles \in 0 .. MaxToggles
  /\ Editors /\ Elements
  /\ CountShown

LEMMA InvariantSplits ==
  ResponseInvariant <=> PageOK /\ Waits(requests, saved, stored, view, acts)
BY DEF ResponseInvariant, PageOK, TypeOK, Numbered, Replying, Deleting, Shown, Waits

LEMMA InvariantSplitsNext ==
  ResponseInvariant' <=> PageOK' /\ Waits(requests', saved', stored', view', acts')
BY DEF ResponseInvariant, PageOK, TypeOK, Numbered, Replying, Deleting, Shown, Waits

LEMMA ShownFinite == IsFiniteSet(Shown) /\ Cardinality(Shown) \in Nat
<1>1. IsFiniteSet(Comment)
  BY ResponseAssumption, FS_Union DEF Comment
<1> QED BY <1>1, FS_Subset, FS_CardinalityType DEF Shown

\* Views that change between showing and editing leave the count right.
LEMMA SameShown ==
  ASSUME \A c \in Comment : view[c] \in {"show", "edit"} <=> view'[c] \in {"show", "edit"}
  PROVE  Shown' = Shown
BY DEF Shown

LEMMA AtRestTyped ==
  ASSUME view \in [Comment -> {"none", "show", "edit", "removed"}]
  PROVE  /\ CommentsAtRest \in [Comment -> {"none", "show", "removed"}]
         /\ \A c \in Comment : view[c] \in {"show", "edit"} <=> CommentsAtRest[c] = "show"
         /\ \A c \in Comment : view[c] = "none" <=> CommentsAtRest[c] = "none"
BY DEF CommentsAtRest

-----------------------------------------------------------------------------
LEMMA InitHolds == ASSUME Init PROVE ResponseInvariant
<1>1. Shown = Loaded
  BY DEF Init, Shown, Comment
<1>2. Cardinality(Loaded) \in Nat /\ 1 + Cardinality(Loaded) \in Int
  BY ResponseAssumption, FS_CardinalityType
<1>3. Editors
  BY DEF Init, Editors, Editing
<1>4. CountShown
  BY <1>1 DEF Init, CountShown
<1>5. /\ view \in [Comment -> {"none", "show", "edit", "removed"}]
      /\ saved \subseteq Comment /\ stored \subseteq Comment
      /\ Elements
  BY DEF Init, Comment, Elements
<1>6. acts \in 0 .. MaxActs /\ toggles \in 0 .. MaxToggles
  BY ResponseAssumption DEF Init
<1>7. area = "show" /\ edited \in BOOLEAN /\ form \in BOOLEAN /\ closed \in BOOLEAN /\ count \in Int
  BY <1>2 DEF Init
<1>8. PageOK
  BY <1>3, <1>4, <1>5, <1>6, <1>7 DEF PageOK
<1>9. Waits(requests, saved, stored, view, acts)
  BY DEF Init, Waits
<1> QED BY <1>8, <1>9, InvariantSplits

-----------------------------------------------------------------------------
(***************************************************************************)
(* The learner.                                                            *)
(***************************************************************************)
LEMMA ActsTyped ==
  ASSUME PageOK, Acts
  PROVE  acts \in Nat /\ acts' = acts + 1 /\ acts' \in 0 .. MaxActs
BY ResponseAssumption DEF PageOK, Acts

\* An act that sends nothing: some views are rendered again.
LEMMA ActWaits ==
  ASSUME PageOK, Waits(requests, saved, stored, view, acts), Acts,
         NEW S, requests' = Fresh(requests, S),
         saved' = saved, stored' = stored,
         \A c \in Comment : view[c] \in {"show", "edit"} => view'[c] \in {"show", "edit"},
         \A c \in Comment : view[c] # "none" => view'[c] # "none"
  PROVE  Waits(requests', saved', stored', view', acts')
<1>1. acts \in Nat /\ acts' \in Nat /\ acts <= acts'
  BY ActsTyped
<1>2. Waits(requests, saved, stored, view, acts')
  BY <1>1, FewerWait
<1>3. Waits(requests, saved, stored, view', acts')
  BY <1>2, OtherViewsWait
<1> QED BY <1>3, FreshWaits

\* An act that sends one request.
LEMMA SendWaits ==
  ASSUME PageOK, Waits(requests, saved, stored, view, acts), Acts,
         NEW kind \in {"update", "delete", "reply", "vote", "endorse"}, NEW e \in Element,
         kind = "reply" =>
           e \in Comment \ saved /\ view'[e] # "none" /\ \A s \in requests : s.kind # "reply",
         kind = "delete" /\ e \in Comment => e \in saved,
         \A c \in Comment : view[c] \in {"show", "edit"} => view'[c] \in {"show", "edit"},
         \A c \in Comment : view[c] # "none" => view'[c] # "none"
  PROVE  Waits(requests \cup {Sent(kind, e)}, saved, stored, view', acts')
<1>1. acts \in Nat /\ acts' = acts + 1 /\ acts \in 0 .. MaxActs
  BY ActsTyped DEF PageOK
<1>2. Waits(requests, saved, stored, view', acts)
  BY OtherViewsWait
<1>3. /\ Sent(kind, e) \in Request
      /\ Sent(kind, e).id = acts /\ Sent(kind, e).kind = kind
      /\ Sent(kind, e).on = e /\ Sent(kind, e).answer = "pending"
  BY <1>1, SentTyped
<1>4. Waits(requests \cup {Sent(kind, e)}, saved, stored, view', acts + 1)
  BY <1>1, <1>2, <1>3, OneMoreWaits
<1> QED BY <1>1, <1>4

\* An act that leaves the page alone.
LEMMA QuietAct ==
  ASSUME PageOK, Acts, Kept, UNCHANGED <<page, count>>
  PROVE  PageOK' /\ view' = view /\ saved' = saved /\ stored' = stored
<1>1. acts' \in 0 .. MaxActs
  BY ActsTyped
<1>2. Shown' = Shown /\ Editing' = Editing
  BY DEF page, Shown, Editing
<1>3. Editors' /\ Elements' /\ CountShown'
  BY <1>2 DEF PageOK, Editors, Elements, CountShown, page, Kept
<1> QED BY <1>1, <1>3 DEF PageOK, Kept, page

LEMMA EditResponseKeeps ==
  ASSUME ResponseInvariant, EditResponse PROVE ResponseInvariant'
<1>0. PageOK /\ Waits(requests, saved, stored, view, acts)
  BY InvariantSplits
<1>1. Acts /\ acts' \in 0 .. MaxActs
  BY <1>0, ActsTyped DEF EditResponse
<1>2. /\ view' \in [Comment -> {"none", "show", "removed"}]
      /\ \A c \in Comment : view[c] \in {"show", "edit"} <=> view'[c] = "show"
      /\ \A c \in Comment : view[c] = "none" <=> view'[c] = "none"
  BY <1>0, AtRestTyped DEF PageOK, EditResponse
<1>3. Shown' = Shown /\ Editing' = {}
  BY <1>2 DEF Shown, Editing
<1>4. Editors'
  BY <1>3 DEF Editors, EditResponse
<1>5. CountShown'
  BY <1>0, <1>3 DEF PageOK, CountShown, EditResponse
<1>6. PageOK'
  BY <1>0, <1>1, <1>2, <1>4, <1>5 DEF PageOK, Elements, EditResponse, Kept
<1>7. Waits(requests', saved', stored', view', acts')
  BY <1>0, <1>1, <1>2, ActWaits DEF EditResponse, Kept
<1> QED BY <1>6, <1>7, InvariantSplitsNext

LEMMA CancelResponseKeeps ==
  ASSUME ResponseInvariant, CancelResponse PROVE ResponseInvariant'
<1>0. PageOK /\ Waits(requests, saved, stored, view, acts)
  BY InvariantSplits
<1>1. Acts /\ acts' \in 0 .. MaxActs
  BY <1>0, ActsTyped DEF CancelResponse
<1>2. Shown' = Shown /\ Editing' = Editing
  BY DEF Shown, Editing, CancelResponse
<1>3. Editors' /\ CountShown'
  BY <1>0, <1>2 DEF PageOK, Editors, CountShown, CancelResponse
<1>4. PageOK'
  BY <1>0, <1>1, <1>3 DEF PageOK, Elements, CancelResponse, Kept
<1>5. Waits(requests', saved', stored', view', acts')
  BY <1>0, <1>1, ActWaits DEF CancelResponse, Kept
<1> QED BY <1>4, <1>5, InvariantSplitsNext

\* The editor that opens finds no other: the response's is closed if it was
\* ever created, and all others are.
LEMMA EditCommentKeeps ==
  ASSUME ResponseInvariant, NEW c \in Comment, EditComment(c) PROVE ResponseInvariant'
<1>0. PageOK /\ Waits(requests, saved, stored, view, acts)
  BY InvariantSplits
<1>1. Acts /\ acts' \in 0 .. MaxActs
  BY <1>0, ActsTyped DEF EditComment
<1>2. /\ CommentsAtRest \in [Comment -> {"none", "show", "removed"}]
      /\ \A d \in Comment : view[d] \in {"show", "edit"} <=> CommentsAtRest[d] = "show"
      /\ \A d \in Comment : view[d] = "none" <=> CommentsAtRest[d] = "none"
  BY <1>0, AtRestTyped DEF PageOK
<1>3. view' = [CommentsAtRest EXCEPT ![c] = "edit"] /\ view[c] = "show"
  BY DEF EditComment
<1>4. /\ view' \in [Comment -> {"none", "show", "edit", "removed"}]
      /\ \A d \in Comment : view[d] \in {"show", "edit"} <=> view'[d] \in {"show", "edit"}
      /\ \A d \in Comment : view[d] = "none" <=> view'[d] = "none"
      /\ \A d \in Comment : view'[d] = "edit" <=> d = c
  BY <1>2, <1>3
<1>5. Shown' = Shown /\ Editing' = {c}
  BY <1>4 DEF Shown, Editing
<1>6. area' # "edit"
  BY <1>0 DEF PageOK, Editors, EditComment
<1>7. Editors'
  BY <1>5, <1>6 DEF Editors
<1>8. CountShown'
  BY <1>0, <1>5 DEF PageOK, CountShown, EditComment, Acts
<1>9. area' \in {"show", "edit", "gone"}
  BY <1>0 DEF PageOK, EditComment
<1>10. PageOK'
  BY <1>0, <1>1, <1>4, <1>7, <1>8, <1>9 DEF PageOK, Elements, EditComment, Kept
<1>11. PICK S : requests' = Fresh(requests, S)
  BY DEF EditComment
<1>12. Waits(requests', saved', stored', view', acts')
  BY <1>0, <1>1, <1>4, <1>11, ActWaits DEF EditComment, Kept
<1> QED BY <1>10, <1>12, InvariantSplitsNext

LEMMA CancelCommentKeeps ==
  ASSUME ResponseInvariant, NEW c \in Comment, CancelComment(c) PROVE ResponseInvariant'
<1>0. PageOK /\ Waits(requests, saved, stored, view, acts)
  BY InvariantSplits
<1>1. Acts /\ acts' \in 0 .. MaxActs
  BY <1>0, ActsTyped DEF CancelComment
<1>2. /\ view' \in [Comment -> {"none", "show", "edit", "removed"}]
      /\ \A d \in Comment : view[d] \in {"show", "edit"} <=> view'[d] \in {"show", "edit"}
      /\ \A d \in Comment : view[d] = "none" <=> view'[d] = "none"
      /\ \A d \in Comment : view'[d] = "edit" => view[d] = "edit"
  BY <1>0 DEF PageOK, CancelComment
<1>3. Shown' = Shown /\ Editing' \subseteq Editing
  BY <1>2 DEF Shown, Editing
<1>4. Editors' /\ CountShown'
  BY <1>0, <1>3 DEF PageOK, Editors, CountShown, CancelComment
<1>5. PageOK'
  BY <1>0, <1>1, <1>2, <1>4 DEF PageOK, Elements, CancelComment, Kept
<1>6. Waits(requests', saved', stored', view', acts')
  BY <1>0, <1>1, <1>2, ActWaits DEF CancelComment, Kept
<1> QED BY <1>5, <1>6, InvariantSplitsNext

\* Update, DeleteComment, Vote: something is sent, and nothing else.
LEMMA SendKeeps ==
  ASSUME ResponseInvariant, Acts, Kept, UNCHANGED <<page, count>>,
         NEW kind \in {"update", "delete", "vote"}, NEW e \in Element, Send(kind, e),
         kind = "delete" => e \in saved
  PROVE  ResponseInvariant'
<1>0. PageOK /\ Waits(requests, saved, stored, view, acts)
  BY InvariantSplits
<1>1. PageOK' /\ view' = view /\ saved' = saved /\ stored' = stored
  BY <1>0, QuietAct
<1>2. Waits(requests \cup {Sent(kind, e)}, saved, stored, view', acts')
  BY <1>0, <1>1, SendWaits
<1> QED BY <1>1, <1>2, InvariantSplitsNext DEF Send

LEMMA EndorseKeeps ==
  ASSUME ResponseInvariant, Endorse PROVE ResponseInvariant'
<1>0. PageOK /\ Waits(requests, saved, stored, view, acts) /\ Acts
  BY InvariantSplits DEF Endorse
<1>1. PageOK' /\ view' = view /\ saved' = saved /\ stored' = stored
  BY <1>0, QuietAct DEF Endorse
<1>2. Response \in Element
  BY DEF Element
<1>3. Waits(requests \cup {Sent("endorse", Response)}, saved, stored, view', acts')
  BY <1>0, <1>1, <1>2, SendWaits
<1>4. Waits(requests', saved, stored, view', acts')
  BY <1>3, FreshWaits DEF Endorse
<1> QED BY <1>1, <1>4, InvariantSplitsNext

\* The comment is shown and counted; it is sent unless another is on its way.
LEMMA SubmitCommentKeeps ==
  ASSUME ResponseInvariant, NEW c \in Comment, SubmitComment(c) PROVE ResponseInvariant'
<1>0. PageOK /\ Waits(requests, saved, stored, view, acts)
  BY InvariantSplits
<1>1. Acts /\ acts' \in 0 .. MaxActs
  BY <1>0, ActsTyped DEF SubmitComment
<1>2. /\ view' = [view EXCEPT ![c] = "show"] /\ view[c] = "none"
      /\ view \in [Comment -> {"none", "show", "edit", "removed"}]
  BY <1>0 DEF PageOK, SubmitComment
<1>3. /\ view' \in [Comment -> {"none", "show", "edit", "removed"}]
      /\ view'[c] = "show"
      /\ \A d \in Comment : d # c => view'[d] = view[d]
  BY <1>2
<1>4. Shown' = Shown \cup {c} /\ c \notin Shown /\ Editing' = Editing
  BY <1>2, <1>3 DEF Shown, Editing
<1>5. Cardinality(Shown') = Cardinality(Shown) + 1
  BY <1>4, ShownFinite, FS_AddElement
<1>6. Editors'
  BY <1>0, <1>4 DEF PageOK, Editors, SubmitComment
<1>7. CountShown' /\ count' \in Int
  BY <1>0, <1>5, ShownFinite DEF PageOK, CountShown, SubmitComment
<1>8. c \notin saved
  BY <1>0, <1>2 DEF PageOK, Elements
<1>9. Elements'
  BY <1>0, <1>3, <1>8 DEF PageOK, Elements, SubmitComment, Kept
<1>10. PageOK'
  BY <1>0, <1>1, <1>3, <1>6, <1>7, <1>9 DEF PageOK, Elements, SubmitComment, Kept
<1>11. \A d \in Comment : /\ view[d] \in {"show", "edit"} => view'[d] \in {"show", "edit"}
                          /\ view[d] # "none" => view'[d] # "none"
  BY <1>2, <1>3
<1>12. Waits(requests', saved, stored, view', acts')
  <2>1. CASE \E r \in requests : r.kind = "reply"
    <3>1. acts \in Nat /\ acts' \in Nat /\ acts <= acts'
      BY <1>0, <1>1, ActsTyped
    <3>2. requests' = requests
      BY <2>1 DEF SubmitComment
    <3>3. Waits(requests, saved, stored, view, acts')
      BY <1>0, <3>1, FewerWait
    <3> QED BY <1>11, <3>2, <3>3, OtherViewsWait
  <2>2. CASE ~ \E r \in requests : r.kind = "reply"
    <3>1. requests' = requests \cup {Sent("reply", c)}
      BY <2>2 DEF SubmitComment
    <3>2. c \in Element /\ c \in Comment \ saved /\ view'[c] # "none"
      BY <1>3, <1>8 DEF Element
    <3>3. \A r \in requests : r.kind # "reply"
      BY <2>2
    <3>4. Waits(requests \cup {Sent("reply", c)}, saved, stored, view', acts')
      BY <1>0, <1>1, <1>11, <3>2, <3>3, SendWaits
    <3> QED BY <3>1, <3>4
  <2> QED BY <2>1, <2>2
<1> QED BY <1>10, <1>12, InvariantSplitsNext DEF SubmitComment, Kept

\* The response is gone, and with it the count.
LEMMA DeleteResponseKeeps ==
  ASSUME ResponseInvariant, DeleteResponse PROVE ResponseInvariant'
<1>0. PageOK /\ Waits(requests, saved, stored, view, acts) /\ Acts
  BY InvariantSplits DEF DeleteResponse
<1>1. acts' \in 0 .. MaxActs
  BY <1>0, ActsTyped
<1>2. Cardinality(Loaded) \in Nat
  BY ResponseAssumption, FS_CardinalityType
<1>3. count' \in Int
  BY <1>0, <1>2 DEF PageOK, DeleteResponse
<1>4. Editing' = Editing
  BY DEF Editing, DeleteResponse
<1>5. Editors' /\ CountShown'
  BY <1>0, <1>4 DEF PageOK, Editors, CountShown, DeleteResponse
<1>6. PageOK'
  BY <1>0, <1>1, <1>3, <1>5 DEF PageOK, Elements, DeleteResponse, Kept
<1>7. Response \in Element /\ Response \notin Comment
  BY ResponseAssumption DEF Element
<1>8. Waits(requests \cup {Sent("delete", Response)}, saved, stored, view', acts')
  BY <1>0, <1>7, SendWaits DEF DeleteResponse
<1> QED BY <1>6, <1>8, InvariantSplitsNext DEF DeleteResponse, Send, Kept

LEMMA ThreadToggledKeeps ==
  ASSUME ResponseInvariant, ThreadToggled PROVE ResponseInvariant'
<1>0. PageOK /\ Waits(requests, saved, stored, view, acts)
  BY InvariantSplits
<1>1. toggles' \in 0 .. MaxToggles
  BY <1>0, ResponseAssumption DEF PageOK, ThreadToggled
<1>2. Shown' = Shown /\ Editing' = Editing
  BY DEF Shown, Editing, ThreadToggled
<1>3. Editors' /\ CountShown'
  BY <1>0, <1>2 DEF PageOK, Editors, CountShown, ThreadToggled
<1>4. closed' \in BOOLEAN /\ form' \in BOOLEAN
  BY <1>0 DEF PageOK, ThreadToggled
<1>5. PageOK'
  BY <1>0, <1>1, <1>3, <1>4 DEF PageOK, Elements, ThreadToggled
<1> QED BY <1>0, <1>5, InvariantSplitsNext DEF ThreadToggled

LEMMA LearnerKeeps ==
  ASSUME ResponseInvariant, Learner PROVE ResponseInvariant'
<1>1. CASE EditResponse
  BY <1>1, EditResponseKeeps
<1>2. CASE CancelResponse
  BY <1>2, CancelResponseKeeps
<1>3. CASE DeleteResponse
  BY <1>3, DeleteResponseKeeps
<1>4. CASE Vote
  <2>1. Response \in Element
    BY DEF Element
  <2> QED BY <1>4, <2>1, SendKeeps DEF Vote
<1>5. CASE Endorse
  BY <1>5, EndorseKeeps
<1>6. CASE ThreadToggled
  BY <1>6, ThreadToggledKeeps
<1>7. ASSUME NEW c \in Comment, EditComment(c) PROVE ResponseInvariant'
  BY <1>7, EditCommentKeeps
<1>8. ASSUME NEW c \in Comment, CancelComment(c) PROVE ResponseInvariant'
  BY <1>8, CancelCommentKeeps
<1>9. ASSUME NEW c \in Comment, SubmitComment(c) PROVE ResponseInvariant'
  BY <1>9, SubmitCommentKeeps
<1>10. ASSUME NEW c \in Comment, DeleteComment(c) PROVE ResponseInvariant'
  <2>1. c \in Element
    BY DEF Element
  <2> QED BY <1>10, <2>1, SendKeeps DEF DeleteComment
<1>11. ASSUME NEW e \in Element, Update(e) PROVE ResponseInvariant'
  BY <1>11, SendKeeps DEF Update
<1> QED BY <1>1, <1>2, <1>3, <1>4, <1>5, <1>6, <1>7, <1>8, <1>9, <1>10, <1>11 DEF Learner

-----------------------------------------------------------------------------
(***************************************************************************)
(* The server.                                                             *)
(***************************************************************************)
\* A request gets its answer: "yes" to the deletion of a comment only if the
\* comment was stored, and then it is not any more.
LEMMA SettledWaits ==
  ASSUME NEW rs, NEW sv, NEW st, NEW vw, NEW n, NEW r \in rs, NEW tt,
         NEW answer \in {"yes", "no"},
         \A c \in Comment : vw[c] \in {"none", "show", "edit", "removed"},
         \A c \in sv : vw[c] # "none",
         Waits(rs, sv, st, vw, n),
         r.answer = "pending",
         r.kind = "delete" /\ r.on \in Comment /\ answer = "yes" =>
           r.on \in st /\ r.on \notin tt /\ vw[r.on] # "removed",
         \A s \in rs : s.kind = "delete" /\ s.on \in Comment /\ s.on \notin st => s.on \notin tt
  PROVE  Waits((rs \ {r}) \cup {[r EXCEPT !.answer = answer]}, sv, tt, vw, n)
<1> DEFINE q == [r EXCEPT !.answer = answer]
<1>1. /\ q \in Request /\ q.id = r.id /\ q.kind = r.kind /\ q.on = r.on /\ q.answer = answer
  BY DEF Waits, Request
<1> HIDE DEF q
<1> DEFINE qs == (rs \ {r}) \cup {q}
<1>2. qs \subseteq Request /\ \A s \in qs : s.id < n
  BY <1>1 DEF Waits
<1>3. \A s, p \in qs : s.id = p.id => s = p
  BY <1>1 DEF Waits
<1>4. \A s \in qs : s.kind = "reply" =>
        /\ s.on \in Comment \ sv /\ vw[s.on] # "none"
        /\ \A p \in qs : p.kind = "reply" => p = s
  BY <1>1 DEF Waits
<1>5. \A s \in qs : s.kind = "delete" /\ s.on \in Comment => s.on \in sv
  BY <1>1 DEF Waits
<1>6. ASSUME NEW s \in qs, s.kind = "delete", s.on \in Comment, s.answer = "yes"
      PROVE  /\ s.on \notin tt /\ vw[s.on] \in {"show", "edit"}
             /\ \A p \in qs : p.kind = "delete" /\ p.on = s.on /\ p.answer = "yes" => p = s
  <2>1. CASE s = q
    <3>1. r.on \in st /\ r.on \notin tt /\ vw[r.on] \in {"show", "edit"}
      BY <1>1, <1>6, <2>1 DEF Waits
    <3>2. \A p \in rs : p.kind = "delete" /\ p.on = r.on => p.answer # "yes"
      BY <1>1, <1>6, <2>1, <3>1 DEF Waits
    <3> QED BY <1>1, <2>1, <3>1, <3>2
  <2>2. CASE s \in rs \ {r}
    <3>1. s.on \notin st /\ vw[s.on] \in {"show", "edit"}
      BY <1>6, <2>2 DEF Waits
    <3>2. s.on \notin tt
      BY <1>6, <2>2, <3>1
    <3>3. \A p \in rs : p.kind = "delete" /\ p.on = s.on /\ p.answer = "yes" => p = s
      BY <1>6, <2>2 DEF Waits
    <3>4. ~(q.kind = "delete" /\ q.on = s.on /\ q.answer = "yes")
      BY <1>1, <1>6, <3>1
    <3> QED BY <3>1, <3>2, <3>3, <3>4
  <2> QED BY <2>1, <2>2
<1>7. Waits(qs, sv, tt, vw, n)
  BY <1>2, <1>3, <1>4, <1>5, <1>6 DEF Waits
<1> QED BY <1>7 DEF q

\* What the server does leaves the page alone, stored comments excepted.
LEMMA ServerPage ==
  ASSUME PageOK, UNCHANGED <<page, closed, count, acts, toggles>>, stored' \subseteq Comment,
         \A c \in Comment : view[c] = "removed" => c \notin stored'
  PROVE  PageOK'
<1>1. Shown' = Shown /\ Editing' = Editing
  BY DEF page, Shown, Editing
<1>2. Editors' /\ Elements' /\ CountShown'
  BY <1>1 DEF PageOK, Editors, Elements, CountShown, page
<1> QED BY <1>2 DEF PageOK, page

LEMMA RefuseKeeps ==
  ASSUME ResponseInvariant, NEW r \in requests, Refuse(r) PROVE ResponseInvariant'
<1>0. PageOK /\ Waits(requests, saved, stored, view, acts)
  BY InvariantSplits
<1>1. stored' = stored /\ r.answer = "pending"
  BY DEF Refuse, Settle
<1>2. PageOK'
  BY <1>0, <1>1, ServerPage DEF PageOK, Elements, Refuse, Settle
<1>3. /\ \A c \in Comment : view[c] \in {"none", "show", "edit", "removed"}
      /\ \A c \in saved : view[c] # "none"
  BY <1>0 DEF PageOK, Elements
<1>4. Waits((requests \ {r}) \cup {[r EXCEPT !.answer = "no"]}, saved, stored, view, acts)
  BY <1>0, <1>1, <1>3, SettledWaits
<1> QED BY <1>1, <1>2, <1>4, InvariantSplitsNext DEF Refuse, Settle, page

LEMMA HandleKeeps ==
  ASSUME ResponseInvariant, NEW r \in requests, NEW answer \in {"yes", "no"}, Handle(r, answer)
  PROVE  ResponseInvariant'
<1>0. PageOK /\ Waits(requests, saved, stored, view, acts)
  BY InvariantSplits
<1>1. /\ Settle(r, answer) /\ r.answer = "pending"
      /\ r.kind # "reply" /\ r.on \in Comment => r.on \in stored
  BY DEF Handle, Settle
<1>2. /\ r.kind = "reply" => stored' = stored \cup {r.on}
      /\ r.kind = "delete" => stored' = stored \ {r.on}
      /\ r.kind \notin {"reply", "delete"} => stored' = stored
  BY DEF Handle
<1>3. r.kind = "reply" => r.on \in Comment \ saved
  BY <1>0 DEF Waits
<1>4. /\ \A c \in Comment : view[c] \in {"none", "show", "edit", "removed"}
      /\ \A c \in saved : view[c] # "none"
      /\ \A c \in Comment : view[c] = "removed" => c \in saved \ stored
      /\ stored \subseteq Comment
  BY <1>0 DEF PageOK, Elements
<1>5. /\ stored' \subseteq Comment
      /\ \A c \in Comment : view[c] = "removed" => c \notin stored'
  BY <1>2, <1>3, <1>4
<1>6. PageOK'
  BY <1>0, <1>1, <1>5, ServerPage DEF Settle
<1>7. \A s \in requests : s.kind = "delete" /\ s.on \in Comment /\ s.on \notin stored
                            => s.on \notin stored'
  <2>1. \A s \in requests : s.kind = "delete" /\ s.on \in Comment => s.on \in saved
    BY <1>0 DEF Waits
  <2> QED BY <2>1, <1>2, <1>3
<1>8. r.kind = "delete" /\ r.on \in Comment =>
        r.on \in stored /\ r.on \notin stored' /\ view[r.on] # "removed"
  BY <1>1, <1>2, <1>4
<1>9. Waits((requests \ {r}) \cup {[r EXCEPT !.answer = answer]}, saved, stored', view, acts)
  BY <1>0, <1>1, <1>4, <1>7, <1>8, SettledWaits
<1> QED BY <1>1, <1>6, <1>9, InvariantSplitsNext DEF Settle, page

LEMMA ServeKeeps == ASSUME ResponseInvariant, Serve PROVE ResponseInvariant'
BY RefuseKeeps, HandleKeeps DEF Serve

-----------------------------------------------------------------------------
(***************************************************************************)
(* The answers.                                                            *)
(***************************************************************************)
\* An answered request waits no longer.
LEMMA AnsweredWaits ==
  ASSUME PageOK, Waits(requests, saved, stored, view, acts), NEW r, NEW S, Answered(r, S),
         saved' = saved,
         \A c \in Comment : view[c] \in {"show", "edit"} => view'[c] \in {"show", "edit"},
         \A c \in Comment : view[c] # "none" => view'[c] # "none"
  PROVE  Waits(requests', saved', stored', view', acts')
<1>1. acts \in Nat /\ stored' = stored /\ acts' = acts /\ requests' = Fresh(requests \ {r}, S)
  BY ResponseAssumption DEF PageOK, Answered, Kept
<1>2. Waits(requests \ {r}, saved, stored, view, acts)
  BY <1>1, FewerWait
<1>3. Waits(requests \ {r}, saved, stored, view', acts)
  BY <1>2, OtherViewsWait
<1> QED BY <1>1, <1>3, FreshWaits

\* The response's element and the form may change; comments do not.
LEMMA ShowsAgainKeeps ==
  ASSUME ResponseInvariant, NEW r \in requests, NEW S, Answered(r, S),
         area' \in {area, "show"}, area = "gone" => area' = "gone",
         form' \in BOOLEAN, UNCHANGED <<edited, view, saved, count>>
  PROVE  ResponseInvariant'
<1>0. PageOK /\ Waits(requests, saved, stored, view, acts)
  BY InvariantSplits
<1>1. Shown' = Shown /\ Editing' = Editing
  BY DEF Shown, Editing
<1>2. Editors' /\ Elements' /\ CountShown'
  BY <1>0, <1>1 DEF PageOK, Editors, Elements, CountShown, Answered, Kept
<1>3. PageOK'
  BY <1>0, <1>2 DEF PageOK, Answered, Kept
<1>4. Waits(requests', saved', stored', view', acts')
  BY <1>0, AnsweredWaits
<1> QED BY <1>3, <1>4, InvariantSplitsNext

LEMMA CommentUpdatedKeeps ==
  ASSUME ResponseInvariant, NEW r \in requests, CommentUpdated(r) PROVE ResponseInvariant'
<1>0. PageOK /\ Waits(requests, saved, stored, view, acts)
  BY InvariantSplits
<1>1. /\ view' \in [Comment -> {"none", "show", "edit", "removed"}]
      /\ \A d \in Comment : view[d] \in {"show", "edit"} <=> view'[d] \in {"show", "edit"}
      /\ \A d \in Comment : view[d] = "none" <=> view'[d] = "none"
      /\ \A d \in Comment : view'[d] = "edit" => view[d] = "edit"
  BY <1>0 DEF PageOK, CommentUpdated
<1>2. Shown' = Shown /\ Editing' \subseteq Editing
  BY <1>1 DEF Shown, Editing
<1>3. Editors' /\ CountShown'
  BY <1>0, <1>2 DEF PageOK, Editors, CountShown, CommentUpdated
<1>4. Elements'
  BY <1>0, <1>1 DEF PageOK, Elements, CommentUpdated, Answered, Kept
<1>5. PageOK'
  BY <1>0, <1>1, <1>3, <1>4 DEF PageOK, CommentUpdated, Answered, Kept
<1>6. PICK S : Answered(r, S)
  BY DEF CommentUpdated
<1>7. Waits(requests', saved', stored', view', acts')
  BY <1>0, <1>1, <1>6, AnsweredWaits DEF CommentUpdated
<1> QED BY <1>5, <1>7, InvariantSplitsNext

\* The comment was on the page and the server said so once: one is taken off
\* the count.
LEMMA CommentDeletedKeeps ==
  ASSUME ResponseInvariant, NEW r \in requests, CommentDeleted(r) PROVE ResponseInvariant'
<1>0. PageOK /\ Waits(requests, saved, stored, view, acts)
  BY InvariantSplits
<1>1. r.kind = "delete" /\ r.on \in Comment /\ r.answer = "yes"
  BY DEF CommentDeleted
<1>2. /\ r.on \in saved \ stored /\ view[r.on] \in {"show", "edit"}
      /\ \A s \in requests : s.kind = "delete" /\ s.on = r.on /\ s.answer = "yes" => s = r
  BY <1>0, <1>1 DEF Waits
<1>3. /\ view' \in [Comment -> {"none", "show", "edit", "removed"}]
      /\ view'[r.on] = "removed"
      /\ \A d \in Comment : d # r.on => view'[d] = view[d]
  BY <1>0, <1>1 DEF PageOK, CommentDeleted
<1>4. Shown' = Shown \ {r.on} /\ r.on \in Shown /\ Editing' \subseteq Editing
  BY <1>1, <1>2, <1>3 DEF Shown, Editing
<1>5. Cardinality(Shown') = Cardinality(Shown) - 1
  BY <1>4, ShownFinite, FS_RemoveElement
<1>6. Editors'
  BY <1>0, <1>4 DEF PageOK, Editors, CommentDeleted
<1>7. CountShown' /\ count' \in Int
  BY <1>0, <1>5, ShownFinite DEF PageOK, CountShown, CommentDeleted
<1>8. Elements'
  BY <1>0, <1>2, <1>3 DEF PageOK, Elements, CommentDeleted, Answered, Kept
<1>9. PageOK'
  BY <1>0, <1>3, <1>6, <1>7, <1>8 DEF PageOK, CommentDeleted, Answered, Kept
<1>10. acts \in Nat /\ acts' = acts /\ saved' = saved /\ stored' = stored
  BY <1>0, ResponseAssumption DEF PageOK, CommentDeleted, Answered, Kept
<1>11. Waits(requests \ {r}, saved, stored, view, acts)
  BY <1>0, <1>10, FewerWait
<1>12. Waits(requests \ {r}, saved, stored, view', acts)
  BY <1>1, <1>2, <1>3, <1>11 DEF Waits
<1>13. Waits(requests', saved, stored, view', acts)
  BY <1>12, FreshWaits DEF CommentDeleted, Answered
<1> QED BY <1>9, <1>10, <1>13, InvariantSplitsNext

\* It was the only comment on its way.
LEMMA ReplySavedKeeps ==
  ASSUME ResponseInvariant, NEW r \in requests, ReplySaved(r) PROVE ResponseInvariant'
<1>0. PageOK /\ Waits(requests, saved, stored, view, acts)
  BY InvariantSplits
<1>1. /\ r.on \in Comment \ saved /\ view[r.on] # "none"
      /\ \A s \in requests : s.kind = "reply" => s = r
  BY <1>0 DEF Waits, ReplySaved
<1>2. Shown' = Shown /\ Editing' = Editing
  BY DEF Shown, Editing, ReplySaved
<1>3. Editors' /\ CountShown'
  BY <1>0, <1>2 DEF PageOK, Editors, CountShown, ReplySaved
<1>4. Elements'
  BY <1>0, <1>1 DEF PageOK, Elements, ReplySaved, Answered, Kept
<1>5. PageOK'
  BY <1>0, <1>1, <1>3, <1>4 DEF PageOK, ReplySaved, Answered, Kept
<1>6. acts \in Nat /\ acts' = acts /\ view' = view /\ stored' = stored
  BY <1>0, ResponseAssumption DEF PageOK, ReplySaved, Answered, Kept
<1>7. Waits(requests \ {r}, saved, stored, view, acts)
  BY <1>0, <1>6, FewerWait
<1>8. Waits(requests \ {r}, saved', stored, view, acts)
  BY <1>1, <1>7 DEF Waits, ReplySaved
<1>9. Waits(requests', saved', stored, view, acts)
  BY <1>8, FreshWaits DEF ReplySaved, Answered
<1> QED BY <1>5, <1>6, <1>9, InvariantSplitsNext

LEMMA AnswerKeeps == ASSUME ResponseInvariant, Answer PROVE ResponseInvariant'
<1>0. area \in {"show", "edit", "gone"} /\ form \in BOOLEAN
  BY DEF ResponseInvariant, TypeOK
<1>1. ASSUME NEW r \in requests, ResponseUpdated(r) PROVE ResponseInvariant'
  BY <1>0, <1>1, ShowsAgainKeeps DEF ResponseUpdated, ShowsAgain
<1>2. ASSUME NEW r \in requests, Rerendered(r) PROVE ResponseInvariant'
  BY <1>0, <1>2, ShowsAgainKeeps DEF Rerendered, ShowsAgain
<1>3. ASSUME NEW r \in requests, Ignored(r) PROVE ResponseInvariant'
  BY <1>0, <1>3, ShowsAgainKeeps DEF Ignored, page
<1> QED BY <1>1, <1>2, <1>3, CommentUpdatedKeeps, CommentDeletedKeeps, ReplySavedKeeps DEF Answer

-----------------------------------------------------------------------------
(***************************************************************************)
(* Theorems.                                                               *)
(***************************************************************************)
LEMMA StepKeeps ==
  ASSUME ResponseInvariant, [Next]_vars PROVE ResponseInvariant'
<1>1. CASE UNCHANGED vars
  BY <1>1 DEF vars, ResponseInvariant, TypeOK, Numbered, Replying, Deleting, Editors, Editing,
              Elements, Shown, CountShown
<1> QED BY <1>1, LearnerKeeps, ServeKeeps, AnswerKeeps DEF Next

\* The page and the requests that wait for an answer agree, whatever the
\* learner does and in whatever order safeAjax is answered.
THEOREM PageAndRequestsAgree == Spec => []ResponseInvariant
<1> QED BY InitHolds, StepKeeps, PTL DEF Spec

\* Content.removeComment takes every comment off the count exactly once, and
\* every comment shown under the response is counted.
THEOREM CountIsShown == Spec => []CountShown
<1>1. ResponseInvariant => CountShown
  BY DEF ResponseInvariant
<1> QED BY <1>1, PageAndRequestsAgree, PTL

\* edit, cancelEdit and cancelCommentEdits leave one editor open at most.
THEOREM OneEditorIsOpen == Spec => []OneEditView
<1>1. ASSUME ResponseInvariant PROVE OneEditView
  <2>1. \A e, d \in OpenEditors : e = d
    BY <1>1, ResponseAssumption DEF ResponseInvariant, Editors, Editing, OpenEditors, Element
  <2>2. CASE OpenEditors = {}
    BY <2>2, FS_EmptySet DEF OneEditView
  <2>3. CASE OpenEditors # {}
    <3>1. PICK e : OpenEditors = {e}
      BY <2>1, <2>3
    <3> QED BY <3>1, FS_Singleton DEF OneEditView
  <2> QED BY <2>2, <2>3
<1> QED BY <1>1, PageAndRequestsAgree, PTL

\* A step closes the editor of a comment for the learner or for its own answer.
LEMMA EditorCloses ==
  ASSUME ResponseInvariant, Next, NEW c \in Comment, view[c] = "edit", view'[c] # "edit"
  PROVE  \/ acts' > acts
         \/ \E r \in requests : r.on = c /\ r.answer = "yes" /\ r \notin requests'
<1>0. PageOK /\ Waits(requests, saved, stored, view, acts)
  BY InvariantSplits
<1>1. ASSUME NEW r \in requests, NEW S, Answered(r, S) PROVE r \notin requests'
  <2> DEFINE Aged(s) == [s EXCEPT !.live = @ /\ s.on \notin S]
  <2>1. \A q \in requests' : \E s \in requests \ {r} : q = Aged(s)
    BY <1>1 DEF Answered, Fresh
  <2>2. \A s \in requests : Aged(s).id = s.id
    BY <1>0, Fields DEF Waits
  <2> HIDE DEF Aged
  <2>3. \A q \in requests' : \E s \in requests \ {r} : q.id = s.id
    BY <2>1, <2>2
  <2> QED BY <1>0, <2>3 DEF Waits
<1>2. Acts => acts' > acts
  BY <1>0, ActsTyped
<1>3. CASE Learner
  <2>1. Acts \/ view' = view
    BY <1>3 DEF Learner, EditResponse, CancelResponse, DeleteResponse, Vote, Endorse,
                ThreadToggled, EditComment, CancelComment, SubmitComment, DeleteComment, Update
  <2> QED BY <1>2, <2>1
<1>4. CASE Serve
  <2>1. view' = view
    BY <1>4 DEF Serve, Refuse, Handle, Settle, page
  <2> QED BY <2>1
<1>5. CASE Answer
  <2>1. PICK r \in requests :
          \/ ResponseUpdated(r) \/ CommentUpdated(r) \/ CommentDeleted(r)
          \/ ReplySaved(r) \/ Rerendered(r) \/ Ignored(r)
    BY <1>5 DEF Answer
  <2>2. PICK S : Answered(r, S)
    BY <2>1 DEF ResponseUpdated, CommentUpdated, CommentDeleted, ReplySaved, Rerendered, Ignored
  <2>3. CASE CommentUpdated(r) \/ CommentDeleted(r)
    <3>1. r.answer = "yes" /\ r.on \in Comment
      BY <2>3 DEF CommentUpdated, CommentDeleted
    <3>2. \A d \in Comment : d # r.on => view'[d] = view[d]
      BY <1>0, <2>3 DEF PageOK, CommentUpdated, CommentDeleted
    <3> QED BY <1>1, <2>2, <3>1, <3>2
  <2>4. CASE ~(CommentUpdated(r) \/ CommentDeleted(r))
    <3>1. view' = view
      BY <2>1, <2>4 DEF ResponseUpdated, ReplySaved, Rerendered, Ignored, page
    <3> QED BY <3>1
  <2> QED BY <2>3, <2>4
<1> QED BY <1>3, <1>4, <1>5 DEF Next

\* No answer but its own closes the editor of a comment.
THEOREM EditorsAreKept == Spec => CommentEditorKept
<1>1. ASSUME ResponseInvariant, [Next]_vars
      PROVE  [\A c \in Comment :
                view[c] = "edit" /\ view'[c] # "edit" =>
                  \/ acts' > acts
                  \/ \E r \in requests : r.on = c /\ r.answer = "yes" /\ r \notin requests']_vars
  BY <1>1, EditorCloses
<1> QED BY <1>1, PageAndRequestsAgree, PTL DEF Spec, CommentEditorKept
=============================================================================
