----------------------- MODULE DragAndDropProperties -----------------------
(***************************************************************************)
(* What the drag-and-drop input promises.                                  *)
(***************************************************************************)
EXTENDS DragAndDrop

OnImage == {d \in ToSet(page.draggables) : page.obj[d].onTarget # Nothing}

\* Two sequences hold the same elements, each as often.
SameElements(s, r) ==
  \A e \in ToSet(s) \cup ToSet(r) :
    Cardinality({i \in DOMAIN s : s[i] = e}) = Cardinality({i \in DOMAIN r : r[i] = e})

\* Every variable has its type; an answer names a draggable on something.
TypeOK ==
  /\ config \in [onePerTarget : BOOLEAN, hasty : BOOLEAN]
  /\ page.draggables \in Seq(Uid) /\ page.targets \in Seq(Target)
  /\ \A t \in Target : page.list[t] \in Seq(Uid)
  /\ \A d \in Uid :
       LET o == page.obj[d]
       IN /\ o.inContainer \in BOOLEAN /\ o.pressed \in BOOLEAN
          /\ o.onTarget \in Target \cup {Nothing}
          /\ o.onMe \in Nat /\ o.onIndex \in Nat /\ o.index \in Nat /\ o.z \in Nat
  /\ page.inSlider \in 0..Len(Originals)
  /\ moving \in Uid \cup {Nothing} /\ copying \subseteq Copies
  /\ <<>> \notin ToSet(input) \cup ToSet(restoring)

\* Every draggable and every target knows its own position in the array it
\* is kept in, and a draggable its position on its target: removeDraggable,
\* destroyTargetField and moveBackToSlider shift the positions of the others
\* by hand, and splice by the position they find.
PositionsMatch ==
  /\ \A i \in DOMAIN page.draggables : page.obj[page.draggables[i]].index = i
  /\ \A i \in DOMAIN page.targets : page.at[page.targets[i]] = i
  /\ \A t \in Target : \A i \in DOMAIN page.list[t] :
       /\ page.obj[page.list[t][i]].onTarget = t
       /\ page.obj[page.list[t][i]].onIndex = i
  /\ \A d \in OnImage : d \in ToSet(page.list[page.obj[d].onTarget])

\* The counters agree with what they count: numDraggablesOnMe, for which a
\* draggable refuses to be picked up, with the draggables on its fields, and
\* numDraggablesInSlider, by which the slider scrolls, with the originals in it.
CountersMatch ==
  /\ \A d \in ToSet(page.draggables) :
       page.obj[d].onMe =
         Cardinality({e \in OnImage : /\ IsField(page.obj[e].onTarget)
                                      /\ Holder(page.obj[e].onTarget) = d})
  /\ page.inSlider = Cardinality({d \in Original : page.obj[d].inContainer})

\* For a learner who waits for a copy to appear, a drop leaves in the input
\* one chain for every draggable that stands on the image, down to a base
\* target (checkLandingElement updates the input as its last act).
ImageAnswered ==
  /\ Len(input) = Cardinality(OnImage)
  /\ \A d \in OnImage :
       Cardinality({i \in DOMAIN input : input[i] = Chain(page, d)})
         = Cardinality({e \in OnImage : Chain(page, e) = Chain(page, d)})
Rendered == page' = FreshPage /\ input' = input
DropAnswered ==
  [][~config.hasty /\ moving # Nothing /\ moving' = Nothing /\ ~Rendered
       => ImageAnswered']_vars

\* For a learner who waits: the draggables on a target lie in a strict order,
\* so that one is on top (correctZIndexes, cycleDraggableOrder).
StackOrder ==
  ~config.hasty =>
    \A t \in Target : \A d, e \in ToSet(page.list[t]) :
      d # e => page.obj[d].z # page.obj[e].z

\* When the problem is rendered with an answer, restoring it puts on the image
\* what the answer says ("Check if input has an answer from server. If yes,
\* then position all draggables according to answer.").
RestoredAsAnswered ==
  [][restoring # <<>> /\ restoring' = <<>> => SameElements(Answer(page'), input)]_vars

\* The restoration is over: with its last chain, or at once when render finds
\* nothing that it would put back.
Restored == restoring' = <<>> /\ (restoring # <<>> \/ Rendered)

\* Chains that repositionDraggables admits: "For now we support only one case."
Shallow(answer) == \A c \in ToSet(answer) : Depth(c) <= 3

\* It does so, whatever was copied, moved and nested before, for an answer that
\* names no chain twice and in which nothing stands on a draggable that itself
\* stands on another; an answer that is not put back at all would count.
DistinctRestored ==
  [][Restored /\ IsInjective(input) /\ Shallow(input)
       => SameElements(Answer(page'), input)]_vars

\* The same comment, of an answer of distinct chains however deep: the input,
\* which the drops wrote, may hold chains that repositionDraggables refuses.
DeepRestored ==
  [][Restored /\ IsInjective(input) => SameElements(Answer(page'), input)]_vars
=============================================================================
