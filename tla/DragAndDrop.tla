---------------------------- MODULE DragAndDrop ----------------------------
(***************************************************************************)
(* The drag-and-drop input of a problem, common/static/js/capa/            *)
(* drag_and_drop, for an image with targets (individualTargets).  A        *)
(* draggable is dragged out of the slider onto a target; a draggable with  *)
(* target fields brings targets of its own onto the image (type 'on_drag') *)
(* on which others can be dropped; a reusable one leaves copies and stays  *)
(* in the slider.  Every drop rewrites the input element with the answer;  *)
(* when the problem is rendered again the page is rebuilt from the input.  *)
(*                                                                         *)
(* The state of the code is one graph of objects that point at each other  *)
(* and at their own position in arrays: `page' holds it, and the functions *)
(* of the code are operators from a page to a page.  Positions in arrays   *)
(* count from 1 here.  Icons have loaded before the learner acts, and the  *)
(* learner waits for the end of a restoration.                             *)
(***************************************************************************)
EXTENDS Naturals, FiniteSets, FiniteSetsExt, Sequences, SequencesExt

CONSTANTS
  Originals,   \* the ids of config.draggables, in the order of the slider
  Reusable,    \* those with can_reuse
  FieldsOf,    \* target_fields of each, as a sequence of field ids
  Bases,       \* the ids of config.targets, in order
  Copies,      \* the copies of reusable draggables the browser may hold at once
  MaxZ,        \* the z-index from which no draggable of the target is picked up
  Nothing

Original == ToSet(Originals)
Base == ToSet(Bases)
Uid == Original \cup Copies
Field == UNION {ToSet(FieldsOf[o]) : o \in Original}
Target == Base \cup (Uid \X Field)

ASSUME DragAssumption ==
  /\ IsFiniteSet(Copies) /\ Copies \cap Original = {}
  /\ Reusable \subseteq Original
  /\ DOMAIN FieldsOf = Original
  /\ IsInjective(Bases) /\ IsInjective(Originals)
  /\ \A o \in Original : IsInjective(FieldsOf[o])
  /\ MaxZ \in Nat /\ Nothing \notin Uid \cup Target

VARIABLES
  config,     \* onePerTarget, and whether the learner presses while a copy is made
  page,       \* the draggables, the targets, and how they point at each other
  moving,     \* state.currentMovingDraggable
  copying,    \* the copies whose icon is still loading
  input,      \* the answer in the input element: a sequence of chains of ids
  restoring   \* the chains of the answer not yet put back on the image

vars == <<config, page, moving, copying, input, restoring>>

Lifted == 1000

IsField(t) == t \notin Base
Holder(t) == t[1]

Draggable(o) ==
  [id |-> o, index |-> 0, inContainer |-> TRUE, pressed |-> FALSE, z |-> 1,
   onTarget |-> Nothing, onIndex |-> 0, onMe |-> 0, targetField |-> <<>>]

FreshPage ==
  [draggables |-> Originals,
   obj |-> [d \in Uid |->
              IF d \in Original
              THEN [Draggable(d) EXCEPT
                      !.index = CHOOSE i \in DOMAIN Originals : Originals[i] = d]
              ELSE Draggable(Nothing)],
   targets |-> Bases,
   at |-> [t \in Target |->
             IF t \in Base THEN CHOOSE i \in DOMAIN Bases : Bases[i] = t ELSE 0],
   list |-> [t \in Target |-> <<>>],
   inSlider |-> Len(Originals)]

Init ==
  /\ config \in [onePerTarget : BOOLEAN, hasty : BOOLEAN]
  /\ page = FreshPage
  /\ moving = Nothing /\ copying = {}
  /\ input = <<>> /\ restoring = <<>>

-----------------------------------------------------------------------------
(* Targets *)

\* What is left of s when the elements at the positions of S are spliced out.
Spliced(s, S) ==
  LET kept == SelectSeq([i \in DOMAIN s |-> i], LAMBDA i : i \notin S)
  IN [i \in DOMAIN kept |-> s[kept[i]]]

AddDraggable(p, t, d) ==
  LET on == [p EXCEPT !.list[t] = Append(@, d),
                      !.obj[d].onTarget = t,
                      !.obj[d].onIndex = Len(p.list[t]) + 1]
  IN IF IsField(t) THEN [on EXCEPT !.obj[Holder(t)].onMe = @ + 1] ELSE on

\* Mutated: numDraggablesOnMe is not taken down.
RemoveDraggableOnly(p, d) ==
  LET t == p.obj[d].onTarget
      i == p.obj[d].onIndex
      left == Spliced(p.list[t], {i})
  IN [p EXCEPT
        !.list[t] = left,
        !.obj = [e \in Uid |->
          IF e \in ToSet(left) /\ p.obj[e].onIndex > i
          THEN [p.obj[e] EXCEPT !.onIndex = @ - 1]
          ELSE p.obj[e]],
        !.obj[d].onTarget = Nothing,
        !.obj[d].onIndex = 0]

RemoveDraggable(p, d) ==
  LET t == p.obj[d].onTarget
      i == p.obj[d].onIndex
      left == Spliced(p.list[t], {i})
      off == [p EXCEPT
                !.list[t] = left,
                !.obj = [e \in Uid |->
                  IF e \in ToSet(left) /\ p.obj[e].onIndex > i
                  THEN [p.obj[e] EXCEPT !.onIndex = @ - 1]
                  ELSE p.obj[e]],
                !.obj[d].onTarget = Nothing,
                !.obj[d].onIndex = 0]
  IN IF IsField(t) THEN [off EXCEPT !.obj[Holder(t)].onMe = @ - 1] ELSE off

InitializeTargetField(p, d) ==
  LET fields == FieldsOf[p.obj[d].id]
      new == [i \in DOMAIN fields |-> <<d, fields[i]>>]
  IN IF p.obj[d].targetField # <<>> THEN p
     ELSE [p EXCEPT
             !.obj[d].targetField = new,
             !.targets = @ \o new,
             !.at = [t \in Target |->
                       IF t \in ToSet(new)
                       THEN Len(p.targets) + CHOOSE i \in DOMAIN new : new[i] = t
                       ELSE p.at[t]],
             !.list = [t \in Target |-> IF t \in ToSet(new) THEN <<>> ELSE p.list[t]]]

\* Mutated: the targets behind the removed ones keep their positions.
DestroyTargetFieldOnly(p, d) ==
  [p EXCEPT !.obj[d].targetField = <<>>,
            !.targets = Spliced(@, {p.at[t] : t \in ToSet(p.obj[d].targetField)})]

DestroyTargetField(p, d) ==
  LET own == ToSet(p.obj[d].targetField)
      removed == {p.at[t] : t \in own}
      left == Spliced(p.targets, removed)
  IN [p EXCEPT
        !.obj[d].targetField = <<>>,
        !.targets = left,
        !.at = [t \in Target |->
                  IF t \in ToSet(left) /\ own # {} /\ p.at[t] > Min(removed)
                  THEN p.at[t] - Cardinality(own)
                  ELSE p.at[t]]]

-----------------------------------------------------------------------------
(* Landing *)

CorrectZIndexes(p, d) ==
  LET others == {p.obj[e].z : e \in ToSet(p.list[p.obj[d].onTarget])} \ {Lifted}
  IN [p EXCEPT !.obj[d].z = 1 + Max(others \cup {0})]

SnapTo(p, d, t) ==
  LET from == p.obj[d].onTarget
      on == CASE from = Nothing -> AddDraggable(p, t, d)
              [] from = t       -> p
              [] OTHER          -> AddDraggable(RemoveDraggable(p, d), t, d)
  IN InitializeTargetField(CorrectZIndexes(on, d), d)

MoveBackToSlider(p, d) ==
  LET bare == DestroyTargetField(p, d)
      i == p.obj[d].index
      left == Spliced(p.draggables, {i})
  IN IF d \in Copies
     THEN [bare EXCEPT
             !.draggables = left,
             !.obj = [e \in Uid |->
               IF e \in ToSet(left) /\ p.obj[e].index > i
               THEN [bare.obj[e] EXCEPT !.index = @ - 1]
               ELSE bare.obj[e]],
             !.obj[d].index = 0]
     ELSE [bare EXCEPT !.obj[d].z = 1, !.obj[d].inContainer = TRUE]

\* Mutated: a copy is counted back into the slider.
TakenBackAny(p, d) ==
  LET off == IF p.obj[d].onTarget = Nothing THEN p ELSE RemoveDraggable(p, d)
  IN [MoveBackToSlider(off, d) EXCEPT !.inSlider = @ + 1]

TakenBack(p, d) ==
  LET off == IF p.obj[d].onTarget = Nothing THEN p ELSE RemoveDraggable(p, d)
      back == MoveBackToSlider(off, d)
  IN IF d \in Original THEN [back EXCEPT !.inSlider = @ + 1] ELSE back

\* The targets under the centre of d that checkIfOnTarget does not pass over.
Accepts(p, d, t) ==
  /\ ~(config.onePerTarget /\ Len(p.list[t]) = 1 /\ p.list[t][1] # d)
  /\ ~(IsField(t) /\ Holder(t) = d)

CheckLandingElement(p, d, under) ==
  LET found == SelectSeq(p.targets, LAMBDA t : t \in under /\ Accepts(p, d, t))
      up == [p EXCEPT !.obj[d].pressed = FALSE]
  IN IF found = <<>> THEN TakenBack(up, d) ELSE SnapTo(up, d, Head(found))

-----------------------------------------------------------------------------
(* The answer *)

\* addTargetRecursively: from d down to the base target, or <<>> when there
\* is none to end at and the code throws.
Chain(p, d) ==
  LET up[n \in 0..Cardinality(Uid)] ==
        [e \in Uid |->
           LET t == p.obj[e].onTarget
               below == up[n - 1][Holder(t)]
           IN CASE n = 0 \/ t = Nothing -> <<>>
                [] t \in Base -> <<p.obj[e].id, t>>
                [] OTHER -> IF below = <<>> THEN <<>>
                            ELSE <<p.obj[e].id, t[2]>> \o below]
  IN up[Cardinality(Uid)][d]

Answer(p) ==
  FlattenSeq([i \in DOMAIN p.targets |->
    [j \in DOMAIN p.list[p.targets[i]] |-> Chain(p, p.list[p.targets[i]][j])]])

Update(p) == IF <<>> \in ToSet(Answer(p)) THEN input ELSE Answer(p)

-----------------------------------------------------------------------------
(* The learner *)

\* A copy the browser has not made, or has made, removed and forgotten.
Unused(p) ==
  {c \in Copies \ (ToSet(p.draggables) \cup copying) :
     \A f \in Field : p.list[<<c, f>>] = <<>>}

Patient == config.hasty \/ copying = {}

MayPress(d) ==
  /\ restoring = <<>> /\ moving = Nothing /\ Patient
  /\ ~page.obj[d].pressed
  /\ page.obj[d].onMe = 0

Lift(p, d) ==
  [p EXCEPT !.obj[d].inContainer = FALSE, !.obj[d].pressed = TRUE, !.obj[d].z = Lifted]

MouseDownCopies(d) ==
  /\ MayPress(d)
  /\ page.obj[d].inContainer /\ d \in Reusable
  /\ Unused(page) # {}
  /\ LET c == CHOOSE c \in Unused(page) : TRUE
     IN /\ copying' = copying \cup {c}
        /\ page' = [page EXCEPT !.obj[c] = Draggable(d)]
  /\ UNCHANGED <<config, moving, input, restoring>>

CopyMade(p, c) ==
  [p EXCEPT !.draggables = Append(@, c), !.obj[c].index = Len(p.draggables) + 1]

\* The icon has loaded: the copy gets the mousedown event of its original.
CopyLoaded(c) ==
  /\ copying' = copying \ {c}
  /\ page' = Lift(CopyMade(page, c), c)
  /\ moving' = c
  /\ UNCHANGED <<config, input, restoring>>

MouseDown(d) ==
  /\ MayPress(d)
  /\ ~(page.obj[d].inContainer /\ d \in Reusable)
  /\ page.obj[d].z < MaxZ
  /\ LET out == [page EXCEPT !.inSlider = @ - 1]
     IN page' = Lift(IF page.obj[d].inContainer /\ d \in Original THEN out ELSE page, d)
  /\ moving' = d
  /\ UNCHANGED <<config, copying, input, restoring>>

\* Mutated: the input is written before the draggable has landed.
MouseUpEarly(d, under) ==
  /\ page.obj[d].pressed
  /\ page' = CheckLandingElement(page, d, under)
  /\ input' = Update(page)
  /\ moving' = Nothing
  /\ UNCHANGED <<config, copying, restoring>>

MouseUp(d, under) ==
  /\ page.obj[d].pressed
  /\ page' = CheckLandingElement(page, d, under)
  /\ input' = Update(page')
  /\ moving' = Nothing
  /\ UNCHANGED <<config, copying, restoring>>

\* Mutated: the draggables above the lowest stay where they are.
CycleLowest(t) ==
  LET zs == {page.obj[e].z : e \in ToSet(page.list[t])}
  IN /\ restoring = <<>> /\ moving = Nothing /\ Patient
     /\ ~config.onePerTarget
     /\ Len(page.list[t]) >= 2
     /\ page' = [page EXCEPT !.obj = [e \in Uid |->
          IF e \in ToSet(page.list[t]) /\ page.obj[e].z = Min(zs)
          THEN [page.obj[e] EXCEPT !.z = Max(zs)] ELSE page.obj[e]]]
     /\ UNCHANGED <<config, moving, copying, input, restoring>>

\* A click on the number of a target.
CycleDraggableOrder(t) ==
  LET zs == {page.obj[e].z : e \in ToSet(page.list[t])}
  IN /\ restoring = <<>> /\ moving = Nothing /\ Patient
     /\ ~config.onePerTarget
     /\ Len(page.list[t]) >= 2
     /\ page' = [page EXCEPT !.obj = [e \in Uid |->
          IF e \notin ToSet(page.list[t]) THEN page.obj[e]
          ELSE [page.obj[e] EXCEPT !.z = IF @ = Min(zs) THEN Max(zs) ELSE @ - 1]]]
     /\ UNCHANGED <<config, moving, copying, input, restoring>>

-----------------------------------------------------------------------------
(* The answer put back on the image *)

\* Chains of two draggables first, then those of one; a longer chain, and
\* nothing is restored.
Depth(c) == Len(c) - 1

Render ==
  /\ restoring = <<>>
  /\ page' = FreshPage
  /\ moving' = Nothing /\ copying' = {}
  /\ restoring' = IF \E c \in ToSet(input) : Depth(c) > 3 THEN <<>>
                  ELSE SelectSeq(input, LAMBDA c : Depth(c) = 3)
                       \o SelectSeq(input, LAMBDA c : Depth(c) = 1)
  /\ UNCHANGED <<config, input>>

FirstOf(p, S) ==
  LET found == SelectSeq(p.draggables, LAMBDA d : d \in S)
  IN IF found = <<>> THEN Nothing ELSE Head(found)

InContainer(p, id) ==
  FirstOf(p, {d \in ToSet(p.draggables) : p.obj[d].id = id /\ p.obj[d].inContainer})

Outside(p, id) == {d \in ToSet(p.draggables) : p.obj[d].id = id /\ ~p.obj[d].inContainer}

OnBase(p, id, b) == FirstOf(p, {d \in Outside(p, id) : p.obj[d].onTarget = b})

OnField(p, id, f, id2, b) ==
  FirstOf(p, {d \in Outside(p, id) :
                /\ IsField(p.obj[d].onTarget)
                /\ p.obj[d].onTarget[2] = f
                /\ p.obj[Holder(p.obj[d].onTarget)].id = id2
                /\ p.obj[Holder(p.obj[d].onTarget)].onTarget = b})

\* Mutated: a restored draggable gets no target field.
MoveDraggableBare(p, d, t) ==
  LET c == CHOOSE c \in Unused(p) : TRUE
      mover == IF d \in Reusable THEN c ELSE d
      made == IF d \in Reusable
              THEN CopyMade([p EXCEPT !.obj[c] = Draggable(d)], c)
              ELSE [p EXCEPT !.inSlider = @ - 1]
      on == AddDraggable([made EXCEPT !.obj[mover].inContainer = FALSE,
                                      !.obj[mover].z = Lifted], t, mover)
  IN CorrectZIndexes(on, mover)

MoveDraggableTo(p, d, t) ==
  LET c == CHOOSE c \in Unused(p) : TRUE
      mover == IF d \in Reusable THEN c ELSE d
      made == IF d \in Reusable
              THEN CopyMade([p EXCEPT !.obj[c] = Draggable(d)], c)
              ELSE [p EXCEPT !.inSlider = @ - 1]
      on == AddDraggable([made EXCEPT !.obj[mover].inContainer = FALSE,
                                      !.obj[mover].z = Lifted], t, mover)
  IN InitializeTargetField(CorrectZIndexes(on, mover), mover)

\* checkBaseDraggable
WithBase(p, id, b) ==
  IF OnBase(p, id, b) # Nothing THEN p ELSE MoveDraggableTo(p, InContainer(p, id), b)

\* checklayeredDraggable
WithLayered(p, id, f, id2, b) ==
  LET d == InContainer(p, id)
      t == <<OnBase(p, id2, b), f>>
  IN IF OnField(p, id, f, id2, b) # Nothing \/ d = Nothing \/ t \notin ToSet(p.targets)
     THEN p ELSE MoveDraggableTo(p, d, t)

ProcessAnswerTarget ==
  /\ restoring # <<>>
  /\ LET c == Head(restoring)
         id2 == c[Len(c) - 1]
         b == c[Len(c)]
         found == OnBase(page, id2, b) # Nothing \/ InContainer(page, id2) # Nothing
     IN IF ~found THEN restoring' = <<>> /\ UNCHANGED page
        ELSE /\ restoring' = Tail(restoring)
             /\ page' = IF Depth(c) = 1 THEN WithBase(page, id2, b)
                        ELSE WithLayered(WithBase(page, id2, b), c[1], c[2], id2, b)
  /\ UNCHANGED <<config, moving, copying, input>>

-----------------------------------------------------------------------------
\* What may be under the centre of a draggable.  Of targets that overlap one
\* is chosen, so that pairs add no landing.
Under == {{}} \cup {{t} : t \in ToSet(page.targets)}

Next ==
  \/ \E d \in ToSet(page.draggables) :
       \/ MouseDownCopies(d) \/ MouseDown(d)
       \/ \E under \in Under : MouseUp(d, under)
  \/ \E c \in copying : CopyLoaded(c)
  \/ \E t \in ToSet(page.targets) : CycleDraggableOrder(t)
  \/ Render
  \/ ProcessAnswerTarget

Spec == Init /\ [][Next]_vars
=============================================================================
