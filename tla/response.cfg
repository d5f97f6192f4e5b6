SPECIFICATION Spec
CONSTANTS
  c1 = c1
  c2 = c2
  n1 = n1
  n2 = n2
  Loaded <- TwoLoaded
  Reply <- TwoReplies
  MaxActs = 4
  MaxToggles = 1
SYMMETRY Symmetry
INVARIANT ResponseInvariant
INVARIANT OneEditView
INVARIANT CountShown
PROPERTY CommentEditorKept
CHECK_DEADLOCK FALSE
