SPECIFICATION Spec
CONSTANTS
  atom = atom
  box = box
  f1 = f1
  f2 = f2
  t1 = t1
  Nothing = Nothing
  Originals <- TwoDraggables
  FieldsOf <- TwoFields
  Reusable <- ReusableAtom
  Bases <- OneBase
  Copies = {c1, c2}
  MaxZ = 3
PROPERTY RestoredAsAnswered
