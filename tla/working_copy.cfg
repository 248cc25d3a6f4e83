SPECIFICATION Spec
CONSTANTS
  Absent = Absent
  NoText = NoText
  UserText = UserText
  Values <- AllValues
  Keys <- KeysInUse
  Malformed = {"lots"}
  Inputs <- AllInputs
  Edits <- FieldEdits
  Annotations <- AnnotationEdits
  Requirements <- ResourceEdits
  PodEdits <- PodFieldEdits
  MaxEdits = 2
INVARIANTS
  CompletionSettles
  HashIsCurrent
PROPERTIES
  ChosenValuesKept
  TemplateIsStable
