CONSTANTS
  Kinds = {"upload", "download"}
  Size = 5
  ChunkSize = 2
  FieldLen = 2
  Window = 5
  MayDrop = TRUE
SPECIFICATION Spec
INVARIANTS FieldsAligned NeverCutShort
PROPERTIES BothReturn BothSucceed ImplementsOutcome
