SPECIFICATION Spec
CONSTANTS
 Issues = {1}
 Fields = {"state","title"}
 State = "state"
 MaxCalls = 2
 MaxVersion = 4
 MaxOthers <- OneOther
 Affects <- NoAffects
 Writes <- FieldWrites
PROPERTIES NoLostUpdate
CHECK_DEADLOCK FALSE
