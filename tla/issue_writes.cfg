SPECIFICATION FairSpec
CONSTANTS
 Issues = {1,2}
 Fields = {"state", "description"}
 State = "state"
 MaxCalls = 3
 MaxVersion = 3
 MaxOthers <- FamilyOthers
 Affects <- FamilyAffects
 Writes <- FamilyWrites
INVARIANTS TypeOK CalledOrder FulfilledSent ConflictsExpire
PROPERTIES  AllSettle
CHECK_DEADLOCK FALSE
