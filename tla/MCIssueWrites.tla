--------------------------- MODULE MCIssueWrites ---------------------------
EXTENDS IssueWrites

Write(kind, ids, fields, versioned) ==
  [kind |-> kind, ids |-> ids, fields |-> fields, versioned |-> versioned]

(* Issue 2 is the parent of issue 1; another session writes the parent.    *)
FamilyAffects == [i \in Issues |-> IF i = 1 THEN {2} ELSE {}]

FamilyOthers == [i \in Issues |-> IF i = 1 THEN 0 ELSE 1]

FamilyWrites ==
  {Write("fields", {1}, {"state"}, FALSE), Write("fields", {2}, {"state"}, TRUE), Write("document", {2}, {"description"}, TRUE),
   Write("write", {1, 2}, {"state"}, FALSE), Write("write", {2}, {}, FALSE)}

NoAffects == [i \in Issues |-> {}]

OneOther == [i \in Issues |-> 1]

FieldWrites == {Write("fields", {i}, {f}, TRUE) : i \in Issues, f \in Fields}
=============================================================================
