CONSTANT MaxKey = 8
SPECIFICATION Spec
INVARIANTS WellFormed InsertBalanced
PROPERTY OnlyTheNode
CONSTRAINT Whole
