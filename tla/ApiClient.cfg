\* Every operation, every set of arguments, every kind of answer.
SPECIFICATION Spec
CONSTANT Values <- Ids
INVARIANTS TypeOK  DataIsOfItsType OutcomeIsKnown
