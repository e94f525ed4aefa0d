SPECIFICATION Spec
INVARIANTS BuiltAsSpecified LintersAgree ReadAsWritten Coherent CountsAreOfTheName
PROPERTIES RefusedChangesNothing ImplementsStore
