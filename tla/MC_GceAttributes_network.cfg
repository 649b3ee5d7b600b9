\* A network path with a sign or spaces around the project number.
SPECIFICATION Spec
INVARIANTS NetworkPathStrict
