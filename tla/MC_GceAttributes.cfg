\* GetDeviceAttributes against the reference of spec 4.2 on every bounded input.
SPECIFICATION Spec
INVARIANTS AgreesWithSpec
