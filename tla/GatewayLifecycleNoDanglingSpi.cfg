SPECIFICATION Spec

CONSTANT Driver = "exe"

INVARIANT NoDanglingSpi
