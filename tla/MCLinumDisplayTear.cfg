SPECIFICATION Spec
INVARIANT TearFree
