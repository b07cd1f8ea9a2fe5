\* No combination of arguments that is known to have no table.
CONSTANT Gaps = {}
SPECIFICATION Spec
INVARIANTS WellFormed SameRows NestedInParent
