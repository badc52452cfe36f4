SPECIFICATION Spec
INVARIANTS TypeOK RowsReadable NothingLost PutsBalanced
