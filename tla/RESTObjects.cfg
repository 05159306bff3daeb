SPECIFICATION Spec
INVARIANTS JsonKeeps RowsKeep
CHECK_DEADLOCK FALSE
