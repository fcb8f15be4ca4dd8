SPECIFICATION Spec
CONSTANT Uses <- MCUses
INVARIANTS TypeOK ReadsAsWritten Aligned VTablesShared PooledOnce
CHECK_DEADLOCK FALSE
