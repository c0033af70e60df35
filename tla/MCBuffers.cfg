SPECIFICATION MCSpec
CHECK_DEADLOCK FALSE
INVARIANTS BytesExact ChainsSound NothingStalls ReferencesAddUp
PROPERTIES IsByteQueue BytesPass
