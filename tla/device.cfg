SPECIFICATION Spec
CONSTANT MaxErrors = 2
INVARIANTS ItemsComplete  LogoutAsked
\* An inspection ends.
CHECK_DEADLOCK FALSE
