SPECIFICATION Spec
CONSTANT MaxInflight = 2
INVARIANT TypeOK
INVARIANT ExitsClean
INVARIANT ReportsFailures
PROPERTY AlwaysExits
CHECK_DEADLOCK FALSE
