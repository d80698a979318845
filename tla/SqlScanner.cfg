\* Every input of the symbols, of any length.
SPECIFICATION Spec
INVARIANTS NoneMissed NoFalseAlarm
\* an input ends
CHECK_DEADLOCK FALSE
