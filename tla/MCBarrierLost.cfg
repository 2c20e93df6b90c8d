\* Two callbacks; nothing but their notification wakes the waiter.
CONSTANTS
    Callbacks = {c1, c2}
    LongLimit = TRUE
SPECIFICATION FairBarrierSpec
PROPERTY WaiterComesBack
\* Every thread ends.
CHECK_DEADLOCK FALSE
