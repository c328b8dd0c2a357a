SPECIFICATION Spec
CONSTANTS
    c1 = c1
    c2 = c2
    c3 = c3
    Conn = {c1, c2}
    Ask <- LiveAsk
    Fd = {3, 4}
    Tty = {1}
    IoUring = {FALSE}
    MaxRuns = 2
PROPERTIES CallersServed
CHECK_DEADLOCK FALSE
