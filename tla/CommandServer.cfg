SPECIFICATION Spec
CONSTANTS
    c1 = c1
    c2 = c2
    c3 = c3
    Conn = {c1, c2, c3}
    Ask <- SafetyAsk
    Fd = {3, 4}
    Tty = {1}
    IoUring = {FALSE, TRUE}
    MaxRuns = 1
INVARIANTS NoMissedState AnswersTrue TtyOwned
CHECK_DEADLOCK FALSE
