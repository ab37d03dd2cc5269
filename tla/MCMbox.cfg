\* Calls of mbox_read with all kinds of timeouts, among them runs of calls that
\* all wait forever.
CONSTANTS
    s1 = s1
    s2 = s2
    s3 = s3
    NoSender = NoSender
    Senders = {s1, s2, s3}
    Timeouts = {"forever", "some", "zero"}
    MaxSend = 5
SPECIFICATION FairSpec
INVARIANTS
    NoUnwrittenRead
    NoLostWakeup
    ForeverGetsMessage
PROPERTIES
    AllRead
CHECK_DEADLOCK FALSE
