SPECIFICATION FairSpec
CONSTANTS
    Types = {t1}
    Cancellers = {c1}
    Owner = owner
    MaxTokens = 2
    MaxMessages = 2
INVARIANTS
    IndexesAgree
    RemovedOnce
    CancelAllCancels
    RefusedIsNeverDelivered
PROPERTIES
    ImplementsNewsletters
    CallsReturn
    NewsletterCloses
CHECK_DEADLOCK FALSE
