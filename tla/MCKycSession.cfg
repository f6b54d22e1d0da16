CONSTANTS
    Tasks = {t1, t2}
    None = None
SPECIFICATION SessionFairSpec
INVARIANT SessionTypeOK
PROPERTY TimerPageLeft
PROPERTY SubmitSettled
