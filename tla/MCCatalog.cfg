SPECIFICATION FairSpec
CONSTANTS
    Writers = {w1, w2}
    Syncs = {s1}
    Refreshes = {r1}
    MaxEdits = 2
INVARIANT TypeOK
INVARIANT ConfirmedIsFresh
PROPERTY PhoneCatchesUp
