CONSTANTS
    MaxFaults = 2
SPECIFICATION FairSpec
INVARIANT TypeOK
PROPERTIES EntryWasEarned RefusalWasTrue RequestsLeaveRefused InUseGetsIn
