SPECIFICATION FairSpec
CONSTANTS
    Kinds <- MainKinds
    CountArgs <- MainCounts
    BankArgs <- MainBanks
    ThreadMax = 6
    Null = null
INVARIANTS
    TypeOK
    QueuesOK
    LockOK
    AlarmKept
    SignalsBlocked
    ResultsOK
PROPERTIES
    BalanceGuarded
    SignalSwitches
    LockIsFifo
    AllReturn
    LockIsFair
