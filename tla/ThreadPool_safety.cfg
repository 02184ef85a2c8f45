SPECIFICATION Spec
CONSTANTS
    Workers = {w1, w2, w3}
    Tasks = {t1, t2, t3, t4}
    Main = main
    Null = null
SYMMETRY Symmetry
INVARIANTS
    ListOK
    OneOwner
    NoWorkerMissed
    NoWaiterMissed
    CleanExit
    IInv
PROPERTIES
    WaitIsBarrier
    KeepsPromise
