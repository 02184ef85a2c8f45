SPECIFICATION FairSpec
CONSTANTS
    Workers = {w1, w2}
    Tasks = {t1, t2, t3}
    Main = main
    Null = null
PROPERTIES
    DestroyReturns
    KeepsFairPromise
