CONSTANTS
    q1 = q1  r1 = r1  f1 = f1  Nil = Nil
    Requests = {q1}
    Readers = {r1}
    Forged = {f1}
    Results <- SomeResults
    NoResults <- Placeholder
    Validity = 2  PerSecond = 2
    MaxTime = 2  MaxIssued = 2  MaxRestarts = 1
SPECIFICATION Spec
INVARIANTS TypeOK ListsNewestFirst VerifiableUntilExpiry NothingElseVerifies
PROPERTIES ResultsStay StoreIsAtomic
