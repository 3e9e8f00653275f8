CONSTANTS
    Workers = {w1, w2}
    Masters = {m1}
    Checks = {good1, good2, good3, bad}
    Passes = {good1, good2, good3}
    nBatchSize = 2
SPECIFICATION Spec
INVARIANTS WaitIsSound MasterWillBeWoken
PROPERTY WaitReturns
