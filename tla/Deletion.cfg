\* Two workers, two tenants, two subscriptions; every schedule of three faults.
CONSTANTS
  Workers = {w1, w2}
  NoWorker = NoWorker
  Tenants = {t1, t2}
  Subscriptions = {s1, s2}
  MaxAttempts = 2
  MaxFaults = 3
  EraseRepeatable = TRUE
SPECIFICATION FairSpec
INVARIANTS
  EraseBeforeIdentity
  EvidenceIsTrue
  NoOrphanBilling
  CompletedReceipt
  BlockerIsHonest
  IInv
PROPERTIES
  StaleWorkerWritesNothing
  ReceiptGrows
  SagaSpec
  DeletionSettles
  DeletionCompletes
