\* Every interleaving of update, proof, commit, reset and power cut, with the
\* fairness of the boot and of boot-confirm's shell.
SPECIFICATION FairSpec
CONSTANTS
  None = None
  Empty = Empty
  Slots = {p2, p3}
  Polls = 2
INVARIANTS TypeOK RunningRootIntact TryStaysWhileProving
PROPERTY HealthyTryIsCommitted
CHECK_DEADLOCK FALSE
