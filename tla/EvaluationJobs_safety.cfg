SPECIFICATION Spec
CONSTANTS
  Jobs = {j1, j2}
  Submissions = {s1}
  Workers = {w1, w2}
  Handlers = {}
  WakeCap = 1
  MaxEvidence = 1
  MaxFaults = 2
  None = None
INVARIANTS TypeOK OneRunnerPerJob OneResultPerJob SucceededHasOwnResult
PROPERTIES ImplementsContract QueuedIsPickedUp JobFinishesWithoutFault
