CONSTANTS
  MAX_CONCURRENT_TASKS = 1
  MAX_NON_TASK_MESSAGES = 1
  InboxCapacity = 2
  Tasks = {t1, t2}
  VSOCK_MAX_RETRIES = 1
  MaxFaults = 1
  Faults = {"reset", "refuse", "timeout"}
  None = None
  Agents = {"lead", "worker"}
  Worker = "worker"
  Capacity = 1
  Limit = 1
  Sends <- ToWorker
  MaxMessages = 2
SPECIFICATION FairSpec
INVARIANTS TypeOK BoundedDelivery  ResponsesPaired
PROPERTIES  CallsAnswered
