SPECIFICATION MCSpec
CONSTANTS
  Scenarios <- SafetyScenarios
  tableBarrierNumberLimit = 1
  Absent = Absent
  Parts = {"ddl", "feed", "etcd", "peer", "stream"}
CHECK_DEADLOCK FALSE
INVARIANTS CheckpointDurable HandledInOrder
PROPERTIES InOrder SyncPointConsistent LifeCycleSound StoreImplements
