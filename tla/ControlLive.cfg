SPECIFICATION LiveSpec
CONSTANTS
  Scenarios <- LiveScenarios
  tableBarrierNumberLimit = 2
  Absent = Absent
  Parts = {"ddl", "feed", "etcd", "peer"}
CHECK_DEADLOCK FALSE
PROPERTIES ChangefeedProgress WorkDrains
