\* Two Apps, three launches, three jobs, at most two operations to a flush; the default
\* policy, and flushing on suspension.
SPECIFICATION KvSpec
CONSTANTS
  Apps = {a, b}
  Keys = {k, l}
  Values = {1, 2}
  MaxItems = 2
  MaxBytes = 4
  MaxFlushOps = 2
  Policy = {"flush_pending_on_suspend", "flush_pending_on_exit", "flush_pending_on_update",
            "drop_pending_on_crash", "drop_pending_on_memory_pressure",
            "delete_data_on_uninstall", "keep_data_on_update"}
  MaxJobs = 3
  MaxInstances = 3
INVARIANTS
  KvTypeOK
  ReportsAreTrue
PROPERTIES
  AppliesInOrder
