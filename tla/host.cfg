\* Two service workers compete for one handle slot, which retires at its second release,
\* against launches and terminations.  The bounds on launches and jobs make the model stop.
SPECIFICATION HostSpec
CONSTANTS
  Clients = {c1}
  AppScoped = AppScoped
  HandleScopes = {"client", "app"}
  ServiceWorkers = {w1, w2}
  InFlightCapacity = 2
  CompletionCapacity = 2
  HandleSlots = 1
  MaxHandleGeneration = 2
  MaxInstances = 2
  MaxJobs = 3
INVARIANTS
  JobsAnsweredOnce
  HandlesNameTheirOwners
  CurrentResultsAreLive
PROPERTIES
  InFlightRetires
CHECK_DEADLOCK FALSE
