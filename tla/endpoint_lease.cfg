\* Installs while an App runs.
SPECIFICATION EndpointSpec
CONSTANTS
  appA = appA
  appB = appB
  a1 = a1
  a2 = a2
  b1 = b1
  Apps <- MCApps
  Bundles <- MCBundles
  NoBundle = NoBundle
  Erased = Erased
  Torn = Torn
  AppOf <- MCAppOf
  VersionOf <- MCVersionOf
  ChunksOf <- MCChunksOf
  WellFormed = {a1, a2, b1}
  InstallRequests <- MCInstallRequests
  MaxGeneration = 3
  MaxDamage = 0
INVARIANTS
  LeaseIsImmutable
