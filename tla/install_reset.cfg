\* One flash defect: what the boot after a reset of the library loads.
SPECIFICATION EndpointSpec
CONSTANTS
  appA = appA
  appB = appB
  a1 = a1
  a2 = a2
  b1 = b1
  Apps <- MCApps
  Bundles <- MCBundles
  NoBundle = NoBundle
  Erased = Erased
  Torn = Torn
  AppOf <- MCAppOf
  VersionOf <- MCVersionOf
  ChunksOf <- MCOneChunk
  WellFormed = {a1, a2, b1}
  InstallRequests <- MCInstallRequests
  MaxGeneration = 2
  MaxDamage = 1
INVARIANTS
  ResetIsTrusted
