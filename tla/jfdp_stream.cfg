\* Three process numbers in turn, installs of one chunk, two faults.
SPECIFICATION StreamSpec
CONSTANTS
  Hosts = 3
  Chunks = 1
  MaxPayloadCells = 2
  MaxFaults = 2
INVARIANTS
  StreamTypeOK
PROPERTIES
  HandsOnWhatIsDue
  RequestsGetThrough
  LaterInstallsGetIn
