SPECIFICATION SocketSpec
CONSTANTS
  Clients = {c1, c2, c3}
  Endpoints <- MCEndpoints
  MaxBlockers = 2
SYMMETRY Symmetry
INVARIANTS LocalIsAsked AlreadyOpenOnlyByRace
CHECK_DEADLOCK FALSE
