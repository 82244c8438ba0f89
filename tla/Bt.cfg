SPECIFICATION BtFairSpec
CONSTANTS
  Peers = {P1, P2, P3}
  Anyone = Anyone
  None = None
  MaxPaired = 2
INVARIANTS InvitesRight ConnectionRight
PROPERTIES RoundEnds
