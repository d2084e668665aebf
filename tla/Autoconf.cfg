CONSTANTS
  wild = wild
  Wild <- wild
  Machines <- MCMachines
  Confs <- MCConfs
  MaxCards = 2
  Leftover <- MCLeftover
SPECIFICATION Spec
INVARIANTS
  CardOfItsOwn
  HoldingsBalanced
