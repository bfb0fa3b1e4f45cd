SPECIFICATION Spec
CONSTANT MaxUpgrades = 1
INVARIANT BeaconResolved
CHECK_DEADLOCK FALSE
