SPECIFICATION FairSpec
CONSTANTS
  f1 = f1
  f2 = f2
  Forwards <- MCForwards
  CaddyVaults <- MCCaddyVaults
  MaxVault = 2
  MaxFaults = 3
INVARIANTS
    NewVaultStaysQuiet
    NewVaultIsGuarded
PROPERTIES
    AbortRestoresAll
    PendingIsRecovered
