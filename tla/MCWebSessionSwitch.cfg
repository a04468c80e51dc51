CONSTANTS
    alice = alice
    bob = bob
    Users = {alice, bob}
    None = None
    MaxQueries = 2
    MaxInFlight = 2
SPECIFICATION Spec
INVARIANTS
    SwitchingClears
