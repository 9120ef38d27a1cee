SPECIFICATION FairSpec
CONSTANTS
    Hosts = {h1, h2}
    Ephemeral = {e1, e2}
    Retained = {r1}
    Migrated = {r1}
    None = None
    MaxFaults = 1
INVARIANTS HeldUntouched ReferredIntact
PROPERTIES PassTakesStale OperationsEnd
