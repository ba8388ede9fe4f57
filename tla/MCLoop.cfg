\* One backend, the loop, an administrator and a refresh in the background.
SPECIFICATION LoopFairSpec
CONSTANTS
    Backends = {b1}
    Admin = {admin}
    Background = {selection}
    SloLimit = 3
    OnCycleInterval = 2
    Threshold = 2
    Window = 1
    Cooldown = 1
    MaxJitter = 1
PROPERTIES
    HealthyIsRestored
    FailingIsNoticed
    KeyIsRestored
    CircuitRecovers
