\* A user at the keys or at the controls, with a sound card and without.
SPECIFICATION Spec
CONSTANTS
    Devices = {TRUE, FALSE}
    SliceTicks = 2
    FrameSlices = 2
    RingTicks = 17
    HighWater = 12
    CallbackTicks = 3
    MaxBehind = 2
    HostKeys = {"Shift", "Backspace", "Left"}
    MaxHeld = 2
    Room = 2
    Hands = {"keys", "buttons", "speed"}
    MaxPress = 3
CHECK_DEADLOCK FALSE
INVARIANTS
    KeysArrive
    PromisesKept
    PacedAsAsked
