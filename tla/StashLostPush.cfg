\* A drop and a push at once.
CONSTANTS
    Process = {c1, c2}
    None = None
    MaxPush = 3
    MaxDrop = 2
SPECIFICATION Spec
PROPERTIES DropRemovesOne
