SPECIFICATION MCSpec
CONSTANTS
    Scenes = {"tree", "shadow", "nested", "handlers"}
    child = child
    parent = parent
    leaf = leaf
    root = root
    host = host
    window = window
    other = other
    e1 = e1
    e2 = e2
    None = None
    Targets = {child, parent, leaf, root, host, window, other}
    Parent <- ParentOfTarget
    Nodes = {child, parent, leaf, root, host}
    ShadowRoots = {root}
    Closed = {root}
    Global = window
    Events = {e1, e2}
    Bubbling = {e1}
    Cancelable = {e1}
    Slots <- AllSlots
    OnSlots <- ErrorSlot
    Special <- ErrorSlot
    Handlers = {h1, h2}
    Callbacks = {f, g}
    Options <- AllOptions
    Canceling <- CancelingEvents
    MaxListeners = 3
    MaxDepth = 3
SYMMETRY CallbackSymmetry
INVARIANTS
    ListsAreSets
    NoListenerSkipped
    InFlight
    ErrorsAreReported
    ComposedPathHidesClosedTrees
PROPERTIES
    CallsAreDue
