\* Epochs: three threads compete for two slots, nested regions, every interleaving.
\* Callbacks: two callers, two slots, three contexts: full slots, refusals, swaps, drains.
\* A behaviour has one half alone: its threads and the other's contexts are the same values.
SPECIFICATION HalvesSpec
CONSTANTS
    Thread = {a, b, c}
    SlotCount = 2
    MaxEpoch = 3
    MaxNest = 2
    Caller = {p, q}
    CbSlotCount = 2
    Ctx = {a, b, c}
    NoCtx = NoCtx
    Int64Max = 6
    MaxSafe = 3
SYMMETRY Symmetry
INVARIANTS
    InductiveInv
    SafeBelowEntry
    AnswerStaysSafe
    SlotOwnedOnce
    CallbackInv
PROPERTIES
    SafeOnlyGrows
    DrainClears
    KeepsPromise
