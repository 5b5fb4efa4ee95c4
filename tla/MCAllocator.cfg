\* Two registers and values enough to spill, fill and exhaust the slots.
CONSTANTS
    Regs = 2
    U16Max = 4
SPECIFICATION Spec
INVARIANTS
    TypeOK
    SlabsMirror
    InOrderUntilDrop
PROPERTIES
    ImplementsSpec
