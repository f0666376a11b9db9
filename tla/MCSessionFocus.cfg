CONSTANT MaxFaults = 3
SPECIFICATION Spec
INVARIANTS
    TypeOK
    DimmedIsPaused
    OverWhenUnitIsGone
PROPERTIES
    PortalComesBack
    InputComesBack
