\* The cluster changes up to three times during an import.
CONSTANTS
    Mappings <- MCMappings
    Policies = {p1, p2}
    Bodies <- MCBodies
    None = None
    MaxBacking = 2
    MaxChanges = 3
SPECIFICATION Spec
INVARIANTS
    TypeOK
    MappingWasEffective
    AdviceWasStored
