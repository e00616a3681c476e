\* Every mapping over five paths with every pair of pins.
CONSTANTS
    Mappings <- MCMappings
    Configs <- MCConfigs
SPECIFICATION Spec
INVARIANTS
    TypeOK
    ContainersOwnTheirKey
    NothingLostSilently
    MappingDecides
    PinsBelowTopHonoured
    DefaultSortKeyIsDate
    SortKeysChecked
