CONSTANTS
    Mappings <- MCMappings
    Configs <- MCConfigs
SPECIFICATION Spec
INVARIANT NestedStaysNested
