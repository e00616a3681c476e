CONSTANTS
    Half <- MCHalf
    None = None
    Fields <- MCFields
    Configs <- MCConfigs
    Samples <- MCSamples
SPECIFICATION Spec
INVARIANT ForcedNonNull
