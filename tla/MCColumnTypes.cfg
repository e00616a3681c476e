\* Every field, in every place, with up to two things said about it in the config.
CONSTANTS
    Half <- MCHalf
    None = None
    Fields <- MCFields
    Configs <- MCConfigs
    Samples <- MCSamples
SPECIFICATION Spec
INVARIANTS
    TypeOK
    TypesAccepted
    NarrowingUniform
    CodecFits
    OverrideDecides
    NarrowingIsSaid
    AdviceIsFollowed
