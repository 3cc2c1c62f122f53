CONSTANTS
    s1 = s1
    s2 = s2
    s3 = s3
    Sessions = {s1, s2}
    LineBudget <- TwoSpeakers
SPECIFICATION Spec
SYMMETRY SpeakerSymmetry
INVARIANTS
    TypeOK
    SingleWriter
    WriterActive
    PerSenderOrder
    ReaderArmed
    RegistryExact
CHECK_DEADLOCK FALSE
