SPECIFICATION Spec
CONSTANTS
    Transmittance <- MCTransmittance
    FilmConductance <- MCFilmConductance
    Shielding <- MCShielding
    Wavelengths <- MCWavelengths
    OhmScale = 60
    None = None
    MaxArray = 2500
    MaxLength = 3500
    Jobs <- MCJobs
    Scripts <- MCScripts
INVARIANTS
    TypeOK
    ScanFailsAtOnce
    ScanIsTheGrid
    CandidatesAreBest
    ForwardAgrees
    TolerancesHold
    ReportLostOnlyNearZero
    RepliesMatch
    TransportsAgree
