CONSTANTS
    UINT64_MAX = 31
    INT_MAX = 3
    NS_PER_S = 4
    NS_PER_MS = 2
    NS_PER_US = 1
    MaxNow = 24
    MaxAddresses = 2
    MaxOpens = 2
    MaxRounds = 2
    InitialFrameMax = 128
    Channel = {515}
    PortNumber <- MCPortNumber
    Urls <- MCUrls
    Spelling <- MCSpelling
    Timeouts <- MCTimeouts
    Certificates <- MCCertificates
    DefaultProperties <- MCDefault
    Tables <- MCTables
    Offers <- MCOffers
    Credentials <- MCCredentials
    VirtualHosts <- MCVirtualHosts
    Value <- MCValue
    PropertyFlags <- MCFlags
    BodyLength <- MCBodyLength
SPECIFICATION Spec
INVARIANTS
    UrlRoundTrip
    ResourcesHeld
    DeadlineKept
    HostAsReference
    TuningAgreed
    PropertiesKept
    SurvivesWire
    FitsBuffer
    AnswerComes
    PublishedWhole
PROPERTIES
    CallReturns
    ControlSpec
