SPECIFICATION FairSpec
CONSTANTS
    Fields = {"photo", "document", "video", "audio", "voice", "animation"}
INVARIANTS
    TypeOK
    AcceptedOnce
    NothingLeftOut
    BodiesAreClosed
PROPERTIES
    PassEnds
    ImplementsOneRun
