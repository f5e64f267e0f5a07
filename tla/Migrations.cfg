SPECIFICATION Spec
CONSTANTS
    Images = {3, 4}
    Sessions = {s1, s2, s3}
INVARIANTS
    TypeOK
    VersionsMeanSchema
    NamesSurvive
SYMMETRY Symmetry
