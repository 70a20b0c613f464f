CONSTANTS
    s1 = s1
    s2 = s2
    s3 = s3
    Objects <- MCObjects
    Codes = {Error, NoSuchFile}
    Messages = {m}
    Null = null
    Nowhere = nowhere
    Unspecified = unspecified
SPECIFICATION Spec
INVARIANT HasTheValueGiven
