CONSTANTS
    a = a  b = b  c = c  d = d  su = su  td = td
    NoId = NoId  NoResult = NoResult  Nobody = Nobody
    Ids = {a, b, c, d, su, td}
    Kinds = {"opaque", "object", "full"}
    Runners = {"http"}
    Tests <- BodyTests
SPECIFICATION Spec
INVARIANTS BodyAssertionsCount
