CONSTANTS
    a = a  b = b  c = c  d = d  su = su  td = td
    NoId = NoId  NoResult = NoResult  Nobody = Nobody
    Ids = {a, b, c, d, su, td}
    Kinds = {"opaque", "full"}
    Runners = {"http", "grpc"}
    Tests <- AnyTests
SPECIFICATION FairSpec
INVARIANTS NoFailureLost SomeoneGoesOn
PROPERTIES Ends RunsMakeHeadway
