\* Two requests, one after the other.
CONSTANTS
    Hit = {h1, h2}
    Waiter = {w1, w2}
    Closer = {c1}
    Query <- MCQuery
    Expected <- MCExpected
    Path = "cb"
    Nobody = Nobody
    NoQuery = NoQuery
    None = None
    Canceled = Canceled
SPECIFICATION Spec
PROPERTIES StopsAfterFirst
