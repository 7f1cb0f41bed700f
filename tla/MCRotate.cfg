\* Two concurrent rotations that all keep the ledger, that do not, or that differ; the
\* provider can issue three more tokens, enough for both rotations to have a replacement
\* of the same token or for one to replace the replacement of the other.
CONSTANTS
    Rotator = {r1, r2}
    Token = {t0, t1, t2, t3}
    First = t0
    NoToken = NoToken
    NoResult = NoResult
    Configs <- MCConfigs
SYMMETRY MCSymmetry
SPECIFICATION Spec
INVARIANTS LiveTokenKnown ResultTruthful NoLockout
PROPERTIES CleansUp
