\* Two workers, three uploads, clean-up of orphaned proofs.
SPECIFICATION StoreSpec
CONSTANTS
    Workers = {w1, w2}
    MaxKeys = 3
    NoKey = NoKey
    DeletedPrefixes = {"proofs"}
SYMMETRY Symmetry
INVARIANTS
    EvidenceIsKept
    LossIsReported
