SPECIFICATION Spec
CONSTANTS
    Name = {"a", "b", "c"}
    NumShards = 2
    ShardOf <- MCShardOf
    Batches <- MCBatches
    Cap = 4
    Raw = raw
INVARIANTS
    IdsAreNames
    NoRawSymbol
    IdsDeterministic
