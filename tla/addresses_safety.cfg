SPECIFICATION Spec
CONSTANTS
    Tests = {t1, t2}
    AddressSpace = 32
    NetworkSizes = {1, 2, 4, 8}
    SubnetStart = 12
    NoIp = NoIp
    t1 = t1
    t2 = t2
INVARIANTS
    TypeOK
    InductiveInvariant
    NoAddressHeldTwice
    AddressesFromOwnSubnet
    RefusedOnlyWhenAllTaken
