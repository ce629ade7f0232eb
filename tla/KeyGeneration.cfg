\* The same numbers: X may be shorter than its array.
SPECIFICATION Spec
CONSTANTS
    Base = 4
    Width = 3
    KeySize = 2
    Primes = {47, 59}
    Bases = {2, 3}
    Secrets = {0, 1, 5, 13, 22, 58}
    ByteXor <- MCXor
INVARIANTS
    PublishedX
