\* Numbers of three bytes of four values; 47 and 59 are the safe primes with the top bit set.
SPECIFICATION Spec
CONSTANTS
    Base = 4
    Width = 3
    KeySize = 2
    Primes = {47, 59}
    Bases = {2, 3}
    Secrets = {0, 1, 5, 13, 22, 58}
    ByteXor <- MCXor
INVARIANTS
    TypeOK
    KeysAgree
