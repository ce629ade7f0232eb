---------------------------- MODULE KeyExchange -----------------------------
(* The key agreement between the daemon and a client that was given the         *)
(* generated server.ini: theme::crypto (src/src/io/uru_crypt.cpp) computes on   *)
(* OpenSSL numbers and stores them as byte arrays, and every conversion between *)
(* the two has a byte order and a width.  X_bug is a mutant of X.               *)
EXTENDS Integers, SequencesExt

CONSTANTS
    Base,       \* values of a byte (256)
    Width,      \* kKeySize: bytes of k, n, x and y (64)
    KeySize,    \* bytes of the session key and of srvSeed (7)
    Primes,     \* what BN_generate_prime_ex may yield: its top bit is set
    Bases,      \* crypt_g
    Secrets,    \* exponents a client may draw
    ByteXor(_, _)   \* of two bytes

\* Base to the power w.
Power[w \in Nat] == IF w = 0 THEN 1 ELSE Base * Power[w - 1]

Byte == 0..(Base - 1)
Bytes(w) == [1..w -> Byte]

ASSUME KeyExchangeAssumption ==
    /\ Base \in Nat \ {0, 1} /\ Width \in Nat \ {0} /\ KeySize \in 1..Width
    /\ Primes \subseteq Power[Width - 1]..(Power[Width] - 1)
    /\ Bases \subseteq Nat /\ Secrets \subseteq Nat
    /\ \A p, q \in Byte : ByteXor(p, q) \in Byte

VARIABLES
    phase,      \* "none", "stored", "loaded", "connected", "keyed", "agreed"
    made,       \* the numbers generate_keys computed: g, k, n
    config,     \* crypt_k, crypt_n and crypt_x, as the bytes that base64 carries
    keys,       \* m_cryptK and m_cryptN
    b, y,       \* the client's secret and the bytes it sends
    srv_seed, key,      \* make_server_key's results
    cli_key     \* the key the client derives

vars == <<phase, made, config, keys, b, y, srv_seed, key, cli_key>>

-----------------------------------------------------------------------------
(* OpenSSL's conversions. *)

BN_mod_exp(a, e, n) ==
    LET power[i \in Nat] == IF i = 0 THEN 1 % n ELSE (power[i - 1] * a) % n IN power[e]

\* Most significant byte first, and only as many bytes as the number needs.
BN_num_bytes(v) == CHOOSE w \in 0..Width : v < Power[w] /\ (w > 0 => v >= Power[w - 1])
BN_bn2bin(v) == [i \in 1..BN_num_bytes(v) |-> (v \div Power[BN_num_bytes(v) - i]) % Base]
BN_bin2bn(bytes) ==
    LET value[i \in 0..Len(bytes)] == IF i = 0 THEN 0 ELSE Base * value[i - 1] + bytes[i]
    IN value[Len(bytes)]

\* Least significant byte first.
BN_bn2lebinpad(v, w) == [i \in 1..w |-> (v \div Power[i - 1]) % Base]
BN_lebin2bn_bug(bytes) == BN_bin2bn(bytes)              \* the other byte order
BN_lebin2bn(bytes) == BN_bin2bn(Reverse(bytes))

Mixed(seed, srvSeed) == [i \in 1..KeySize |-> ByteXor(seed[i], srvSeed[i])]

-----------------------------------------------------------------------------
TypeOK ==
    /\ phase \in {"none", "stored", "loaded", "connected", "keyed", "agreed"}
    /\ phase # "none" =>
        /\ made \in [g : Bases, k : Primes, n : Primes]
        /\ config \in [k : Bytes(Width), n : Bytes(Width), x : Bytes(Width)]
    /\ phase \in {"loaded", "connected", "keyed", "agreed"} => keys \in [k : Nat, n : Nat]
    /\ phase \in {"connected", "keyed", "agreed"} => b \in Secrets /\ y \in Bytes(Width)
    /\ phase \in {"keyed", "agreed"} => srv_seed \in Bytes(KeySize) /\ key \in Bytes(KeySize)
    /\ phase = "agreed" => cli_key \in Bytes(KeySize)

Init ==
    /\ phase = "none"
    /\ made = <<>> /\ config = <<>> /\ keys = <<>>
    /\ b = 0 /\ y = <<>> /\ srv_seed = <<>> /\ key = <<>> /\ cli_key = <<>>

\* An array on the stack after BN_bn2bin: the bytes it does not write are what they were.
Stored_bug(v, stack) == BN_bn2bin(v)                    \* encodes as many bytes as were written
Stored(v, stack) == [i \in 1..Width |-> IF i <= BN_num_bytes(v) THEN BN_bn2bin(v)[i] ELSE stack[i]]

generate_keys ==
    /\ phase = "none" /\ phase' = "stored"
    /\ \E g \in Bases, k \in Primes, n \in Primes, stack \in Bytes(Width) :
        /\ made' = [g |-> g, k |-> k, n |-> n]
        /\ config' = [k |-> Stored(k, stack), n |-> Stored(n, stack),
                      x |-> Stored(BN_mod_exp(g, k, n), stack)]
    /\ UNCHANGED <<keys, b, y, srv_seed, key, cli_key>>

load_keys ==
    /\ phase = "stored" /\ phase' = "loaded"
    /\ keys' = [k |-> BN_bin2bn(config.k), n |-> BN_bin2bn(config.n)]
    /\ UNCHANGED <<made, config, b, y, srv_seed, key, cli_key>>

\* The client draws b and sends G**b%N, with G and N from its server.ini.
ClientConnects ==
    /\ phase = "loaded" /\ phase' = "connected"
    /\ b' \in Secrets
    /\ y' = BN_bn2lebinpad(BN_mod_exp(made.g, b', BN_bin2bn(config.n)), Width)
    /\ UNCHANGED <<made, config, keys, srv_seed, key, cli_key>>

make_server_key ==
    /\ phase = "connected" /\ phase' = "keyed"
    /\ Len(y) >= KeySize
    /\ srv_seed' \in Bytes(KeySize)
    /\ LET seed == BN_mod_exp(BN_lebin2bn(y), keys.k, keys.n)
       IN key' = Mixed(BN_bn2lebinpad(seed, Width), srv_seed')
    /\ UNCHANGED <<made, config, keys, b, y, cli_key>>

\* The client raises X to b and mixes in the seed of the reply.
ClientKeys ==
    /\ phase = "keyed" /\ phase' = "agreed"
    /\ LET seed == BN_mod_exp(BN_bin2bn(config.x), b, BN_bin2bn(config.n))
       IN cli_key' = Mixed(BN_bn2lebinpad(seed, Width), srv_seed)
    /\ UNCHANGED <<made, config, keys, b, y, srv_seed, key>>

\* The next client connects.
NextClient ==
    /\ phase = "agreed" /\ phase' = "loaded"
    /\ UNCHANGED <<made, config, keys, b, y, srv_seed, key, cli_key>>

Next == generate_keys \/ load_keys \/ ClientConnects \/ make_server_key \/ ClientKeys \/ NextClient

Spec == Init /\ [][Next]_vars

-----------------------------------------------------------------------------
X == BN_mod_exp(made.g, made.k, made.n)

\* Both ends derive the same session key, whatever the primes, the secret and the
\* seeds, if X fills its array (generate_keys, make_server_key).
KeysAgree == phase = "agreed" /\ BN_num_bytes(X) = Width => key = cli_key

\* The stored X is the number generate_keys computed: "X = g**K%N" (generate_keys).
PublishedX == phase # "none" => BN_bin2bn(config.x) = X
=============================================================================
