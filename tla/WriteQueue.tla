----------------------------- MODULE WriteQueue -----------------------------
(* Writing to one client: client_base::enqueue_write, resume_write, handle_write *)
(* and set_crypt_key (src/src/io/client_base.cpp).  Every byte put on the wire   *)
(* is named by its place in the order of encryption; a queued buffer is a range  *)
(* of places.  X_bug is a mutant of X.                                           *)
EXTENDS Naturals, Sequences

CONSTANTS
    Size,       \* kind of message |-> its bytes on the wire
    NoKey       \* the key of EVP_enc_null

ASSUME WriteQueueAssumption == \A k \in DOMAIN Size : Size[k] \in Nat \ {0}

VARIABLES
    key,        \* m_encrypt's key
    base,       \* bytes encrypted before that key was set
    wire,       \* the bytes encrypted so far: message, place in it, key, place in its stream
    writes,     \* m_writes: <<from, to, offs>> ranges of wire, m_bufoffs bytes of each sent
    sent,       \* places of wire given to the kernel, in that order
    shut        \* m_socket.shutdown() was called

writeVars == <<key, base, wire, writes, sent, shut>>

WriteInit ==
    /\ key = NoKey /\ base = 0
    /\ wire = <<>> /\ writes = <<>> /\ sent = <<>>
    /\ shut = FALSE

\* The message's bytes, under the key of this moment.
Encrypted(m) ==
    [i \in 1..Size[m.kind] |->
        [msg |-> m, nth |-> i, key |-> key,
         ks |-> IF key = NoKey THEN 0 ELSE Len(wire) - base + i]]

State(from, to, offs) == [from |-> from, to |-> to, offs |-> offs]

\* The first n unsent bytes of s.
Chunk(s, n) == [i \in 1..n |-> s.from + s.offs + i]

Left(s) == s.to - s.from - s.offs

\* The rest of the buffer is dropped after a short write.
Remaining_bug(s, n) == <<>>

\* A buffer sent to its end is not recognised as such.
NeverDone_bug(s, n) == <<State(s.from, s.to, s.offs + n)>>

\* What stays queued of s once n bytes are out.
Remaining(s, n) == IF n = Left(s) THEN <<>> ELSE <<State(s.from, s.to, s.offs + n)>>

\* A write that fails loses its buffer.
resume_write_bug(s, rest) ==
    \/ \E n \in 0..Left(s) :
          /\ sent' = sent \o Chunk(s, n)
          /\ writes' = Remaining(s, n) \o rest
          /\ UNCHANGED shut
    \/ /\ shut' = TRUE
       /\ writes' = rest
       /\ UNCHANGED sent

\* resume_write on a state in front of the states rest: some bytes go out, the
\* socket is full (n = 0), or the write fails.
resume_write(s, rest) ==
    \/ \E n \in 0..Left(s) :
          /\ sent' = sent \o Chunk(s, n)
          /\ writes' = Remaining(s, n) \o rest
          /\ UNCHANGED shut
    \/ /\ shut' = TRUE
       /\ writes' = <<s>> \o rest
       /\ UNCHANGED sent

\* A message is sent at once even if others wait.
WritesNow_bug == TRUE

\* !has_pending_write().
WritesNow == writes = <<>>

\* Encrypt now; send now only if nothing is waiting.
enqueue_write(m) ==
    LET s == State(Len(wire), Len(wire) + Size[m.kind], 0)
    IN /\ wire' = wire \o Encrypted(m)
       /\ \/ WritesNow /\ resume_write(s, writes)
          \/ /\ ~WritesNow
             /\ writes' = Append(writes, s)
             /\ UNCHANGED <<sent, shut>>

\* handle_write: the oldest buffer first.
handle_write ==
    /\ writes # <<>>
    /\ resume_write(Head(writes), Tail(writes))
    /\ UNCHANGED <<key, base, wire>>

\* Both ciphers start over with the new key; what is queued stays as it is.
set_crypt_key(k) ==
    /\ key' = k
    /\ base' = Len(wire')
=============================================================================
