------------------------ MODULE RequestFingerprint ------------------------
(***************************************************************************)
(* The bytes requestFingerprint hashes.  Jobs takes the fingerprint for an *)
(* injective function of the request; SHA-256 is trusted with its part of  *)
(* that, and this is the rest of it: the framing of variable fields, the   *)
(* optional time and the wrapping of signed numbers into words.            *)
(***************************************************************************)
EXTENDS Jobs, Sequences

CONSTANTS
  Base,              \* values of a byte, 256
  WordBytes,         \* bytes of a 64-bit word, 8
  NanoBytes          \* bytes of a 32-bit word, 4

ASSUME WordAssumption ==
  Base \in Nat \ {0, 1} /\ WordBytes \in Nat \ {0} /\ NanoBytes \in Nat \ {0}

\* PutUint64 and PutUint32 after the conversion to an unsigned word.
BigEndian(n, width) == [i \in 1..width |-> (n \div Base ^ (width - i)) % Base]

\* A field without its length.
writeFingerprintFieldBare(field) == field

writeFingerprintField(field) == BigEndian(Len(field), WordBytes) \o field

\* The time as <<seconds since 1970, nanoseconds>>, NULL for the zero time.
hashInput(request) ==
  writeFingerprintField(request.queue) \o writeFingerprintField(request.kind)
    \o writeFingerprintField(request.payload)
    \o BigEndian(request.max_attempts, WordBytes)
    \o IF request.available_at = NULL THEN <<0>>
       ELSE <<1>> \o BigEndian(request.available_at[1], WordBytes)
                  \o BigEndian(request.available_at[2], NanoBytes)
=============================================================================
