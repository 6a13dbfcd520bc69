---------------------------- MODULE FailureText ----------------------------
(***************************************************************************)
(* boundedFailure: what becomes of a handler's error text before Fail gets *)
(* it.  Bytes fall into classes: "a" an ASCII byte, "0" a NUL, "c" a        *)
(* continuation byte, and the first byte of a rune of three: "r" of some   *)
(* rune, "?" of U+FFFD, "." of the ellipsis.                               *)
(***************************************************************************)
EXTENDS Integers, SequencesExt

CONSTANT MaxFailureBytes    \* 4096 in the code

ASSUME FailureAssumption == MaxFailureBytes \in Nat /\ MaxFailureBytes >= 3

Replacement == <<"?", "c", "c">>
Suffix      == <<".", "c", "c">>

RuneStart(byte) == byte # "c"

\* Bytes of the rune that starts at i, 0 if none does.
Width(s, i) ==
  CASE s[i] \in {"a", "0"} -> 1
    [] s[i] \in {"r", "?", "."} /\ i + 2 <= Len(s) ->
         IF s[i + 1] = "c" /\ s[i + 2] = "c" THEN 3 ELSE 0
    [] OTHER -> 0

\* Byte i belongs to a rune: no rune has a first byte inside another one, so
\* that decoding from the left finds every rune that stands anywhere.
InRune(s, i) == \E k \in 0..2 : i - k \in DOMAIN s /\ Width(s, i - k) > k

\* utf8.ValidString
ValidString(s) == \A i \in DOMAIN s : InRune(s, i)

\* strings.ToValidUTF8: each run of invalid bytes becomes one U+FFFD.
ToValidUTF8(s) ==
  FlattenSeq([i \in DOMAIN s |->
    IF InRune(s, i) THEN <<s[i]>>
    ELSE IF i > 1 /\ ~InRune(s, i - 1) THEN <<>> ELSE Replacement])

WithoutNUL(s) ==
  FlattenSeq([i \in DOMAIN s |-> IF s[i] = "0" THEN Replacement ELSE <<s[i]>>])

Prefix(s, n) == SubSeq(s, 1, IF n < Len(s) THEN n ELSE Len(s))

\* A cut in the middle of a rune.
CutAnywhere(message) == Prefix(message, MaxFailureBytes - Len(Suffix))

\* The longest cut that leaves room for the suffix and ends before a rune.
Cut(message) ==
  LET room == Len(Prefix(message, MaxFailureBytes - Len(Suffix)))
      ends == {e \in 0..room : e = Len(message) \/ e = 0 \/ RuneStart(message[e + 1])}
  IN SubSeq(message, 1, CHOOSE e \in ends : \A d \in ends : d <= e)

\* A cut that leaves no mark.
boundedFailureUnmarked(source) == Cut(WithoutNUL(ToValidUTF8(source)))

boundedFailure(source) ==
  LET truncated == Len(source) > MaxFailureBytes
      kept == IF truncated THEN Prefix(source, MaxFailureBytes - Len(Suffix)) ELSE source
      message == WithoutNUL(ToValidUTF8(kept))
  IN IF ~truncated /\ Len(message) <= MaxFailureBytes THEN message
     ELSE Cut(message) \o Suffix

\* What validateFailure asks of a message.
validMessage(s) ==
  /\ Len(s) <= MaxFailureBytes
  /\ \A i \in DOMAIN s : s[i] # "0"
  /\ ValidString(s)
=============================================================================
