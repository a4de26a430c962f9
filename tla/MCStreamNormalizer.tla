-------------------------- MODULE MCStreamNormalizer --------------------------
(* The instances of StreamNormalizer that TLC checks. *)
EXTENDS StreamNormalizer

CONSTANT MaxLength       \* bound on the length of a stream

(* Every stream up to some length, the terminator last or missing. *)
MCStreams ==
  LET bodies == BoundedSeq(Event \ {"DONE"}, MaxLength)
  IN  bodies \cup {Append(s, "DONE") : s \in bodies}
=============================================================================
