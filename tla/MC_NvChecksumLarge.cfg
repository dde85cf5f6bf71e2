\* Payloads of up to 2^19 words (1 MiB), built from runs of 1, 2^16 and
\* 2^17 words of 0x0001 or 0xFFFF.
CONSTANTS
  RunWords = {1, 65535}
  RunExps = {0, 16, 17}
  MaxWords = 524288
SPECIFICATION Spec
INVARIANT Checksum64MatchesReference
CHECK_DEADLOCK FALSE
