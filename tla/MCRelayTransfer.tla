--------------------------- MODULE MCRelayTransfer ---------------------------
(* Small files: a two-chunk file, a one-chunk file, one that belongs to a *)
(* space, one whose chunk is longer than a line, and empty ones, which    *)
(* are a manifest alone.                                                  *)
EXTENDS RelayTransfer, TLC

CONSTANTS s1, s2, pair, single, secret, large,
          Empty             \* the files without content

Counts == [f \in Files |-> IF f \in Empty THEN 0 ELSE IF f = pair THEN 2 ELSE 1]

Sizes == [f \in Files |-> IF f = large THEN MaxLine + 1 ELSE 1]

SenderSymmetry == Permutations(Senders)
=============================================================================
