----------------------------- MODULE MCStoredSend -----------------------------
(* Bytes are 0 and 1, and the hash has the bits the table gives it.  A file of *)
(* zeros repeats its chunks, so that two workers store the same content.       *)
EXTENDS StoredSend, TLC

CONSTANTS w1, w2

MCTable == [b \in Byte |-> IF b = 0 THEN {} ELSE {0, 2}]
MCFiles == UNION {[1..n -> Byte] : n \in {0, 1, 6}}
WriterSymmetry == Permutations(Writers)
=============================================================================
