------------------------------- MODULE MCWal --------------------------------
(* Small instances of Wal for TLC: a payload q whose frame is as long as two  *)
(* frames of p, and one too large to be written.                              *)
EXTENDS Wal

CONSTANTS p, q, big

MCFrameLen(payload) == CASE payload = p -> 1 [] payload = q -> 2 [] payload = big -> 3
MCBatch == {<< >>, <<p>>, <<q>>, <<p, p>>, <<q, p>>, <<p, big>>}
=============================================================================
