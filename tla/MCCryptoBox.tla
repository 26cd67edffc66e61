----------------------------- MODULE MCCryptoBox -----------------------------
(* Small instances of CryptoBox: one or two handshakes per box, and enough
   messages under one key for the seen set to be pruned.                    *)
EXTENDS CryptoBox, TLC

CONSTANTS k1, k2, m1, m2, m3, m4, m5, m6

MCKeys == {k1, k2}
MCMsgs6 == {m1, m2, m3, m4, m5, m6}
MCSymmetry == Permutations(MCKeys) \cup Permutations(MCMsgs6)
==============================================================================
