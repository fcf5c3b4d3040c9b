---------------------------- MODULE MCSecretFile ----------------------------
(* Small instances of SecretFile: a short text and a longer one. *)
EXTENDS SecretFile, TLC

CONSTANTS w1, w2, short, long, i1, i2, i3

MCTwoWriters == {w1, w2}
MCTexts == {short, long}
MCLength == short :> 1 @@ long :> 2
MCInodes == {i1, i2, i3}
MCSymmetry == Permutations(MCInodes)
=============================================================================
