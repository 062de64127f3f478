---------------------------- MODULE MCQuicStreams ----------------------------
(* Streams are interchangeable: nothing but their use tells them apart.      *)
EXTENDS QuicStreams

StreamSymmetry == Permutations(Stream)

=============================================================================
