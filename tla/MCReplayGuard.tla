--------------------------- MODULE MCReplayGuard ---------------------------
(***************************************************************************)
(* ReplayGuard for TLC: a window of two ticks, one nonce used with two     *)
(* timestamps (one early, one late), another nonce with one timestamp so   *)
(* far ahead that its distance overflows until the clock reads 4.          *)
(***************************************************************************)
EXTENDS ReplayGuard, TLC

MCEnvelopes ==
    {[nonce |-> "n1", ts |-> 1, encrypted |-> TRUE],
     [nonce |-> "n1", ts |-> 6, encrypted |-> FALSE],
     [nonce |-> "n2", ts |-> 3, encrypted |-> TRUE],
     [nonce |-> "n2", ts |-> 10, encrypted |-> TRUE]}

RequestSymmetry == Permutations(Requests)

=============================================================================
