--------------------------- MODULE MCLoginService ---------------------------
(***************************************************************************)
(* LoginService for TLC.  What a request is (a send or a login) is fixed   *)
(* per run so that the same few requests are not explored in every role.   *)
(***************************************************************************)
EXTENDS LoginService, FiniteSets, TLC

CONSTANTS Sends, Logins

MCRequests == Sends \cup Logins

\* Requests of one kind are interchangeable, and so are phones, addresses and
\* codes.
RequestSymmetry ==
    UNION {Permutations(S) : S \in {Sends, Logins, Phones, IPs, Codes}}

MCInit ==
    /\ Init
    /\ \A r \in Requests :
          input[r].kind = IF r \in Sends THEN "send" ELSE "login"
    \* the code of a send's body is not used
    /\ \A r, q \in Sends : input[r].code = input[q].code

\* What symmetry would do for the requests of MCLiveInit, which liveness has
\* to do without: one phone is what sends and the first login are about.
First(S) == CHOOSE x \in S : TRUE

MCLiveInit ==
    /\ MCInit
    /\ \A r \in Sends \cup {First(Logins)} : Phone(r) = First(Phones)
    /\ input[First(Logins)].code = First(Codes)

MCSpec == MCInit /\ [][Next]_vars
MCFairSpec == MCLiveInit /\ [][Next]_vars /\ Fairness

=============================================================================
