------------------------------- MODULE MCKeys -------------------------------
(* One client; the process environment sets nothing, the private half, both *)
(* halves, both with the PEM block still folded, or an empty value for one  *)
(* half; the operator writes a lone public half, a quoted empty value or a  *)
(* stray quote.  .env is never written: .env.{APP_ENV} is the lower layer.  *)
EXTENDS Keys

CONSTANT c1
MCWritable == {"app", "local", "app_local"}
MCClients == {c1}

Text(k) == [key |-> k, form |-> "text"]
Folded == [NoEnv EXCEPT ![Private] = [key |-> 1, form |-> "raw"]]
MCProcessEnvs ==
    {NoEnv, [NoEnv EXCEPT ![Private] = Text(1)],
     [name \in Names |-> Text(1)],
     [Folded EXCEPT ![Public] = Text(1)],
     [NoEnv EXCEPT ![Private] = Text(Blank)],
     [NoEnv EXCEPT ![Public] = Text(Blank)]}
MCEditLines ==
    {[name |-> Public, key |-> 1, quote |-> "double"],
     [name |-> Private, key |-> Blank, quote |-> "double"],
     [name |-> Private, key |-> Blank, quote |-> "torn"]}

=============================================================================
