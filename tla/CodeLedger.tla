----------------------------- MODULE CodeLedger -----------------------------
(***************************************************************************)
(* What a verification code stands for, without requests in progress,      *)
(* statements, limiters, failures or restarts: codes are issued for a      *)
(* bounded time, claimed by whoever presents the newest live one of a      *)
(* phone, spent on a claim, and a token is granted on a spent claim.       *)
(* LoginService implements it.                                             *)
(***************************************************************************)
EXTENDS Integers, Sequences

CONSTANTS Requests, Phones, Codes, CodeTTL

VARIABLES
    now,
    issued,             \* every code there ever was, in the order of issue
    spent,              \* positions in issued
    presented,          \* the phone and the code of each request
    claim,              \* the position a request has proved to know, or 0
    granted             \* the requests that hold a token

ledger == <<now, issued, spent, presented, claim, granted>>

Init ==
    /\ now = 0
    /\ issued = <<>> /\ spent = {}
    /\ presented \in [Requests -> [phone : Phones, code : Codes]]
    /\ claim = [r \in Requests |-> 0]
    /\ granted = {}

Live(p) ==
    {id \in DOMAIN issued \ spent :
        issued[id].phone = p /\ issued[id].expireAt > now}

\* A code expires CodeTTL after it was made, which was before its issue.
Issue ==
    /\ \E p \in Phones, code \in Codes, made \in 0 .. now :
          issued' = Append(issued, [phone |-> p, code |-> code,
                                    expireAt |-> made + CodeTTL])
    /\ UNCHANGED <<now, spent, presented, claim, granted>>

Claim(r) ==
    /\ claim[r] = 0
    /\ \E id \in Live(presented[r].phone) :
          /\ \A other \in Live(presented[r].phone) : other <= id
          /\ issued[id].code = presented[r].code
          /\ claim' = [claim EXCEPT ![r] = id]
    /\ UNCHANGED <<now, issued, spent, presented, granted>>

Spend(r) ==
    /\ claim[r] # 0
    /\ spent' = spent \cup {claim[r]}
    /\ UNCHANGED <<now, issued, presented, claim, granted>>

Grant(r) ==
    /\ claim[r] \in spent /\ r \notin granted
    /\ granted' = granted \cup {r}
    /\ UNCHANGED <<now, issued, spent, presented, claim>>

Tick ==
    /\ now' = now + 1
    /\ UNCHANGED <<issued, spent, presented, claim, granted>>

Next ==
    \/ Issue
    \/ \E r \in Requests : Claim(r) \/ Spend(r) \/ Grant(r)
    \/ Tick

Spec == Init /\ [][Next]_ledger

=============================================================================
