------------------------------ MODULE MCAccounts ------------------------------
(* Two people, of whom one may take the name the other one's mail gives.  The name *)
(* jo-bob ends with bob's, and so does the fork of bob with jo-bob's.              *)
EXTENDS Accounts, TLC

CONSTANTS a1, a2, bob, bob1, jobob

MCWords == {"python", "jo", "bob", "bob_1"}
MCSpelling == bob :> <<"bob">> @@ bob1 :> <<"bob_1">> @@ jobob :> <<"jo", "bob">>
MCUpstream == <<"python", "jo">>
MCSecond == [b \in {bob} |-> bob1]
MCSettled == {(a1 :> bob), (a1 :> bob @@ a2 :> jobob)}

=============================================================================
