--------------------------- MODULE MCRemoteSignIn ---------------------------
(* Small instances of RemoteSignIn: two OIDC providers, GitHub and the two   *)
(* built-in providers, which all hand out the same subject.                  *)
EXTENDS RemoteSignIn, TLC

CONSTANTS b1, b2, q1, q2, alice, n1, n2, i1, i2, none

MCOidc == {"corp", "cloud"}
MCGithub == {"hub"}
MCBuiltIn == {"basic", "simple"}
MCSubjects == {"s1"}
MCSubjectOf == [p \in MCOidc \cup MCGithub \cup MCBuiltIn |-> alice :> "s1"]

MCStandings == {[rights |-> {"access", "admin"}, email |-> "inside"],
                [rights |-> {"access"}, email |-> "unstated"],
                [rights |-> {}, email |-> "unverified"]}

\* Both OIDC providers with and without devices from before, an OIDC and a
\* built-in one, an OIDC provider and GitHub, and the two built-in ones.
Full == [rights |-> {"access", "admin"}, email |-> "inside"]
MCSetups ==
    [providers : {{"corp", "cloud"}}, standing : MCStandings, owners : {{}}] \cup
    [providers : {{"corp", "cloud"}}, standing : {Full}, owners : {{none}, {"corp"}}] \cup
    [providers : {{"corp", "simple"}, {"cloud", "hub"}, {"basic", "simple"}}, standing : {Full}, owners : {{}}]

SignInSymmetry == Permutations({b1, b2}) \cup Permutations({q1, q2}) \cup
                  Permutations({n1, n2}) \cup Permutations({i1, i2})
=============================================================================
