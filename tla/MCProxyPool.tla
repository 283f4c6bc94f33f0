----------------------------- MODULE MCProxyPool -----------------------------
(* Instance of ProxyPool for TLC. *)
EXTENDS ProxyPool, TLC

\* A proxy to insert or update, and an account that is in the file twice.
MCPayload ==
    {<<[proxy |-> "n", url |-> "u2"],
       [account |-> "x", enabled |-> TRUE, via |-> NoProxy],
       [account |-> "x", enabled |-> FALSE, via |-> "n"]>>}

MCSymmetry == Permutations(Handler) \cup Permutations(Proxy) \cup Permutations(Account)
=============================================================================
