-------------------------- MODULE MCUpstreamAccount --------------------------
(* Instance of UpstreamAccount for TLC. *)
EXTENDS UpstreamAccount

\* Each function in one script, and all of them again in the next and in a
\* script too many; or too late altogether.
MCSites == {<<{}, {"routing.set", "referral.apply"}, {"routing.get", "referral.get"},
              {"routing.get", "routing.set"}, Function>>,
            <<{"referral.get"}, {"routing.get"}, {}, {}, Function>>}
=============================================================================
