----------------------------- MODULE MCStreamLog -----------------------------
(* Instances of StreamLog for TLC. *)
EXTENDS StreamLog

Says(delta, prompt, completion) ==
    [delta |-> delta,
     usage |-> [f \in Field |-> IF f = "prompt" THEN prompt ELSE completion]]

\* Output of either kind, each count alone, and both over again.
MCLine == {Says("text", 0, 0), Says("other", 1, 0), Says("none", 0, 1),
           Says("text", 2, 2)}
=============================================================================
