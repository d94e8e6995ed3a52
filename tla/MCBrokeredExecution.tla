------------------------ MODULE MCBrokeredExecution ------------------------
(* An instance of BrokeredExecution for TLC. *)
EXTENDS BrokeredExecution

Says(effect, when, ttl) == [effect |-> effect, when |-> when, max_ttl |-> ttl]

\* The shapes of DEFAULT_POLICY, and an allow rule that matches together with
\* either of its allow rules and limits the grant further.
MCRules ==
    {Says("deny", {<<"access_path_exists", FALSE>>}, 0),
     Says("require_approval", {<<"action_read_only", FALSE>>}, 0),
     Says("allow", {<<"action_read_only", TRUE>>, <<"access_path_exists", TRUE>>}, 2),
     Says("allow", {<<"action_read_only", FALSE>>}, 0),
     Says("allow", {<<"access_path_exists", TRUE>>}, 1)}

MCDocuments == SUBSET MCRules

\* The risk of a write makes no difference: it is controlled in any case.
MCAsks == {a \in Input : ~a.action_read_only => a.high_risk}
MCSkews == {-1, 0, 1, 2}
=============================================================================
