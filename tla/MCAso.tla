------------------------------- MODULE MCAso -------------------------------
(***************************************************************************)
(* An instance of AsoPipeline: a plan for both stores, one that reaches a  *)
(* store by mistake, an empty one, and one whose days are no number.       *)
(***************************************************************************)
EXTENDS AsoPipeline

CONSTANTS p1, p2

MCProcess == {p1, p2}
MCShape   == {[changes |-> <<"ios", "play">>, days |-> "number"],
              [changes |-> <<"both">>, days |-> "text"],
              [changes |-> <<>>, days |-> "number"]}

=============================================================================
