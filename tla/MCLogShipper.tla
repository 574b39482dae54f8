--------------------------- MODULE MCLogShipper ---------------------------
(* Instances of LogShipper for TLC. *)
EXTENDS LogShipper, TLC

\* A record below the level; one with a credential in its message and in an
\* ordinary attribute; one with a secret under a sensitive key and a trace id;
\* and one whose attributes are over the limit.
MCShape ==
  { [level |-> FALSE, body |-> "plain", big |-> FALSE, attrs |-> {}],
    [level |-> TRUE, body |-> "credential", big |-> FALSE,
     attrs |-> {[key |-> "plain", value |-> "credential"],
                [key |-> "sensitive", value |-> "opaque"],
                [key |-> "trace_id", value |-> "plain"]}],
    [level |-> TRUE, body |-> "plain", big |-> TRUE,
     attrs |-> {[key |-> "plain", value |-> "credential"]}] }

=============================================================================
