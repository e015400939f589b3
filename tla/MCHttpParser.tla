---------------------------- MODULE MCHttpParser ----------------------------
(***************************************************************************)
(* HttpParser with a content_length of five bits and some of the digits.   *)
(***************************************************************************)
EXTENDS HttpParser

MCMaxLength == 2^5 - 1

MCDigit == [d \in {"0", "2", "3"} |-> CASE d = "0" -> 0 [] d = "2" -> 2 [] d = "3" -> 3]

MCHexDigit ==
  [d \in DOMAIN MCDigit \cup {"f"} |-> IF d = "f" THEN 15 ELSE MCDigit[d]]

\* Bound: no message goes on with Transfer-Encoding together with Connection or
\* Upgrade.  The code looks at both in two places only: whether there is a body
\* after a message that upgrades, where Content-Length takes the same branch,
\* and whether a response without length ends with the connection.
OneConcern ==
  ~(parser.usesTE /\ parser.flags \cap {"keep_alive", "close", "conn_upgrade", "upgrade"} # {})
=============================================================================
