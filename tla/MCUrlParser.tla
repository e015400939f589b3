------------------------------ MODULE MCUrlParser ------------------------------
(***************************************************************************)
(* UrlParser with ports up to 9, offsets up to 9, and urls of a few bytes  *)
(* after a start that takes the loops where a byte matters.                *)
(***************************************************************************)
EXTENDS UrlParser

Begins(text, bytes, more) == [text |-> text, bytes |-> bytes, more |-> more]

\* All bytes, with one digit for those that only ports tell apart.
AnyByte == UrlByte \ (Num \ {"0"})

\* Relative urls in their path or query, absolute ones in server or path.
AnyStarts ==
  {Begins(text, AnyByte, 3) : text \in {<<>>, <<"/">>}}
    \cup {Begins(text, AnyByte, 2) :
            text \in {<<"/", "?">>, <<"x", ":", "/", "/">>,
                      <<"x", ":", "/", "/", "x", "/">>}}

\* Bytes that tell the parts of a server apart.
ServerByte == {"f", "0", "9", ":", "@", "[", "]", "%", "/"}

\* The server of a CONNECT, and one after a schema, whole or in parts.
ServerStarts ==
  {Begins(text, ServerByte, 4) : text \in {<<>>, <<"x", ":", "/", "/">>}}
    \cup {Begins(text, ServerByte, 3) :
            text \in {<<"x", ":", "/", "/", "f", ":", "0">>,
                      <<"x", ":", "/", "/", "f", "@", "[", "f">>}}

MCStarts == AnyStarts \cup ServerStarts

MCRests == {<<>>, <<":", "/", "/", "x">>}
=============================================================================
