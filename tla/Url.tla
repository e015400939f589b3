---------------------------------- MODULE Url ----------------------------------
(***************************************************************************)
(* The bytes of a url, as http_parser.c classes them, and parse_url_char,  *)
(* which http_parser_execute and http_parser_parse_url share: the first    *)
(* for the url of a request line, the second for a url that is to be taken *)
(* apart.  The parser is built strict.                                     *)
(*                                                                         *)
(* A byte stands for those that no test of the code tells from it.         *)
(***************************************************************************)
EXTENDS Integers

\* "x" is a letter that is not a hexadecimal digit, "f" one that is.
Alpha == {"x", "f"}

\* Decimal digits.
Num == {"0", "1", "2", "3", "4", "5", "6", "7", "8", "9"}

AlphaNum == Alpha \cup Num

Hex == {"f"} \cup Num

\* "_" also stands for '~'; "+" for all bytes that are of user information
\* only: ! ' ( ) ; & = $ and comma.
UserinfoChar == AlphaNum \cup {"-", "_", ".", "*", "+", "%", ":"}

HostChar == AlphaNum \cup {".", "-"}

ZoneChar == AlphaNum \cup {"%", ".", "-", "_"}

\* normal_url_char.  "|" is of no class but this.
UrlChar == UserinfoChar \cup {"/", "@", "[", "]", "|"}

\* "bad": controls, space, DEL and bytes from 0x80.
UrlByte == UrlChar \cup {"?", "#", "bad"}

\* c - '0', as the loop over a port computes it for whatever it is given.
MinusZero ==
  [c \in UrlByte \ {"bad"} |->
     CASE c = "#" -> -13 [] c = "%" -> -11 [] c = "*" -> -6 [] c = "+" -> -5
       [] c = "-" -> -3 [] c = "." -> -2 [] c = "/" -> -1 [] c = "0" -> 0
       [] c = "1" -> 1 [] c = "2" -> 2 [] c = "3" -> 3 [] c = "4" -> 4
       [] c = "5" -> 5 [] c = "6" -> 6 [] c = "7" -> 7 [] c = "8" -> 8
       [] c = "9" -> 9 [] c = ":" -> 10 [] c = "?" -> 15 [] c = "@" -> 16
       [] c = "[" -> 43 [] c = "]" -> 45 [] c = "_" -> 47 [] c = "f" -> 54
       [] c = "x" -> 72 [] OTHER (* | *) -> 76]

\* States of enum state that parse_url_char goes through.
UrlState == {"spaces_before_url", "schema", "schema_slash", "schema_slash_slash",
             "server_start", "server", "server_with_at", "path",
             "query_string_start", "query_string", "fragment_start", "fragment",
             "dead"}

Server == {"server_start", "server", "server_with_at"}

ParseUrlChar(s, ch) ==
  CASE s = "spaces_before_url" /\ ch \in {"/", "*"} -> "path"
    [] s \in {"spaces_before_url", "schema"} /\ ch \in Alpha -> "schema"
    [] s = "schema" /\ ch = ":" -> "schema_slash"
    [] s = "schema_slash" /\ ch = "/" -> "schema_slash_slash"
    [] s = "schema_slash_slash" /\ ch = "/" -> "server_start"
    [] s \in Server /\ ch = "/" -> "path"
    [] s \in Server /\ ch = "?" -> "query_string_start"
    [] s \in Server \ {"server_with_at"} /\ ch = "@" -> "server_with_at"
    [] s \in Server /\ ch \in UserinfoChar \cup {"[", "]"} -> "server"
    [] s = "path" /\ ch \in UrlChar -> "path"
    [] s = "path" /\ ch = "?" -> "query_string_start"
    [] s \in {"query_string_start", "query_string"} /\ ch \in UrlChar \cup {"?"} -> "query_string"
    [] s \in {"path", "query_string_start", "query_string"} /\ ch = "#" -> "fragment_start"
    [] s = "fragment_start" /\ ch = "#" -> "fragment_start"
    [] s = "fragment_start" /\ ch \in UrlChar \cup {"?"} -> "fragment"
    [] s = "fragment" /\ ch \in UrlChar \cup {"?", "#"} -> "fragment"
    [] OTHER -> "dead"
=============================================================================
