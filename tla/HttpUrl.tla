------------------------------- MODULE HttpUrl -------------------------------
(***************************************************************************)
(* http-parser's URL parser: the character machine parse_url_char, which    *)
(* http_parser_execute shares, and http_parser_parse_url, which splits a    *)
(* whole URL into fields.                                                   *)
(*                                                                          *)
(* Text is a sequence of symbols.  A symbol is one character, or a run of   *)
(* characters that the parser's tables take along one path, such as the     *)
(* rest of a keyword; "BAD" is any control character.                       *)
(***************************************************************************)
EXTENDS Integers, Sequences, TLC

CONSTANTS
    Width,    \* field offsets and lengths are kept modulo Width (uint16_t)
    MaxPort   \* the largest port (0xffff)

ASSUME UrlAssumption == Width \in Nat \ {0} /\ MaxPort \in Nat

(* Characters.  The words are the keywords of requests, cut after their     *)
(* first letter; letters stand for themselves in either case.               *)
Digit == [d \in {"0", "1", "2", "9"} |->
            CASE d = "0" -> 0 [] d = "1" -> 1 [] d = "2" -> 2 [] d = "9" -> 9]
Letters == {"a", "C", "G", "H", "I", "K", "P", "S", "T", "U"}
Words == {"ET", "OST", "UT", "ONNECT", "UBSCRIBE", "OURCE", "TTP", "CE",
          "onnection", "lose", "hunked", "pgrade"}
DashedWords == {"ontent-length", "ransfer-encoding", "roxy-connection", "eep-alive"}
Blank == {" ", "HT", "CR", "LF"}
Symbols == DOMAIN Digit \cup Letters \cup Words \cup DashedWords \cup Blank
             \cup {"/", "?", "#", "@", ":", ".", "*", "%", ";", ",", "[", "]", "BAD"}

IS_ALPHA(c) == c \in Letters \cup Words
IS_NUM(c) == c \in DOMAIN Digit
IS_ALPHANUM(c) == IS_ALPHA(c) \/ IS_NUM(c)
IS_HEX(c) == IS_NUM(c) \/ c \in {"a", "C"}
IS_USERINFO_CHAR(c) == IS_ALPHANUM(c) \/ c \in DashedWords \cup {".", "*", "%", ";", ":", ","}
IS_URL_CHAR(c) == c \notin Blank \cup {"?", "#", "BAD"}
IS_HOST_CHAR(c) == IS_ALPHANUM(c) \/ c \in DashedWords \cup {"."}
IS_ZONE_CHAR(c) == IS_HOST_CHAR(c) \/ c = "%"

(* The state after character c of a URL; "s_dead" is an error.              *)
parse_url_char(s, c) ==
    LET Server ==
          CASE c = "/" -> "s_req_path"
            [] c = "?" -> "s_req_query_string_start"
            [] c = "@" -> IF s = "s_req_server_with_at" THEN "s_dead"
                                                        ELSE "s_req_server_with_at"
            [] IS_USERINFO_CHAR(c) \/ c \in {"[", "]"} -> "s_req_server"
            [] OTHER -> "s_dead"
        Only(d, next) == IF c = d THEN next ELSE "s_dead"
    IN CASE c \in Blank -> "s_dead"
         [] s = "s_req_spaces_before_url" ->
              IF c \in {"/", "*"} THEN "s_req_path"
              ELSE IF IS_ALPHA(c) THEN "s_req_schema" ELSE "s_dead"
         [] s = "s_req_schema" -> IF IS_ALPHA(c) THEN s ELSE Only(":", "s_req_schema_slash")
         [] s = "s_req_schema_slash" -> Only("/", "s_req_schema_slash_slash")
         [] s = "s_req_schema_slash_slash" -> Only("/", "s_req_server_start")
         [] s \in {"s_req_server_start", "s_req_server", "s_req_server_with_at"} -> Server
         [] s = "s_req_path" ->
              IF IS_URL_CHAR(c) THEN s
              ELSE IF c = "?" THEN "s_req_query_string_start" ELSE Only("#", "s_req_fragment_start")
         [] s \in {"s_req_query_string_start", "s_req_query_string"} ->
              IF IS_URL_CHAR(c) \/ c = "?" THEN "s_req_query_string"
              ELSE Only("#", "s_req_fragment_start")
         [] s = "s_req_fragment_start" ->
              IF IS_URL_CHAR(c) \/ c = "?" THEN "s_req_fragment" ELSE Only("#", s)
         [] s = "s_req_fragment" ->
              IF IS_URL_CHAR(c) \/ c \in {"?", "#"} THEN s ELSE "s_dead"
         [] OTHER -> "s_dead"

------------------------------------------------------------------------------
(* The host of an absolute URL                                              *)

http_parse_host_char(s, c) ==
    CASE s \in {"userinfo_start", "userinfo"} ->
           IF c = "@" THEN "host_start" ELSE IF IS_USERINFO_CHAR(c) THEN "userinfo" ELSE "dead"
      [] s = "host_start" ->
           IF c = "[" THEN "host_v6_start" ELSE IF IS_HOST_CHAR(c) THEN "host" ELSE "dead"
      [] s = "host" /\ IS_HOST_CHAR(c) -> "host"
      [] s \in {"host", "host_v6_end"} -> IF c = ":" THEN "host_port_start" ELSE "dead"
      [] s \in {"host_v6", "host_v6_zone"} /\ c = "]" -> "host_v6_end"
      [] s \in {"host_v6", "host_v6_start"} /\ (IS_HEX(c) \/ c \in {":", "."}) -> "host_v6"
      [] s = "host_v6" /\ c = "%" -> "host_v6_zone_start"
      [] s \in {"host_v6_zone", "host_v6_zone_start"} /\ IS_ZONE_CHAR(c) -> "host_v6_zone"
      [] s \in {"host_port", "host_port_start"} /\ IS_NUM(c) -> "host_port"
      [] OTHER -> "dead"

(* Is this text a host, and the port that stands in it.                     *)
http_parse_host(text, found_at) ==
    LET scan[i \in 0..Len(text)] ==
          IF i = 0
          THEN [s |-> IF found_at THEN "userinfo_start" ELSE "host_start", port |-> <<>>]
          ELSE LET new == http_parse_host_char(scan[i - 1].s, text[i])
               IN  [s |-> new,
                    port |-> IF new = "host_port" THEN Append(scan[i - 1].port, text[i])
                                                  ELSE scan[i - 1].port]
        end == scan[Len(text)]
    IN [ok |-> end.s \in {"host", "host_v6_end", "host_port"}, port |-> end.port]

(* The value of a port's digits; one too large is an error, found before    *)
(* the next digit can make it overflow.                                     *)
PortOk(digits) ==
    LET v[i \in 0..Len(digits)] ==
          IF i = 0 THEN 0
          ELSE IF v[i - 1] > MaxPort THEN v[i - 1] ELSE v[i - 1] * 10 + Digit[digits[i]]
    IN v[Len(digits)] <= MaxPort

------------------------------------------------------------------------------
(* The fields of a URL                                                      *)

UrlDelimiters == {"s_req_schema_slash", "s_req_schema_slash_slash", "s_req_server_start",
                  "s_req_query_string_start", "s_req_fragment_start"}

FieldOf(s) ==
    CASE s = "s_req_schema" -> "SCHEMA"
      [] s \in {"s_req_server", "s_req_server_with_at"} -> "HOST"
      [] s = "s_req_path" -> "PATH"
      [] s = "s_req_query_string" -> "QUERY"
      [] s = "s_req_fragment" -> "FRAGMENT"

(* Bug: a delimiter is taken into the field that follows it.                *)
MutFieldStart(data, uf, i) == (uf :> [off |-> (i - 2) % Width, len |-> 2]) @@ data

FieldStart(data, uf, i) == (uf :> [off |-> (i - 1) % Width, len |-> 1]) @@ data

(* The walk over the first i characters: the state, the field of the last   *)
(* character that belongs to one, and offset and length of the fields set.  *)
UrlWalk(url, is_connect) ==
    LET walk[i \in 0..Len(url)] ==
          IF i = 0
          THEN [s |-> IF is_connect THEN "s_req_server_start" ELSE "s_req_spaces_before_url",
                uf |-> "MAX", found_at |-> FALSE, data |-> <<>>]
          ELSE LET u == walk[i - 1]
                   s == parse_url_char(u.s, url[i])
               IN IF s \in UrlDelimiters \cup {"s_dead"} THEN [u EXCEPT !.s = s]
                  ELSE [s |-> s, uf |-> FieldOf(s),
                        found_at |-> u.found_at \/ s = "s_req_server_with_at",
                        data |-> IF FieldOf(s) = u.uf
                                 THEN [u.data EXCEPT ![u.uf].len = (@ + 1) % Width]
                                 ELSE FieldStart(u.data, FieldOf(s), i)]
    IN walk[Len(url)]

(* A substring of a URL, clamped to its end as string::append does.         *)
SubStr(url, f) ==
    SubSeq(url, f.off + 1, IF f.off + f.len < Len(url) THEN f.off + f.len ELSE Len(url))

http_parser_parse_url(url, is_connect) ==
    LET u == UrlWalk(url, is_connect)
        hasHost == "HOST" \in DOMAIN u.data
        host == http_parse_host(SubStr(url, u.data["HOST"]), u.found_at)
    IN [ok |-> /\ url # <<>>
               /\ u.s # "s_dead"
               /\ "SCHEMA" \in DOMAIN u.data => hasHost
               /\ hasHost => host.ok /\ PortOk(host.port)
               /\ is_connect => DOMAIN u.data = {"HOST"} /\ host.port # <<>>,
        data |-> u.data]

------------------------------------------------------------------------------
(* What a URL means, said without a machine                                 *)

(* The place of the first symbol of S in text, or one past its end.         *)
Cut(text, S) ==
    IF \E i \in DOMAIN text : text[i] \in S
    THEN CHOOSE i \in DOMAIN text : text[i] \in S /\ \A j \in 1..(i - 1) : text[j] \notin S
    ELSE Len(text) + 1

Before(text, S) == SubSeq(text, 1, Cut(text, S) - 1)
Behind(text, S) == SubSeq(text, Cut(text, S) + 1, Len(text))
All(text, P(_)) == \A i \in DOMAIN text : P(text[i])

IsV6(text) ==
    LET addr == Before(text, {"%"}) zone == Behind(text, {"%"}) IN
    /\ addr # <<>> /\ \A i \in DOMAIN addr : IS_HEX(addr[i]) \/ addr[i] \in {":", "."}
    /\ addr # text => zone # <<>> /\ All(zone, IS_ZONE_CHAR)

IsHost(text) ==
    /\ text # <<>>
    /\ \/ All(text, IS_HOST_CHAR)
       \/ /\ Len(text) > 2 /\ text[1] = "[" /\ Cut(text, {"]"}) = Len(text)
          /\ IsV6(SubSeq(text, 2, Len(text) - 1))

(* [userinfo@]host[:port]                                                   *)
IsAuthority(text) ==
    LET hasUser == Cut(text, {"@"}) <= Len(text)
        user == Before(text, {"@"})
        rest == IF hasUser THEN Behind(text, {"@"}) ELSE text
    IN /\ hasUser => All(user, IS_USERINFO_CHAR)
       /\ \E k \in 1..Len(rest) :
            /\ IsHost(SubSeq(rest, 1, k))
            /\ \/ k = Len(rest)
               \/ /\ rest[k + 1] = ":" /\ k + 1 < Len(rest)
                  /\ LET port == SubSeq(rest, k + 2, Len(rest))
                     IN All(port, IS_NUM) /\ PortOk(port)

(* What stands before the path of an absolute URL, its authority, and what  *)
(* is left.                                                                 *)
Absolute(url) == url # <<>> /\ url[1] \notin {"/", "*"}
Authority(url) == Before(SubSeq(url, Cut(url, {":"}) + 3, Len(url)), {"/", "?"})
Local(url) ==
    IF Absolute(url)
    THEN SubSeq(url, Cut(url, {":"}) + 3 + Len(Authority(url)), Len(url))
    ELSE url

UrlMeans(url) ==
    LET local == Local(url)
        query == Before(Behind(local, {"?"}), {"#"})
        frag == Behind(local, {"#"})
    IN [path |-> Before(local, {"?", "#"}),
        query |-> IF Cut(local, {"?"}) < Cut(local, {"#"}) THEN query ELSE <<>>,
        fragment |-> SubSeq(frag, Cut(frag, {frag[i] : i \in DOMAIN frag} \ {"#"}), Len(frag))]

(* A URL that a request of a method other than CONNECT may carry.           *)
UrlLegal(url) ==
    /\ url # <<>>
    /\ \A i \in DOMAIN url : url[i] \notin Blank \cup {"BAD"}
    /\ Absolute(url) =>
         /\ Before(url, {":"}) # <<>> /\ All(Before(url, {":"}), IS_ALPHA)
         /\ Cut(url, {":"}) + 2 <= Len(url)
         /\ SubSeq(url, Cut(url, {":"}), Cut(url, {":"}) + 2) = <<":", "/", "/">>
         /\ IsAuthority(Authority(url))
==============================================================================
