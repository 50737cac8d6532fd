----------------------------- MODULE HttpContext -----------------------------
(***************************************************************************)
(* HTTPContext's callbacks for http-parser: how a request is put together   *)
(* from the pieces of text that the parser hands over.  A piece ends where  *)
(* its element ends, or where the data of one read ends.                    *)
(***************************************************************************)
EXTENDS HttpUrl

(* last_header_element is not initialised: a new request has any of these.  *)
HeaderElements == {"NONE", "FIELD", "VALUE"}

NewRequest(element) ==
    [method |-> "none", request_url |-> <<>>, request_path |-> <<>>, query_string |-> <<>>,
     fragment |-> <<>>, body |-> <<>>, last_header_element |-> element, headers |-> <<>>,
     first |-> <<>>, second |-> <<>>, body_is_final |-> FALSE, message_is_end |-> FALSE,
     aborted |-> FALSE]

(* The text of a field of a URL; empty if the field is not set.             *)
UrlField(u, url, field) ==
    IF field \in DOMAIN u.data THEN SubStr(url, u.data[field]) ELSE <<>>

(* Each piece of a URL is added to what came before, all of that is split   *)
(* again, and the fields are added to the request's fields.                 *)
urlCallBack(r, buf, method) ==
    LET url == r.request_url \o buf
        u == http_parser_parse_url(url, FALSE)
    IN IF u.ok
       THEN [r EXCEPT !.request_url = url, !.method = method,
                      !.query_string = @ \o UrlField(u, url, "QUERY"),
                      !.fragment = @ \o UrlField(u, url, "FRAGMENT"),
                      !.request_path = @ \o UrlField(u, url, "PATH")]
       ELSE [r EXCEPT !.request_url = url, !.aborted = TRUE]

(* std::map::emplace: the first value of a name stays.                      *)
Emplace(headers, name, value) ==
    IF name \in DOMAIN headers THEN headers ELSE (name :> value) @@ headers

headerFieldCallBack(r, buf) ==
    LET fresh == r.last_header_element # "FIELD" IN
    [r EXCEPT !.headers = IF fresh /\ r.first # <<>> THEN Emplace(@, r.first, r.second) ELSE @,
              !.first = IF fresh THEN buf ELSE @ \o buf,
              !.second = IF fresh THEN <<>> ELSE @,
              !.last_header_element = "FIELD"]

headerValueCallBack(r, buf) ==
    [r EXCEPT !.second = @ \o buf, !.last_header_element = "VALUE"]

(* isBodyFinal aborts if an earlier piece was already the last one.         *)
bodyCallBack(r, buf, final) ==
    [r EXCEPT !.body = @ \o buf, !.aborted = r.body_is_final, !.body_is_final = final]

(* The last header is still in the pair; an empty value is not taken.       *)
KeepLastHeader(r) ==
    IF r.second = <<>> THEN r ELSE [r EXCEPT !.headers = Emplace(@, r.first, r.second)]

headerCompleteCallBack(r) == KeepLastHeader(r)

(* Bug: a request is finished by the last piece of a body only.             *)
MutMessageComplete(r) == [KeepLastHeader(r) EXCEPT !.message_is_end = r.body_is_final]

messageCompleteCallBack(r) == [KeepLastHeader(r) EXCEPT !.message_is_end = TRUE]
==============================================================================
