------------------------------ MODULE HttpParser ------------------------------
(***************************************************************************)
(* http_parser_execute for requests, in strict mode, one action per state   *)
(* of the parser, with HTTPContext's callbacks.                             *)
(*                                                                          *)
(* data is what one read delivered, p the position in it.  at = "fetch" is  *)
(* the head of the loop over data, "switch" the switch over the state (the  *)
(* label reexecute), "return" the end of the call.  A mark is the position  *)
(* at which a piece of text began, 0 for none.                              *)
(***************************************************************************)
EXTENDS HttpContext, FiniteSets

CONSTANTS
    UllongMax,      \* ULLONG_MAX, the content length of no header
    MaxHeaderSize   \* max_header_size

ASSUME ParserAssumption == UllongMax \in Nat /\ UllongMax > 16 /\ MaxHeaderSize \in Nat

VARIABLES data, p, at, marks, parser, request

parserVars == <<data, p, at, marks, parser, request>>

NoMarks == [url |-> 0, header_field |-> 0, header_value |-> 0, body |-> 0]

Methods == [GET |-> <<"G", "ET">>, POST |-> <<"P", "OST">>, PUT |-> <<"P", "UT">>,
            CONNECT |-> <<"C", "ONNECT">>, SUBSCRIBE |-> <<"S", "UBSCRIBE">>,
            SOURCE |-> <<"S", "OURCE">>]

(* The method that the first letter alone stands for.                       *)
FirstMethod == [G |-> "GET", P |-> "POST", C |-> "CONNECT", S |-> "SUBSCRIBE"]

(* http_parser_init: everything is zero but the state.                      *)
NewParser ==
    [state |-> "s_start_req", header_state |-> "h_general", flags |-> {}, content_length |-> 0,
     method |-> "none", index |-> 0, http_major |-> 0, http_minor |-> 0, upgrade |-> FALSE,
     nread |-> 0, http_errno |-> "HPE_OK"]

(* A request never needs the end of the stream, http_message_needs_eof.     *)
http_should_keep_alive(q) ==
    IF q.http_major > 0 /\ q.http_minor > 0
    THEN "F_CONNECTION_CLOSE" \notin q.flags
    ELSE "F_CONNECTION_KEEP_ALIVE" \in q.flags

NEW_MESSAGE(q) == IF http_should_keep_alive(q) THEN "s_start_req" ELSE "s_dead"

UrlStartStates == {"s_req_schema", "s_req_schema_slash", "s_req_schema_slash_slash",
                   "s_req_server_start"}
UrlStates == {"s_req_server", "s_req_server_with_at", "s_req_path",
              "s_req_query_string_start", "s_req_query_string",
              "s_req_fragment_start", "s_req_fragment"}
BodyStates == {"s_chunk_data", "s_chunk_data_almost_done", "s_chunk_data_done",
               "s_body_identity", "s_message_done"}

PARSING_HEADER(s) == s \notin BodyStates

TOKEN(c) == IS_ALPHANUM(c) \/ c \in DashedWords \cup {"*", "%", ".", "#"}
Unhex == [c \in {"0", "1", "2", "9", "a", "C"} |->
            IF c = "a" THEN 10 ELSE IF c = "C" THEN 12 ELSE Digit[c]]

------------------------------------------------------------------------------
(* How a case of the switch ends                                            *)

ch == data[p]
In(s) == at = "switch" /\ parser.state = s

Break == at' = "fetch" /\ p' = p + 1
Reexecute == at' = "switch" /\ p' = p
Quiet == UNCHANGED <<data, marks, request>>

Goto(s) == parser' = [parser EXCEPT !.state = s] /\ Break /\ Quiet

Error ==
    /\ parser' = [parser EXCEPT !.http_errno = "HPE_ERROR"]
    /\ at' = "return"
    /\ UNCHANGED p
    /\ Quiet

(* MARK: a mark that is set already stays.                                  *)
Mark(what) == marks' = [marks EXCEPT ![what] = IF @ = 0 THEN p ELSE @]

(* The text from a mark up to the character before position end.            *)
Piece(what, end) == SubSeq(data, marks[what], end - 1)

(* Bug: a piece that ends with the data is taken for the last of a body.    *)
MutDeliver(what, end, r, final) ==
    IF marks[what] = 0 THEN r
    ELSE CASE what = "url" -> urlCallBack(r, Piece(what, end), parser.method)
           [] what = "header_field" -> headerFieldCallBack(r, Piece(what, end))
           [] what = "header_value" -> headerValueCallBack(r, Piece(what, end))
           [] what = "body" -> bodyCallBack(r, Piece(what, end), end > Len(data))

(* CALLBACK_DATA and its variants for one mark, or nothing if it is unset.  *)
Deliver(what, end, r, final) ==
    IF marks[what] = 0 THEN r
    ELSE CASE what = "url" -> urlCallBack(r, Piece(what, end), parser.method)
           [] what = "header_field" -> headerFieldCallBack(r, Piece(what, end))
           [] what = "header_value" -> headerValueCallBack(r, Piece(what, end))
           [] what = "body" -> bodyCallBack(r, Piece(what, end), final)

(* Bug: the mark is not cleared.                                            *)
MutCallbackData(what) ==
    /\ request' = Deliver(what, p, request, FALSE)
    /\ UNCHANGED <<data, marks>>

CallbackData(what) ==
    /\ request' = Deliver(what, p, request, FALSE)
    /\ marks' = [marks EXCEPT ![what] = 0]
    /\ UNCHANGED data

------------------------------------------------------------------------------
(* Entry, loop head and end of data                                         *)

(* Bug: the mark of a header value is not set again for new data.           *)
MutOpenMarks(s) ==
    [NoMarks EXCEPT !.header_field = IF s = "s_header_field" THEN 1 ELSE 0,
                    !.url = IF s \in UrlStartStates \cup UrlStates THEN 1 ELSE 0]

(* The element that was open when the last data ended goes on.              *)
OpenMarks(s) ==
    [NoMarks EXCEPT !.header_field = IF s = "s_header_field" THEN 1 ELSE 0,
                    !.header_value = IF s = "s_header_value" THEN 1 ELSE 0,
                    !.url = IF s \in UrlStartStates \cup UrlStates THEN 1 ELSE 0]

(* A call of http_parser_execute; a parser in error does nothing.           *)
Execute(bytes) ==
    /\ data' = bytes
    /\ p' = 1
    /\ marks' = OpenMarks(parser.state)
    /\ at' = IF parser.http_errno = "HPE_OK" THEN "fetch" ELSE "return"
    /\ UNCHANGED <<parser, request>>

(* Bug: the limit is tested before the character is counted.                *)
MutFetch ==
    /\ at = "fetch"
    /\ p <= Len(data)
    /\ LET header == PARSING_HEADER(parser.state) IN
       \/ /\ header /\ parser.nread > MaxHeaderSize
          /\ Error
       \/ /\ ~header \/ parser.nread <= MaxHeaderSize
          /\ parser' = [parser EXCEPT !.nread = IF header THEN @ + 1 ELSE @]
          /\ Reexecute
          /\ Quiet

(* The loop takes the next character and counts it if it is of a header.    *)
Fetch ==
    /\ at = "fetch"
    /\ p <= Len(data)
    /\ LET n == IF PARSING_HEADER(parser.state) THEN parser.nread + 1 ELSE parser.nread IN
       \/ /\ n > MaxHeaderSize
          /\ Error
       \/ /\ n <= MaxHeaderSize
          /\ parser' = [parser EXCEPT !.nread = n]
          /\ Reexecute
          /\ Quiet

(* The callback for the mark that is left over; AssertionsHold says that    *)
(* there is one at most.                                                    *)
EndOfData ==
    /\ at = "fetch"
    /\ p > Len(data)
    /\ \/ marks = NoMarks /\ UNCHANGED request
       \/ \E m \in DOMAIN marks :
            /\ marks[m] # 0
            /\ request' = Deliver(m, p, request, FALSE)
    /\ marks' = NoMarks
    /\ at' = "return"
    /\ UNCHANGED <<data, p, parser>>

------------------------------------------------------------------------------
(* The request line                                                         *)

Dead ==
    /\ In("s_dead")
    /\ IF ch \in {"CR", "LF"} THEN Goto("s_dead") ELSE Error

StartReq ==
    /\ In("s_start_req")
    /\ \/ ch \in {"CR", "LF"} /\ Goto("s_start_req")
       \/ ch \notin DOMAIN FirstMethod \cup {"CR", "LF"} /\ Error
       \/ /\ ch \in DOMAIN FirstMethod
          /\ parser' = [parser EXCEPT !.state = "s_req_method", !.flags = {},
                                      !.content_length = UllongMax, !.index = 1,
                                      !.method = FirstMethod[ch]]
          /\ Break
          /\ Quiet

(* The rest of a method's name may turn it into another one that begins     *)
(* with the same letter.                                                    *)
ReqMethod ==
    LET named == {m \in DOMAIN Methods : parser.index = 1
                    /\ Methods[m] = <<Methods[parser.method][1], ch>>}
    IN /\ In("s_req_method")
       /\ \/ ch = " " /\ parser.index = 2 /\ Goto("s_req_spaces_before_url")
          \/ \E m \in named :
               /\ parser' = [parser EXCEPT !.method = m, !.index = 2]
               /\ Break
               /\ Quiet
          \/ named = {} /\ ~(ch = " " /\ parser.index = 2) /\ Error

SpacesBeforeUrl ==
    LET s == IF parser.method = "CONNECT" THEN "s_req_server_start" ELSE parser.state
    IN /\ In("s_req_spaces_before_url")
       /\ \/ ch = " " /\ Goto("s_req_spaces_before_url")
          \/ ch # " " /\ parse_url_char(s, ch) = "s_dead" /\ Error
          \/ /\ parse_url_char(s, ch) # "s_dead"
             /\ parser' = [parser EXCEPT !.state = parse_url_char(s, ch)]
             /\ Mark("url")
             /\ Break
             /\ UNCHANGED <<data, request>>

ReqUrlStart ==
    /\ at = "switch"
    /\ parser.state \in UrlStartStates
    /\ LET s == parse_url_char(parser.state, ch)
       IN IF s = "s_dead" THEN Error ELSE Goto(s)

(* The URL ends at a space, or at the end of a line: HTTP/0.9.              *)
ReqUrl ==
    LET s == parse_url_char(parser.state, ch) IN
    /\ at = "switch"
    /\ parser.state \in UrlStates
    /\ \/ /\ ch = " "
          /\ parser' = [parser EXCEPT !.state = "s_req_http_start"]
          /\ CallbackData("url")
          /\ Break
       \/ /\ ch \in {"CR", "LF"}
          /\ parser' = [parser EXCEPT !.http_major = 0, !.http_minor = 9,
                          !.state = IF ch = "CR" THEN "s_req_line_almost_done"
                                                 ELSE "s_header_field_start"]
          /\ CallbackData("url")
          /\ Break
       \/ ch \notin {" ", "CR", "LF"} /\ s = "s_dead" /\ Error
       \/ ch \notin {" ", "CR", "LF"} /\ s # "s_dead" /\ Goto(s)

(* ICE instead of HTTP is allowed for SOURCE only.                          *)
HttpStart ==
    /\ In("s_req_http_start")
    /\ \/ ch = " " /\ Goto("s_req_http_start")
       \/ ch = "H" /\ Goto("s_req_http_H")
       \/ ch = "I" /\ parser.method = "SOURCE" /\ Goto("s_req_http_I")
       \/ ch \notin {" ", "H"} /\ ~(ch = "I" /\ parser.method = "SOURCE") /\ Error

HttpMajor ==
    /\ In("s_req_http_major")
    /\ \/ ~IS_NUM(ch) /\ Error
       \/ /\ IS_NUM(ch)
          /\ parser' = [parser EXCEPT !.http_major = Digit[ch], !.state = "s_req_http_dot"]
          /\ Break
          /\ Quiet

HttpMinor ==
    /\ In("s_req_http_minor")
    /\ \/ ~IS_NUM(ch) /\ Error
       \/ /\ IS_NUM(ch)
          /\ parser' = [parser EXCEPT !.http_minor = Digit[ch], !.state = "s_req_http_end"]
          /\ Break
          /\ Quiet

(* The states that know the one or two characters that may come next.       *)
Expected ==
    {<<"s_req_http_H", "TTP", "s_req_http_HTTP">>,
     <<"s_req_http_I", "CE", "s_req_http_HTTP">>,
     <<"s_req_http_HTTP", "/", "s_req_http_major">>,
     <<"s_req_http_dot", ".", "s_req_http_minor">>,
     <<"s_req_http_end", "CR", "s_req_line_almost_done">>,
     <<"s_req_http_end", "LF", "s_header_field_start">>,
     <<"s_req_line_almost_done", "LF", "s_header_field_start">>,
     <<"s_header_almost_done", "LF", "s_header_value_lws">>,
     <<"s_header_value_discard_ws_almost_done", "LF", "s_header_value_discard_lws">>}

Expect ==
    LET edges == {e \in Expected : e[1] = parser.state}
        taken == {e \in edges : e[2] = ch}
    IN /\ at = "switch"
       /\ edges # {}
       /\ IF taken = {} THEN Error ELSE \E e \in taken : Goto(e[3])

------------------------------------------------------------------------------
(* Headers                                                                  *)

(* The headers the parser itself looks at are recognised letter by letter.  *)
FirstLetter ==
    [C |-> "h_C", P |-> "h_matching_proxy_connection", T |-> "h_matching_transfer_encoding",
     U |-> "h_matching_upgrade"]

FieldNext(h, c) ==
    CASE h = "h_C" /\ c = "onnection" -> "h_connection"
      [] h = "h_C" /\ c = "ontent-length" -> "h_content_length"
      [] h = "h_matching_proxy_connection" /\ c = "roxy-connection" -> "h_connection"
      [] h = "h_matching_transfer_encoding" /\ c = "ransfer-encoding" -> "h_transfer_encoding"
      [] h = "h_matching_upgrade" /\ c = "pgrade" -> "h_upgrade"
      [] OTHER -> "h_general"

HeaderFieldStart ==
    /\ In("s_header_field_start")
    /\ \/ ch = "CR" /\ Goto("s_headers_almost_done")
       \/ /\ ch = "LF"
          /\ parser' = [parser EXCEPT !.state = "s_headers_almost_done"]
          /\ Reexecute
          /\ Quiet
       \/ ch \notin {"CR", "LF"} /\ ~TOKEN(ch) /\ Error
       \/ /\ TOKEN(ch)
          /\ parser' = [parser EXCEPT !.state = "s_header_field",
               !.header_state = IF ch \in DOMAIN FirstLetter THEN FirstLetter[ch] ELSE "h_general"]
          /\ Mark("header_field")
          /\ Break
          /\ UNCHANGED <<data, request>>

FieldFlags(h) == IF h = "h_transfer_encoding" THEN {"F_TRANSFER_ENCODING"} ELSE {}

HeaderField ==
    LET h == FieldNext(parser.header_state, ch) IN
    /\ In("s_header_field")
    /\ \/ /\ TOKEN(ch)
          /\ parser' = [parser EXCEPT !.header_state = h, !.flags = @ \cup FieldFlags(h)]
          /\ Break
          /\ Quiet
       \/ /\ ch = ":"
          /\ parser' = [parser EXCEPT !.state = "s_header_value_discard_ws"]
          /\ CallbackData("header_field")
          /\ Break
       \/ ~TOKEN(ch) /\ ch # ":" /\ Error

(* The first token of a Connection header's list.                           *)
ConnectionToken(c) ==
    CASE c = "K" -> "h_matching_connection_keep_alive"
      [] c = "C" -> "h_matching_connection_close"
      [] c = "U" -> "h_matching_connection_upgrade"
      [] OTHER -> "h_matching_connection_token"

TransferToken(c) ==
    IF c = "C" THEN "h_matching_transfer_encoding_chunked"
               ELSE "h_matching_transfer_encoding_token"

ValueStart(h, c) ==
    CASE h = "h_transfer_encoding" -> TransferToken(c)
      [] h = "h_connection" -> ConnectionToken(c)
      [] h = "h_content_length" -> "h_content_length_num"
      [] h \in {"h_matching_transfer_encoding_token_start", "h_content_length_ws",
                "h_matching_connection_token_start"} -> h
      [] OTHER -> "h_general"

(* A content length must be a number, and the first one.                    *)
BadLengthStart ==
    /\ parser.header_state = "h_content_length"
    /\ ~IS_NUM(ch) \/ "F_CONTENTLENGTH" \in parser.flags

HeaderValueStart ==
    LET h == parser.header_state IN
    /\ \/ In("s_header_value_discard_ws") /\ ch \notin Blank
       \/ In("s_header_value_start")
    /\ \/ BadLengthStart /\ Error
       \/ /\ ~BadLengthStart
          /\ parser' = [parser EXCEPT !.state = "s_header_value", !.header_state = ValueStart(h, ch),
               !.flags = @ \cup (IF h = "h_upgrade" THEN {"F_UPGRADE"}
                                 ELSE IF h = "h_content_length" THEN {"F_CONTENTLENGTH"} ELSE {}),
               !.content_length = IF h = "h_content_length" THEN Digit[ch] ELSE @]
          /\ Mark("header_value")
          /\ Break
          /\ UNCHANGED <<data, request>>

HeaderValueDiscardWs ==
    /\ In("s_header_value_discard_ws")
    /\ \/ ch \in {" ", "HT"} /\ Goto("s_header_value_discard_ws")
       \/ ch = "CR" /\ Goto("s_header_value_discard_ws_almost_done")
       \/ ch = "LF" /\ Goto("s_header_value_discard_lws")

(* One more character of a value the parser looks at.                       *)
ListToken(c, token, here) ==
    IF TOKEN(c) THEN token ELSE IF c \in {" ", "HT"} THEN here ELSE "h_general"

ValueNext(h, c) ==
    CASE h = "h_matching_transfer_encoding_token_start" ->
           ListToken(c, TransferToken(c), h)
      [] h = "h_matching_connection_token_start" ->
           ListToken(c, ConnectionToken(c), h)
      [] h = "h_matching_transfer_encoding_chunked" ->
           IF c = "hunked" THEN "h_transfer_encoding_chunked"
                           ELSE "h_matching_transfer_encoding_token"
      [] h = "h_matching_connection_keep_alive" ->
           IF c = "eep-alive" THEN "h_connection_keep_alive" ELSE "h_matching_connection_token"
      [] h = "h_matching_connection_close" ->
           IF c = "lose" THEN "h_connection_close" ELSE "h_matching_connection_token"
      [] h = "h_matching_connection_upgrade" ->
           IF c = "pgrade" THEN "h_connection_upgrade" ELSE "h_matching_connection_token"
      [] h = "h_matching_transfer_encoding_token" ->
           IF c = "," THEN "h_matching_transfer_encoding_token_start" ELSE h
      [] h = "h_matching_connection_token" ->
           IF c = "," THEN "h_matching_connection_token_start" ELSE h
      [] h = "h_transfer_encoding_chunked" ->
           IF c = " " THEN h ELSE "h_matching_transfer_encoding_token"
      [] h \in {"h_connection_keep_alive", "h_connection_close", "h_connection_upgrade"} ->
           IF c = "," THEN "h_matching_connection_token_start"
           ELSE IF c = " " THEN h ELSE "h_matching_connection_token"
      [] h = "h_content_length_num" -> IF c = " " THEN "h_content_length_ws" ELSE h
      [] h = "h_content_length_ws" -> h
      [] OTHER -> "h_general"

(* The flag that a recognised value stands for.                             *)
ValueFlag ==
    [h_connection_keep_alive |-> "F_CONNECTION_KEEP_ALIVE",
     h_connection_close |-> "F_CONNECTION_CLOSE",
     h_connection_upgrade |-> "F_CONNECTION_UPGRADE",
     h_transfer_encoding_chunked |-> "F_CHUNKED"]

ValueFlags(h) == IF h \in DOMAIN ValueFlag THEN {ValueFlag[h]} ELSE {}

(* Bug: the overflow test comes one digit late.                             *)
MutLengthOverflows(n, base) == UllongMax < n

(* The conservative test against overflow, before the digit is added.       *)
LengthOverflows(n, base) == (UllongMax - base) \div base < n

BadLength(c) ==
    \/ parser.header_state = "h_content_length_ws" /\ c # " "
    \/ /\ parser.header_state = "h_content_length_num"
       /\ c # " "
       /\ ~IS_NUM(c) \/ LengthOverflows(parser.content_length, 10)

HeaderValue ==
    LET h == parser.header_state IN
    /\ In("s_header_value")
    /\ \/ /\ ch = "CR"
          /\ parser' = [parser EXCEPT !.state = "s_header_almost_done"]
          /\ CallbackData("header_value")
          /\ Break
       \/ /\ ch = "LF"
          /\ parser' = [parser EXCEPT !.state = "s_header_almost_done"]
          /\ CallbackData("header_value")
          /\ Reexecute
       \/ ch \notin {"CR", "LF"} /\ (ch = "BAD" \/ BadLength(ch)) /\ Error
       \/ /\ ch \notin {"CR", "LF", "BAD"} /\ ~BadLength(ch)
          /\ parser' = [parser EXCEPT !.header_state = ValueNext(h, ch),
               !.flags = IF ch = "," /\ h # "h_transfer_encoding_chunked"
                         THEN @ \cup ValueFlags(h) ELSE @,
               !.content_length = IF h = "h_content_length_num" /\ IS_NUM(ch)
                                  THEN (@ * 10 + Digit[ch]) % (UllongMax + 1) ELSE @]
          /\ Break
          /\ Quiet

(* The line after a value: a continuation, or the end of the header.        *)
HeaderValueLws ==
    LET h == parser.header_state IN
    /\ In("s_header_value_lws")
    /\ \/ /\ ch \in {" ", "HT"}
          /\ parser' = [parser EXCEPT !.state = "s_header_value_start",
               !.header_state = IF h = "h_content_length_num" THEN "h_content_length_ws" ELSE h]
       \/ /\ ch \notin {" ", "HT"}
          /\ parser' = [parser EXCEPT !.state = "s_header_field_start",
                                      !.flags = @ \cup ValueFlags(h)]
    /\ Reexecute
    /\ Quiet

(* The line after a value that is empty so far.                             *)
HeaderValueDiscardLws ==
    LET h == parser.header_state IN
    /\ In("s_header_value_discard_lws")
    /\ \/ ch \in {" ", "HT"} /\ Goto("s_header_value_discard_ws")
       \/ ch \notin {" ", "HT"} /\ h = "h_content_length" /\ Error
       \/ /\ ch \notin {" ", "HT"} /\ h # "h_content_length"
          /\ parser' = [parser EXCEPT !.state = "s_header_field_start",
                                      !.flags = @ \cup ValueFlags(h)]
          /\ request' = headerValueCallBack(request, <<>>)
          /\ Reexecute
          /\ UNCHANGED <<data, marks>>

------------------------------------------------------------------------------
(* The end of the headers                                                   *)

AmbiguousLength(q) == {"F_TRANSFER_ENCODING", "F_CONTENTLENGTH"} \subseteq q.flags

HeadersAlmostDone ==
    LET trailing == "F_TRAILING" \in parser.flags IN
    /\ In("s_headers_almost_done")
    /\ \/ /\ ch # "LF" \/ (~trailing /\ AmbiguousLength(parser))
          /\ Error
       \/ /\ ch = "LF" /\ trailing
          /\ parser' = [parser EXCEPT !.state = "s_message_done"]
          /\ Reexecute
          /\ Quiet
       \/ /\ ch = "LF" /\ ~trailing /\ ~AmbiguousLength(parser)
          /\ parser' = [parser EXCEPT !.state = "s_headers_done",
               !.upgrade = \/ {"F_UPGRADE", "F_CONNECTION_UPGRADE"} \subseteq parser.flags
                           \/ parser.method = "CONNECT"]
          /\ request' = headerCompleteCallBack(request)
          /\ Reexecute
          /\ UNCHANGED <<data, marks>>

(* A message ends here; after an upgrade the call returns at once.          *)
MessageComplete ==
    /\ request' = messageCompleteCallBack(request)
    /\ p' = p + 1
    /\ at' = IF parser.upgrade THEN "return" ELSE "fetch"
    /\ UNCHANGED <<data, marks>>

HeadersDone ==
    LET q == [parser EXCEPT !.nread = 0]
        chunked == "F_CHUNKED" \in q.flags
        coded == "F_TRANSFER_ENCODING" \in q.flags
        hasBody == chunked \/ q.content_length \notin {0, UllongMax}
    IN /\ In("s_headers_done")
       /\ ch = "LF"
       /\ \/ /\ IF q.upgrade THEN q.method = "CONNECT" \/ ~hasBody ELSE ~hasBody /\ ~coded
             /\ parser' = [q EXCEPT !.state = NEW_MESSAGE(q)]
             /\ MessageComplete
          \/ /\ ~(q.upgrade /\ q.method = "CONNECT")
             /\ chunked
             /\ parser' = [q EXCEPT !.state = "s_chunk_size_start"]
             /\ Break
             /\ Quiet
          \/ /\ ~(q.upgrade /\ (q.method = "CONNECT" \/ ~hasBody))
             /\ ~chunked /\ coded
             /\ Error
          \/ /\ ~(q.upgrade /\ q.method = "CONNECT")
             /\ ~chunked /\ ~coded /\ hasBody
             /\ parser' = [q EXCEPT !.state = "s_body_identity"]
             /\ Break
             /\ Quiet

------------------------------------------------------------------------------
(* Bodies                                                                   *)

(* How much of the body the data holds.                                     *)
ToRead == IF parser.content_length < Len(data) - p + 1
          THEN parser.content_length ELSE Len(data) - p + 1

(* The last byte of a body is seen again by s_message_done.                 *)
BodyIdentity ==
    LET n == ToRead
        last == parser.content_length = n
        start == IF marks.body = 0 THEN p ELSE marks.body
    IN /\ In("s_body_identity")
       /\ parser' = [parser EXCEPT !.content_length = @ - n,
                                   !.state = IF last THEN "s_message_done" ELSE @]
       /\ IF last
          THEN /\ request' = bodyCallBack(request, SubSeq(data, start, p + n - 1), TRUE)
               /\ marks' = [marks EXCEPT !.body = 0]
               /\ at' = "switch"
               /\ p' = p + n - 1
          ELSE /\ Mark("body")
               /\ at' = "fetch"
               /\ p' = p + n
               /\ UNCHANGED request
       /\ UNCHANGED data

MessageDone ==
    /\ In("s_message_done")
    /\ parser' = [parser EXCEPT !.state = NEW_MESSAGE(parser)]
    /\ MessageComplete

ChunkSizeStart ==
    /\ In("s_chunk_size_start")
    /\ \/ ch \notin DOMAIN Unhex /\ Error
       \/ /\ ch \in DOMAIN Unhex
          /\ parser' = [parser EXCEPT !.content_length = Unhex[ch], !.state = "s_chunk_size"]
          /\ Break
          /\ Quiet

BadChunkSize ==
    /\ ch \notin {"CR", ";", " "}
    /\ ch \notin DOMAIN Unhex \/ LengthOverflows(parser.content_length, 16)

ChunkSize ==
    /\ In("s_chunk_size")
    /\ \/ ch = "CR" /\ Goto("s_chunk_size_almost_done")
       \/ ch \in {";", " "} /\ Goto("s_chunk_parameters")
       \/ BadChunkSize /\ Error
       \/ /\ ch \in DOMAIN Unhex /\ ~BadChunkSize
          /\ parser' = [parser EXCEPT !.content_length = (@ * 16 + Unhex[ch]) % (UllongMax + 1)]
          /\ Break
          /\ Quiet

ChunkParameters ==
    /\ In("s_chunk_parameters")
    /\ Goto(IF ch = "CR" THEN "s_chunk_size_almost_done" ELSE "s_chunk_parameters")

(* A chunk of size 0 is followed by the trailing headers.                   *)
ChunkSizeAlmostDone ==
    LET final == parser.content_length = 0 IN
    /\ In("s_chunk_size_almost_done")
    /\ \/ ch # "LF" /\ Error
       \/ /\ ch = "LF"
          /\ parser' = [parser EXCEPT !.nread = 0,
               !.flags = IF final THEN @ \cup {"F_TRAILING"} ELSE @,
               !.state = IF final THEN "s_header_field_start" ELSE "s_chunk_data"]
          /\ Break
          /\ Quiet

ChunkData ==
    LET n == ToRead IN
    /\ In("s_chunk_data")
    /\ parser' = [parser EXCEPT !.content_length = @ - n,
                    !.state = IF parser.content_length = n THEN "s_chunk_data_almost_done" ELSE @]
    /\ Mark("body")
    /\ at' = "fetch"
    /\ p' = p + n
    /\ UNCHANGED <<data, request>>

ChunkDataAlmostDone ==
    /\ In("s_chunk_data_almost_done")
    /\ \/ ch # "CR" /\ Error
       \/ /\ ch = "CR"
          /\ parser' = [parser EXCEPT !.state = "s_chunk_data_done"]
          /\ CallbackData("body")
          /\ Break

ChunkDataDone ==
    /\ In("s_chunk_data_done")
    /\ \/ ch # "LF" /\ Error
       \/ /\ ch = "LF"
          /\ parser' = [parser EXCEPT !.nread = 0, !.state = "s_chunk_size_start"]
          /\ Break
          /\ Quiet

(* One step of a call.  A callback that aborts is the process's last step.  *)
ParserStep ==
    /\ ~request.aborted
    /\ \/ Fetch \/ EndOfData
       \/ Dead \/ StartReq \/ ReqMethod \/ SpacesBeforeUrl \/ ReqUrlStart \/ ReqUrl
       \/ HttpStart \/ HttpMajor \/ HttpMinor \/ Expect
       \/ HeaderFieldStart \/ HeaderField \/ HeaderValueDiscardWs \/ HeaderValueStart
       \/ HeaderValue \/ HeaderValueLws \/ HeaderValueDiscardLws
       \/ HeadersAlmostDone \/ HeadersDone
       \/ BodyIdentity \/ MessageDone
       \/ ChunkSizeStart \/ ChunkSize \/ ChunkParameters \/ ChunkSizeAlmostDone
       \/ ChunkData \/ ChunkDataAlmostDone \/ ChunkDataDone

(* HTTPContext::parse: the number of bytes, or -1 for a bad request.        *)
ParseFailed == p - 1 # Len(data) \/ parser.http_errno # "HPE_OK"

------------------------------------------------------------------------------
(* Properties                                                               *)

(* The assertions of http_parser_execute hold: of the states of a chunked   *)
(* body and its count of header bytes (http_parser.c:1988-2102), of the     *)
(* lengths that are left (1939, 2074), of the header states that a name or  *)
(* a value may be in (1361, 1517), and at most one piece of text is open    *)
(* when the data ends (2125).                                               *)
AssertionsHold ==
    /\ at = "switch" =>
         /\ parser.state = "s_chunk_size_start" => parser.nread = 1
         /\ parser.state \in {"s_chunk_size_start", "s_chunk_size", "s_chunk_parameters",
                              "s_chunk_size_almost_done", "s_chunk_data",
                              "s_chunk_data_almost_done", "s_chunk_data_done"}
              => "F_CHUNKED" \in parser.flags
         /\ parser.state \in {"s_body_identity", "s_chunk_data"}
              => parser.content_length \notin {0, UllongMax}
         /\ parser.state = "s_chunk_data_almost_done" => parser.content_length = 0
         /\ parser.state = "s_header_field"
              => parser.header_state \in
                   {"h_general", "h_C", "h_matching_proxy_connection",
                    "h_matching_transfer_encoding", "h_matching_upgrade", "h_connection",
                    "h_content_length", "h_transfer_encoding", "h_upgrade"}
         /\ parser.state = "s_header_value"
              => parser.header_state \notin {"h_connection", "h_transfer_encoding"}
    /\ at = "fetch" /\ p > Len(data)
         => Cardinality({m \in DOMAIN marks : marks[m] # 0}) <= 1
==============================================================================
