----------------------------- MODULE HttpProofs ------------------------------
(***************************************************************************)
(* HTTPServer on a connection: its type invariant, the assertions of        *)
(* http_parser_execute, and that how a request is cut into reads leaves no  *)
(* trace in it, for every stream of bytes that a client may send.           *)
(*                                                                          *)
(* A request is spread over the request record and the pieces of text that  *)
(* are still open.  The argument is that exactly the text of the parser's   *)
(* state is open, so that every step is one of a few kinds: it stays in a   *)
(* text, opens one, closes one, ends the headers or the message, takes a    *)
(* piece of a body, or takes nothing.                                       *)
(***************************************************************************)
EXTENDS HttpServer, SequenceFacts

------------------------------------------------------------------------------
(* The invariant                                                            *)

(* http_parser_execute is at work.                                          *)
Running == at \in {"fetch", "switch"}

(* The parser is not in error.                                              *)
Sound == parser.http_errno = "HPE_OK"

(* The states inside a URL, and the ones that take a body.                  *)
InUrl == UrlStartStates \cup UrlStates
BodyText == {"s_body_identity", "s_chunk_data"}

(* The states of a chunked body.                                            *)
ChunkStates == {"s_chunk_size_start", "s_chunk_size", "s_chunk_parameters",
                "s_chunk_size_almost_done", "s_chunk_data", "s_chunk_data_almost_done",
                "s_chunk_data_done"}

(* The text that is open in a state.                                        *)
OpenText(s) ==
    IF s \in InUrl THEN "url"
    ELSE IF s = "s_header_field" THEN "header_field"
    ELSE IF s = "s_header_value" THEN "header_value"
    ELSE "none"

(* The kinds of text that a state keeps open from read to read.             *)
Texts == {"url", "header_field", "header_value"}

(* Where the loop can be.                                                   *)
Places == {"poll", "fetch", "switch", "return", "read", "functors", "run"}
MarkNames == {"url", "header_field", "header_value", "body"}

(* The position is inside the data, or one past its end.                    *)
Cursor ==
    /\ data \in Seq(Symbols) /\ at \in Places
    /\ p \in 1..(Len(data) + 1)
    /\ at = "switch" => p <= Len(data)

(* A mark is set for the text of the state and for no other. The mark of a  *)
(* body is set only where its chunk, or the data, has just ended.           *)
Marks ==
    /\ DOMAIN marks = MarkNames
    /\ \A m \in MarkNames : marks[m] \in 0..Len(data)
    /\ ~Running /\ Sound => \A m \in MarkNames : marks[m] = 0
    /\ Running =>
         /\ \A m \in MarkNames : marks[m] <= p
         /\ \A m \in Texts : marks[m] # 0 <=> OpenText(parser.state) = m
         /\ marks.body # 0 => \/ parser.state = "s_chunk_data_almost_done"
                              \/ parser.state \in BodyText /\ at = "fetch" /\ p > Len(data)

(* The fields of a parser, and the header states of a name.                 *)
ParserFields == {"state", "header_state", "flags", "content_length", "method", "index", "http_major",
                 "http_minor", "upgrade", "nread", "http_errno"}

FieldStates == {"h_general", "h_C", "h_matching_proxy_connection",
                "h_matching_transfer_encoding", "h_matching_upgrade", "h_connection",
                "h_content_length", "h_transfer_encoding", "h_upgrade"}

(* What the assertions of the states need: each is what the step into its   *)
(* state has made true.                                                     *)
ParserOk ==
    /\ DOMAIN parser = ParserFields
    /\ parser.content_length \in 0..UllongMax
    /\ parser.nread \in 0..MaxHeaderSize
    /\ Running \/ at = "read" => Sound
    /\ parser.state \in ChunkStates => "F_CHUNKED" \in parser.flags
    /\ parser.state \in BodyText => parser.content_length \notin {0, UllongMax}
    /\ parser.state \in {"s_chunk_size", "s_chunk_parameters", "s_chunk_size_almost_done"}
         => parser.content_length # UllongMax
    /\ parser.state = "s_chunk_data_almost_done" => parser.content_length = 0
    /\ parser.state = "s_chunk_size_start" /\ Sound
         => parser.nread = IF at = "switch" THEN 1 ELSE 0
    /\ parser.state = "s_header_field" => parser.header_state \in FieldStates
    /\ parser.state = "s_header_value"
         => parser.header_state \notin {"h_connection", "h_transfer_encoding"}

(* The fields of a request, and the states between the first symbol of a    *)
(* header's name and the last of its value.                                 *)
RequestFields == {"method", "request_url", "request_path", "query_string", "fragment", "body",
                  "last_header_element", "headers", "first", "second", "body_is_final",
                  "message_is_end", "aborted"}

NameStates == {"s_header_field", "s_header_value_discard_ws",
               "s_header_value_discard_ws_almost_done", "s_header_value_discard_lws",
               "s_header_value"}

(* What a request is made of.                                               *)
RequestType(r) ==
    /\ DOMAIN r = RequestFields
    /\ r.request_url \in Seq(Symbols) /\ r.body \in Seq(Symbols)
    /\ r.first \in Seq(Symbols) /\ r.second \in Seq(Symbols)

(* A read that ends inside a name has delivered its first part, so that the *)
(* next part is added to it; and last_header_element, not initialised at    *)
(* first, says FIELD only there, or where no header has come.               *)
RequestOk ==
    /\ RequestType(request)
    /\ parser.state = "s_header_field" /\ ~Running /\ Sound
         => request.last_header_element = "FIELD"
    /\ request.last_header_element = "FIELD" =>
         \/ request.first = <<>> /\ request.second = <<>>
         \/ parser.state \in NameStates

(* The inductive invariant.                                                 *)
Inv ==
    /\ files \subseteq DOMAIN FileSize /\ unread \in Seq(Symbols)
    /\ Cursor /\ Marks /\ ParserOk /\ RequestOk

(* What has come in grows by what the step takes.                           *)
Grows == Seen' = Grown(Seen, parser.state, parser'.state, Taken)

------------------------------------------------------------------------------
(* What the callbacks do, and what a request says                           *)

(* A text that is cut in two is the two parts together.                     *)
LEMMA Joins ==
    ASSUME NEW B, NEW d \in Seq(B), NEW i \in 1..(Len(d) + 1), NEW j \in i..(Len(d) + 1),
           NEW k \in (j - 1)..Len(d)
    PROVE  /\ SubSeq(d, i, j - 1) \in Seq(B) /\ SubSeq(d, j, k) \in Seq(B)
           /\ SubSeq(d, i, k) = SubSeq(d, i, j - 1) \o SubSeq(d, j, k)
<1>1. /\ SubSeq(d, i, j - 1) \in Seq(B) /\ Len(SubSeq(d, i, j - 1)) = j - i
      /\ \A n \in 1..(j - i) : SubSeq(d, i, j - 1)[n] = d[i + n - 1]
  OBVIOUS
<1>2. /\ SubSeq(d, j, k) \in Seq(B) /\ Len(SubSeq(d, j, k)) = k + 1 - j
      /\ \A n \in 1..(k + 1 - j) : SubSeq(d, j, k)[n] = d[j + n - 1]
  OBVIOUS
<1>3. /\ SubSeq(d, i, k) \in Seq(B) /\ Len(SubSeq(d, i, k)) = k + 1 - i
      /\ \A n \in 1..(k + 1 - i) : SubSeq(d, i, k)[n] = d[i + n - 1]
  OBVIOUS
<1> QED
  BY <1>1, <1>2, <1>3

(* A text of one symbol, and one of none.                                   *)
LEMMA OneSymbol ==
    ASSUME NEW B, NEW d \in Seq(B), NEW i \in 1..Len(d)
    PROVE  /\ d[i] \in B /\ <<d[i]>> \in Seq(B)
           /\ SubSeq(d, i, i) = <<d[i]>> /\ SubSeq(d, i, i - 1) = <<>>
<1>1. d[i] \in B
  OBVIOUS
<1>2. <<d[i]>> \in Seq(B) /\ Len(<<d[i]>>) = 1 /\ <<d[i]>>[1] = d[i]
  BY <1>1
<1>3. SubSeq(d, i, i) \in Seq(B) /\ Len(SubSeq(d, i, i)) = 1 /\ SubSeq(d, i, i)[1] = d[i]
  OBVIOUS
<1>4. SubSeq(d, i, i) = <<d[i]>>
  <2>1. \A j \in 1..1 : SubSeq(d, i, i)[j] = <<d[i]>>[j]
    BY <1>2, <1>3
  <2> QED
    BY <1>2, <1>3, <2>1, SeqEqual
<1> QED
  BY <1>1, <1>2, <1>4

(* What a request says of itself.                                           *)
View(url, headers, first, second, body) ==
    [url |-> url, headers |-> headers, first |-> first, second |-> second, body |-> body]

(* What it says when another piece of a text is added.                      *)
Told(r) == View(r.request_url, r.headers, r.first, r.second, r.body)
UrlPart(r, t) == View(r.request_url \o t, r.headers, r.first, r.second, r.body)
ValuePart(r, t) == View(r.request_url, r.headers, r.first, r.second \o t, r.body)
BodyPart(r, t) == View(r.request_url, r.headers, r.first, r.second, r.body \o t)

(* A piece of a name: of the header at hand, or of a new one.               *)
NamePart(r, t) ==
    LET fresh == r.last_header_element # "FIELD" IN
    View(r.request_url,
         IF fresh /\ r.first # <<>> THEN Emplace(r.headers, r.first, r.second) ELSE r.headers,
         IF fresh THEN t ELSE r.first \o t,
         IF fresh THEN <<>> ELSE r.second,
         r.body)

(* The callbacks do what these say: headerFieldCallBack,                    *)
LEMMA NameIs ==
    ASSUME NEW r, RequestType(r), NEW t \in Seq(Symbols)
    PROVE  LET q == headerFieldCallBack(r, t) IN
           /\ RequestType(q)
           /\ q.last_header_element = "FIELD" /\ q.aborted = r.aborted
           /\ Told(q) = NamePart(r, t)
BY DEF headerFieldCallBack, RequestType, RequestFields, Told, NamePart, View

(* headerValueCallBack,                                                     *)
LEMMA ValueIs ==
    ASSUME NEW r, RequestType(r), NEW t \in Seq(Symbols)
    PROVE  LET q == headerValueCallBack(r, t) IN
           /\ RequestType(q)
           /\ q.last_header_element = "VALUE" /\ q.aborted = r.aborted
           /\ Told(q) = ValuePart(r, t)
BY DEF headerValueCallBack, RequestType, RequestFields, Told, ValuePart, View

(* urlCallBack, whatever the URL parser makes of it,                        *)
LEMMA UrlIs ==
    ASSUME NEW r, RequestType(r), NEW t \in Seq(Symbols), NEW m
    PROVE  LET q == urlCallBack(r, t, m) IN
           /\ RequestType(q)
           /\ q.last_header_element = r.last_header_element
           /\ Told(q) = UrlPart(r, t)
BY DEF urlCallBack, RequestType, RequestFields, Told, UrlPart, View

(* bodyCallBack,                                                            *)
LEMMA BodyIs ==
    ASSUME NEW r, RequestType(r), NEW t \in Seq(Symbols), NEW f
    PROVE  LET q == bodyCallBack(r, t, f) IN
           /\ RequestType(q)
           /\ q.last_header_element = r.last_header_element
           /\ Told(q) = BodyPart(r, t)
BY DEF bodyCallBack, RequestType, RequestFields, Told, BodyPart, View

(* and the two that keep the last header.                                   *)
LEMMA KeepIs ==
    ASSUME NEW r, RequestType(r)
    PROVE  LET q == KeepLastHeader(r)
               c == messageCompleteCallBack(r) IN
           /\ RequestType(q) /\ RequestType(c)
           /\ q.last_header_element = r.last_header_element
           /\ c.last_header_element = r.last_header_element
           /\ c.aborted = r.aborted /\ q.aborted = r.aborted
           /\ Told(c) = Told(q)
           /\ Told(q) = View(r.request_url,
                    IF r.second = <<>> THEN r.headers ELSE Emplace(r.headers, r.first, r.second),
                    r.first, r.second, r.body)
BY DEF KeepLastHeader, messageCompleteCallBack, RequestType, RequestFields, Told, View

(* What has come in when the text t of kind m is open.                      *)
Part(m, r, t) ==
    CASE m = "url" -> UrlPart(r, t)
      [] m = "header_field" -> NamePart(r, t)
      [] m = "header_value" -> ValuePart(r, t)
      [] m = "body" -> BodyPart(r, t)

(* Seen, for any values of the variables.                                   *)
SeenBy(d, n, k, r) ==
    LET piece(m) == IF k[m] = 0 THEN <<>> ELSE SubSeq(d, k[m], n - 1)
        h == IF k.header_field = 0 THEN r ELSE headerFieldCallBack(r, piece("header_field"))
    IN [url |-> r.request_url \o piece("url"),
        headers |-> h.headers, first |-> h.first, second |-> h.second \o piece("header_value"),
        body |-> r.body \o piece("body")]

(* Without an open text, the request says it all.                           *)
LEMMA SeenNone ==
    ASSUME NEW d, NEW n, NEW k, NEW r, RequestType(r), \A m \in MarkNames : k[m] = 0
    PROVE  SeenBy(d, n, k, r) = Told(r)
<1>1. \A s \in Seq(Symbols) : s \o <<>> = s
  OBVIOUS
<1> QED
  BY <1>1 DEF SeenBy, Told, View, RequestType, MarkNames

(* With one, that comes on top.                                             *)
LEMMA SeenOne ==
    ASSUME NEW d, NEW n, NEW k, NEW r, RequestType(r), NEW o \in MarkNames, k[o] # 0,
           \A m \in MarkNames \ {o} : k[m] = 0, SubSeq(d, k[o], n - 1) \in Seq(Symbols)
    PROVE  SeenBy(d, n, k, r) = Part(o, r, SubSeq(d, k[o], n - 1))
<1> DEFINE t == SubSeq(d, k[o], n - 1)
<1>1. \A s \in Seq(Symbols) : s \o <<>> = s
  OBVIOUS
<1>2. CASE o = "url"
  BY <1>1, <1>2 DEF SeenBy, Part, UrlPart, View, RequestType, MarkNames
<1>3. CASE o = "header_field"
  <2> DEFINE q == headerFieldCallBack(r, t)
  <2>1. RequestType(q) /\ Told(q) = NamePart(r, t)
    BY NameIs
  <2>2. SeenBy(d, n, k, r) = View(r.request_url, q.headers, q.first, q.second, r.body)
    BY <2>1, <1>1, <1>3 DEF SeenBy, View, RequestType, MarkNames
  <2> HIDE DEF q
  <2> QED
    BY <2>1, <2>2, <1>3 DEF Told, NamePart, Part, View
<1>4. CASE o = "header_value"
  BY <1>1, <1>4 DEF SeenBy, Part, ValuePart, View, RequestType, MarkNames
<1>5. CASE o = "body"
  BY <1>1, <1>5 DEF SeenBy, Part, BodyPart, View, RequestType, MarkNames
<1> QED
  BY <1>2, <1>3, <1>4, <1>5 DEF MarkNames

------------------------------------------------------------------------------
(* What Grown does                                                          *)

(* The states in which the headers or the message have ended.               *)
Ends == {"s_headers_done", "s_start_req", "s_dead"}

(* Grown, field by field.                                                   *)
LEMMA GrownIs ==
    ASSUME NEW u, NEW h, NEW f, NEW s, NEW b, NEW from, NEW to, NEW text
    PROVE  LET opens == to = "s_header_field" /\ from = "s_header_field_start"
               ends == from # to /\ to \in Ends
           IN Grown(View(u, h, f, s, b), from, to, text) =
              View(IF to \in InUrl THEN u \o text ELSE u,
                   IF (opens /\ f # <<>>) \/ (ends /\ s # <<>>) THEN Emplace(h, f, s) ELSE h,
                   IF opens THEN text ELSE IF to = "s_header_field" THEN f \o text ELSE f,
                   IF opens THEN <<>> ELSE IF to = "s_header_value" THEN s \o text ELSE s,
                   IF from \in BodyText THEN b \o text ELSE b)
BY DEF Grown, View, Ends, InUrl, BodyText

(* Which text is open, by state.                                            *)
LEMMA TextIs ==
    ASSUME NEW s
    PROVE  /\ OpenText(s) \in Texts \cup {"none"}
           /\ s \in InUrl <=> OpenText(s) = "url"
           /\ s = "s_header_field" <=> OpenText(s) = "header_field"
           /\ s = "s_header_value" <=> OpenText(s) = "header_value"
           /\ s \in BodyText \cup Ends \cup ChunkStates => OpenText(s) = "none"
BY DEF OpenText, Texts, InUrl, UrlStartStates, UrlStates, BodyText, Ends, ChunkStates

(* The parser is about to look at a symbol, and no body is open.            *)
AtSymbol ==
    /\ Inv /\ at = "switch"
    /\ parser.state \notin BodyText \cup {"s_chunk_data_almost_done"}

(* A step between two states that leaves the headers as they are.           *)
Ordinary ==
    /\ parser'.state \in Ends => parser'.state = parser.state
    /\ parser'.http_errno = "HPE_OK"

(* What the invariant says there.                                           *)
LEMMA AtSymbolIs ==
    ASSUME AtSymbol
    PROVE  /\ p \in 1..Len(data) /\ data[p] \in Symbols
           /\ SubSeq(data, p, p) = <<ch>> /\ <<ch>> \in Seq(Symbols)
           /\ SubSeq(data, p, p - 1) = <<>>
           /\ Taken = SubSeq(data, p, p' - 1)
           /\ marks.body = 0
           /\ \A m \in Texts : marks[m] # 0 <=> OpenText(parser.state) = m
           /\ \A m \in MarkNames : marks[m] \in 0..p
           /\ \A m \in Texts : marks[m] # 0 =>
                /\ SubSeq(data, marks[m], p - 1) \in Seq(Symbols)
                /\ SubSeq(data, marks[m], p) = SubSeq(data, marks[m], p - 1) \o <<ch>>
           /\ SeenBy(data, p, marks, request) = Seen
<1>1. /\ p \in 1..Len(data) /\ data[p] \in Symbols /\ data \in Seq(Symbols)
  BY DEF AtSymbol, Inv, Cursor
<1>2. SubSeq(data, p, p) = <<ch>> /\ <<ch>> \in Seq(Symbols) /\ SubSeq(data, p, p - 1) = <<>>
  BY <1>1, OneSymbol DEF ch
<1>3. /\ Taken = SubSeq(data, p, p' - 1)
      /\ marks.body = 0
  BY DEF AtSymbol, Inv, Marks, Taken, Running, BodyText
<1>4. /\ \A m \in Texts : marks[m] # 0 <=> OpenText(parser.state) = m
      /\ \A m \in MarkNames : marks[m] \in 0..p
  BY <1>1 DEF AtSymbol, Inv, Marks, Running
<1>5. ASSUME NEW m \in Texts, marks[m] # 0
      PROVE  /\ SubSeq(data, marks[m], p - 1) \in Seq(Symbols)
             /\ SubSeq(data, marks[m], p) = SubSeq(data, marks[m], p - 1) \o <<ch>>
  <2>1. marks[m] \in 1..p
    BY <1>4, <1>5 DEF Texts, MarkNames
  <2>2. p \in marks[m]..(Len(data) + 1) /\ p \in (p - 1)..Len(data)
        /\ marks[m] \in 1..(Len(data) + 1)
    BY <2>1, <1>1
  <2>3. /\ SubSeq(data, marks[m], p - 1) \in Seq(Symbols)
        /\ SubSeq(data, marks[m], p) = SubSeq(data, marks[m], p - 1) \o SubSeq(data, p, p)
    BY <2>2, <1>1, Joins
  <2> QED
    BY <2>3, <1>2
<1>6. SeenBy(data, p, marks, request) = Seen
  BY DEF Seen, SeenBy, Held, Piece
<1> QED
  BY <1>1, <1>2, <1>3, <1>4, <1>5, <1>6

(* A step outside of every text adds nothing.                               *)
LEMMA NoTextGrows ==
    ASSUME NEW r, NEW from, NEW to, NEW text, from \notin BodyText,
           to \in Ends => to = from, OpenText(to) = "none"
    PROVE  Grown(Told(r), from, to, text) = Told(r)
<1>1. to \notin InUrl /\ to # "s_header_field" /\ to # "s_header_value"
  BY TextIs
<1> QED
  BY <1>1, GrownIs DEF Told

(* A step inside a text adds what it takes to it.                           *)
LEMMA PartGrows ==
    ASSUME NEW r, RequestType(r), NEW t \in Seq(Symbols), NEW c \in Seq(Symbols),
           NEW from, NEW to, OpenText(from) \in Texts, OpenText(to) = OpenText(from)
    PROVE  Grown(Part(OpenText(from), r, t), from, to, c) = Part(OpenText(from), r, t \o c)
<1>1. from \notin BodyText /\ to \notin Ends
  BY TextIs DEF Texts
<1>2. /\ (r.request_url \o t) \o c = r.request_url \o (t \o c)
      /\ (r.first \o t) \o c = r.first \o (t \o c)
      /\ (r.second \o t) \o c = r.second \o (t \o c)
  <2>1. r.request_url \in Seq(Symbols) /\ r.first \in Seq(Symbols) /\ r.second \in Seq(Symbols)
    BY DEF RequestType
  <2>2. Assoc(r.request_url, t, c) /\ Assoc(r.first, t, c) /\ Assoc(r.second, t, c)
    BY <2>1, Associates
  <2> QED
    BY <2>2 DEF Assoc
<1>3. CASE OpenText(from) = "url"
  <2>1. to \in InUrl /\ to # "s_header_field" /\ to # "s_header_value"
    BY <1>3, TextIs
  <2>2. Grown(UrlPart(r, t), from, to, c)
          = View((r.request_url \o t) \o c, r.headers, r.first, r.second, r.body)
    BY <2>1, <1>1, GrownIs DEF UrlPart
  <2> QED
    BY <2>2, <1>2, <1>3 DEF Part, UrlPart
<1>4. CASE OpenText(from) = "header_field"
  <2>1. to \notin InUrl /\ to = "s_header_field" /\ from = "s_header_field"
    BY <1>4, TextIs
  <2>2. ASSUME NEW u, NEW h, NEW f, NEW s, NEW b
        PROVE  Grown(View(u, h, f, s, b), from, to, c) = View(u, h, f \o c, s, b)
    BY <2>1, <1>1, GrownIs
  <2>3. CASE r.last_header_element = "FIELD"
    <3>1. \A x : NamePart(r, x) = View(r.request_url, r.headers, r.first \o x, r.second, r.body)
      BY <2>3 DEF NamePart
    <3>2. Grown(NamePart(r, t), from, to, c)
            = View(r.request_url, r.headers, (r.first \o t) \o c, r.second, r.body)
      BY <3>1, <2>2
    <3> QED
      BY <3>1, <3>2, <1>2, <1>4 DEF Part
  <2>4. CASE r.last_header_element # "FIELD"
    BY <2>2, <2>4, <1>2, <1>4 DEF Part, NamePart
  <2> QED
    BY <2>3, <2>4
<1>5. CASE OpenText(from) = "header_value"
  <2>1. to \notin InUrl /\ to # "s_header_field" /\ to = "s_header_value"
    BY <1>5, TextIs
  <2>2. Grown(ValuePart(r, t), from, to, c)
          = View(r.request_url, r.headers, r.first, (r.second \o t) \o c, r.body)
    BY <2>1, <1>1, GrownIs DEF ValuePart
  <2> QED
    BY <2>2, <1>2, <1>5 DEF Part, ValuePart
<1> QED
  BY <1>3, <1>4, <1>5 DEF Texts

------------------------------------------------------------------------------
(* Steps outside of bodies                                                  *)

(* Break or Reexecute keeps the position.                                   *)
Moves == Break \/ Reexecute

(* Either of them takes one symbol, or none.                                *)
LEMMA MoveIs ==
    ASSUME AtSymbol, Moves, data' = data
    PROVE  /\ Cursor' /\ p' \in p..(p + 1) /\ Running' /\ p' \in 1..(Len(data) + 1)
           /\ Break => p' - 1 = p /\ Taken = <<ch>>
           /\ ~Break => p' = p /\ Taken = <<>>
<1>1. p \in 1..Len(data) /\ data \in Seq(Symbols)
  BY AtSymbolIs DEF AtSymbol, Inv, Cursor
<1>2. CASE Break
  <2>1. p' = p + 1 /\ at' = "fetch"
    BY <1>2 DEF Break
  <2>2. Cursor' /\ p' \in p..(p + 1) /\ Running' /\ p' - 1 = p /\ p' \in 1..(Len(data) + 1)
    BY <2>1, <1>1 DEF Cursor, Running, Places
  <2> QED
    BY <2>2, <1>2, AtSymbolIs
<1>3. CASE ~Break
  <2>1. p' = p /\ at' = "switch"
    BY <1>3 DEF Moves, Reexecute
  <2>2. Cursor' /\ p' \in p..(p + 1) /\ Running' /\ p' \in 1..(Len(data) + 1)
    BY <2>1, <1>1 DEF Cursor, Running, Places
  <2> QED
    BY <2>1, <2>2, <1>3, AtSymbolIs
<1> QED
  BY <1>2, <1>3

(* The mark of the text of the state is the only one.                       *)
LEMMA OneMark ==
    ASSUME AtSymbol
    PROVE  /\ \A m \in MarkNames : m # OpenText(parser.state) => marks[m] = 0
           /\ \A m \in MarkNames : m = OpenText(parser.state) => marks[m] # 0 /\ m \in Texts
           /\ OpenText(parser.state) \in Texts => OpenText(parser.state) \in MarkNames
           /\ RequestType(request)
<1>1. marks.body = 0 /\ (\A m \in Texts : marks[m] # 0 <=> OpenText(parser.state) = m)
  BY AtSymbolIs
<1>2. OpenText(parser.state) \in Texts \cup {"none"}
  BY TextIs
<1>3. RequestType(request)
  BY DEF AtSymbol, Inv, RequestOk
<1> QED
  BY <1>1, <1>2, <1>3 DEF Texts, MarkNames

(* The parser stays in the text it is in, or in none.                       *)
LEMMA Stays ==
    ASSUME AtSymbol, Ordinary, Quiet,
           OpenText(parser'.state) = OpenText(parser.state),
           parser.state \in NameStates => parser'.state \in NameStates,
           Break \/ (Reexecute /\ OpenText(parser.state) = "none")
    PROVE  Cursor' /\ Marks' /\ RequestOk' /\ Grows
<1>1. /\ Moves /\ data' = data /\ marks' = marks /\ request' = request
  BY DEF Moves, Quiet
<1>2. /\ Cursor' /\ p' \in p..(p + 1) /\ Running' /\ p' \in 1..(Len(data) + 1)
      /\ Break => p' - 1 = p /\ Taken = <<ch>>
  BY <1>1, MoveIs
<1>3. Marks'
  <2>1. p \in Int /\ p <= p'
    BY <1>2 DEF AtSymbol, Inv, Cursor
  <2>2. DOMAIN marks = MarkNames /\ \A m \in MarkNames : marks[m] \in 0..Len(data) /\ marks[m] <= p
    BY DEF AtSymbol, Inv, Marks, Running
  <2>3. \A m \in MarkNames : marks[m] <= p'
    BY <2>1, <2>2, <1>2
  <2>4. marks.body = 0 /\ (\A m \in Texts : marks[m] # 0 <=> OpenText(parser'.state) = m)
    BY AtSymbolIs
  <2> QED
    BY <1>1, <1>2, <2>2, <2>3, <2>4 DEF Marks
<1>4. RequestOk'
  BY <1>1, <1>2 DEF AtSymbol, Inv, RequestOk, Ordinary
<1>5. Seen' = SeenBy(data, p', marks, request)
  BY <1>1 DEF Seen, SeenBy, Held, Piece
<1>6. parser.state \notin BodyText /\ (parser'.state \in Ends => parser'.state = parser.state)
  BY DEF AtSymbol, Ordinary
<1>7. ASSUME OpenText(parser.state) = "none" PROVE Grows
  <2>1. \A m \in MarkNames : marks[m] = 0
    BY <1>7, OneMark DEF MarkNames
  <2>2. Seen = Told(request) /\ Seen' = Told(request)
    BY <2>1, <1>5, SeenNone, OneMark, AtSymbolIs
  <2>3. Grown(Told(request), parser.state, parser'.state, Taken) = Told(request)
    BY <1>6, <1>7, NoTextGrows
  <2> QED
    BY <2>2, <2>3 DEF Grows
<1>8. ASSUME OpenText(parser.state) \in Texts PROVE Grows
  <2>1. Break
    BY <1>8 DEF Texts
  <2>2. PICK m \in MarkNames : m = OpenText(parser.state)
    BY <1>8, OneMark
  <2>3. m \in Texts /\ marks[m] # 0 /\ \A x \in MarkNames \ {m} : marks[x] = 0
    BY <2>2, OneMark
  <2>4. PICK t : t = SubSeq(data, marks[m], p - 1)
    OBVIOUS
  <2>5. PICK c : c = <<ch>>
    OBVIOUS
  <2>6. /\ t \in Seq(Symbols) /\ c \in Seq(Symbols)
        /\ SubSeq(data, marks[m], p) = t \o c
    BY <2>3, <2>4, <2>5, AtSymbolIs
  <2>7. /\ SubSeq(data, marks[m], p' - 1) = t \o c
        /\ SubSeq(data, marks[m], p' - 1) \in Seq(Symbols)
    <3>1. p' - 1 = p
      BY <2>1, <1>2
    <3>2. t \o c \in Seq(Symbols)
      BY <2>6, ConcatProperties
    <3> QED
      BY <3>1, <3>2, <2>6
  <2>8. Seen = Part(m, request, t)
    <3>1. SeenBy(data, p, marks, request) = Part(m, request, SubSeq(data, marks[m], p - 1))
      BY <2>3, <2>4, <2>6, SeenOne, OneMark
    <3> QED
      BY <3>1, <2>4, AtSymbolIs
  <2>9. Seen' = Part(m, request, t \o c)
    <3>1. SeenBy(data, p', marks, request) = Part(m, request, SubSeq(data, marks[m], p' - 1))
      BY <2>3, <2>7, SeenOne, OneMark
    <3> QED
      BY <3>1, <2>7, <1>5
  <2>10. Grown(Part(m, request, t), parser.state, parser'.state, c) = Part(m, request, t \o c)
    BY <2>2, <2>3, <2>6, PartGrows, OneMark
  <2> QED
    BY <2>1, <2>5, <2>8, <2>9, <2>10, <1>2 DEF Grows
<1> QED
  BY <1>2, <1>3, <1>4, <1>7, <1>8, TextIs

(* A step that leaves a text, or is in none, leaves what has come in.       *)
LEMMA PartKept ==
    ASSUME NEW r, NEW m \in MarkNames, NEW t, NEW from, NEW to, NEW text, from \notin BodyText,
           to \in Ends => to = from, OpenText(to) = "none"
    PROVE  Grown(Part(m, r, t), from, to, text) = Part(m, r, t)
<1>1. to \notin InUrl /\ to # "s_header_field" /\ to # "s_header_value"
  BY TextIs
<1>2. ASSUME NEW u, NEW h, NEW f, NEW s, NEW b
      PROVE  Grown(View(u, h, f, s, b), from, to, text) = View(u, h, f, s, b)
  BY <1>1, GrownIs
<1>3. CASE m = "url"
  BY <1>2, <1>3 DEF Part, UrlPart
<1>4. CASE m = "header_field"
  BY <1>2, <1>4 DEF Part, NamePart
<1>5. CASE m = "header_value"
  BY <1>2, <1>5 DEF Part, ValuePart
<1>6. CASE m = "body"
  BY <1>2, <1>6 DEF Part, BodyPart
<1> QED
  BY <1>3, <1>4, <1>5, <1>6 DEF MarkNames

(* A step that enters a text adds its first symbol.                         *)
LEMMA PartOpens ==
    ASSUME NEW r, RequestType(r), NEW c \in Seq(Symbols), NEW from, NEW to,
           OpenText(to) \in Texts, from \notin BodyText, from # "s_header_field",
           to = "s_header_field" => /\ from = "s_header_field_start"
                                    /\ r.last_header_element = "FIELD" =>
                                         r.first = <<>> /\ r.second = <<>>
    PROVE  Grown(Told(r), from, to, c) = Part(OpenText(to), r, c)
<1>1. to \notin Ends
  BY TextIs DEF Texts
<1>2. CASE OpenText(to) = "url"
  <2>1. to \in InUrl /\ to # "s_header_field" /\ to # "s_header_value"
    BY <1>2, TextIs
  <2> QED
    BY <2>1, <1>1, <1>2, GrownIs DEF Told, Part, UrlPart
<1>3. CASE OpenText(to) = "header_field"
  <2>1. to \notin InUrl /\ to = "s_header_field" /\ from = "s_header_field_start"
    BY <1>3, TextIs
  <2>2. Grown(Told(r), from, to, c)
          = View(r.request_url,
                 IF r.first # <<>> THEN Emplace(r.headers, r.first, r.second) ELSE r.headers,
                 c, <<>>, r.body)
    BY <2>1, <1>1, GrownIs DEF Told
  <2>3. CASE r.last_header_element = "FIELD"
    <3>1. <<>> \o c = c
      OBVIOUS
    <3>2. r.first = <<>> /\ r.second = <<>>
      BY <2>1, <2>3
    <3> QED
      BY <2>2, <2>3, <3>1, <3>2, <1>3 DEF Part, NamePart
  <2>4. CASE r.last_header_element # "FIELD"
    BY <2>2, <2>4, <1>3 DEF Part, NamePart
  <2> QED
    BY <2>3, <2>4
<1>4. CASE OpenText(to) = "header_value"
  <2>1. to \notin InUrl /\ to # "s_header_field" /\ to = "s_header_value"
    BY <1>4, TextIs
  <2> QED
    BY <2>1, <1>1, <1>4, GrownIs DEF Told, Part, ValuePart
<1> QED
  BY <1>2, <1>3, <1>4 DEF Texts

(* The first symbol of a text is marked.                                    *)
LEMMA Opens ==
    ASSUME AtSymbol, Ordinary, NEW m \in Texts, Mark(m), Break, UNCHANGED <<data, request>>,
           OpenText(parser.state) = "none", OpenText(parser'.state) = m,
           m = "header_field" => parser.state = "s_header_field_start",
           parser.state \in NameStates => parser'.state \in NameStates
    PROVE  Cursor' /\ Marks' /\ RequestOk' /\ Grows
<1>1. Moves /\ data' = data /\ request' = request
  BY DEF Moves
<1>2. /\ Cursor' /\ p' \in p..(p + 1) /\ Running' /\ p' \in 1..(Len(data) + 1)
      /\ p' - 1 = p /\ Taken = <<ch>>
  BY <1>1, MoveIs
<1>3. \A x \in MarkNames : marks[x] = 0
  BY OneMark DEF MarkNames
<1>4. DOMAIN marks' = MarkNames /\ \A x \in MarkNames : marks'[x] = IF x = m THEN p ELSE 0
  BY <1>3 DEF Mark, AtSymbol, Inv, Marks, Texts, MarkNames
<1>5. p \in 1..Len(data)
  BY AtSymbolIs
<1>6. Marks'
  <2>1. \A x \in MarkNames : marks'[x] \in 0..Len(data) /\ marks'[x] <= p'
    BY <1>2, <1>4, <1>5
  <2>2. marks'.body = 0 /\ \A x \in Texts : marks'[x] # 0 <=> OpenText(parser'.state) = x
    BY <1>4, <1>5 DEF Texts, MarkNames
  <2> QED
    BY <2>1, <2>2, <1>1, <1>2, <1>4 DEF Marks
<1>7. RequestOk'
  BY <1>1, <1>2 DEF AtSymbol, Inv, RequestOk, Ordinary
<1>8. Grows
  <2>1. Seen' = SeenBy(data, p', marks', request)
    BY <1>1 DEF Seen, SeenBy, Held, Piece
  <2>2. SubSeq(data, p, p' - 1) = <<ch>> /\ <<ch>> \in Seq(Symbols) /\ marks'[m] = p /\ m \in MarkNames
    BY <1>2, <1>4, AtSymbolIs DEF Texts, MarkNames
  <2>3. SeenBy(data, p', marks', request) = Part(m, request, SubSeq(data, marks'[m], p' - 1))
    <3>1. marks'[m] # 0 /\ \A x \in MarkNames \ {m} : marks'[x] = 0
      BY <2>2, <1>4, <1>5
    <3>2. SubSeq(data, marks'[m], p' - 1) \in Seq(Symbols)
      BY <2>2
    <3>3. RequestType(request) /\ m \in MarkNames
      BY <2>2, OneMark
    <3> QED
      BY <3>1, <3>2, <3>3, SeenOne
  <2>4. Seen = Told(request)
    BY <1>3, SeenNone, OneMark, AtSymbolIs
  <2>5. parser.state # "s_header_field" /\ parser.state \notin BodyText
    BY TextIs DEF AtSymbol
  <2>6. parser'.state = "s_header_field" =>
          /\ parser.state = "s_header_field_start"
          /\ request.last_header_element = "FIELD" => request.first = <<>> /\ request.second = <<>>
    BY TextIs DEF AtSymbol, Inv, RequestOk, NameStates
  <2>7. Grown(Told(request), parser.state, parser'.state, <<ch>>) = Part(m, request, <<ch>>)
    <3>1. PICK c \in Seq(Symbols) : c = <<ch>>
      BY <2>2
    <3>2. OpenText(parser'.state) \in Texts /\ RequestType(request)
      BY OneMark
    <3>3. Grown(Told(request), parser.state, parser'.state, c) = Part(OpenText(parser'.state), request, c)
      BY <3>2, <2>5, <2>6, PartOpens
    <3> QED
      BY <3>1, <3>3
  <2> QED
    BY <2>1, <2>2, <2>3, <2>4, <2>7, <1>2 DEF Grows
<1> QED
  BY <1>2, <1>6, <1>7, <1>8

(* A piece that is delivered is added to what the request says.             *)
LEMMA DeliverIs ==
    ASSUME NEW m \in MarkNames, marks[m] # 0, RequestType(request), NEW end, NEW final,
           NEW t \in Seq(Symbols), t = SubSeq(data, marks[m], end - 1)
    PROVE  LET q == Deliver(m, end, request, final) IN
           /\ RequestType(q)
           /\ Told(q) = Part(m, request, t)
           /\ m = "header_field" => q.last_header_element = "FIELD"
           /\ m = "header_value" => q.last_header_element = "VALUE"
           /\ m \in {"url", "body"} => q.last_header_element = request.last_header_element
<1>1. CASE m = "url"
  <2>1. PICK q : q = urlCallBack(request, t, parser.method)
    OBVIOUS
  <2>2. Deliver(m, end, request, final) = q
    BY <2>1, <1>1 DEF Deliver, Piece
  <2>3. /\ RequestType(q) /\ q.last_header_element = request.last_header_element
        /\ Told(q) = UrlPart(request, t)
    BY <2>1, UrlIs
  <2>4. Part(m, request, t) = UrlPart(request, t)
    BY <1>1 DEF Part
  <2> QED
    BY <2>2, <2>3, <2>4, <1>1
<1>2. CASE m = "header_field"
  <2>1. PICK q : q = headerFieldCallBack(request, t)
    OBVIOUS
  <2>2. Deliver(m, end, request, final) = q
    BY <2>1, <1>2 DEF Deliver, Piece
  <2>3. /\ RequestType(q) /\ q.last_header_element = "FIELD"
        /\ Told(q) = NamePart(request, t)
    BY <2>1, NameIs
  <2>4. Part(m, request, t) = NamePart(request, t)
    BY <1>2 DEF Part
  <2> QED
    BY <2>2, <2>3, <2>4, <1>2
<1>3. CASE m = "header_value"
  <2>1. PICK q : q = headerValueCallBack(request, t)
    OBVIOUS
  <2>2. Deliver(m, end, request, final) = q
    BY <2>1, <1>3 DEF Deliver, Piece
  <2>3. /\ RequestType(q) /\ q.last_header_element = "VALUE"
        /\ Told(q) = ValuePart(request, t)
    BY <2>1, ValueIs
  <2>4. Part(m, request, t) = ValuePart(request, t)
    BY <1>3 DEF Part
  <2> QED
    BY <2>2, <2>3, <2>4, <1>3
<1>4. CASE m = "body"
  <2>1. PICK q : q = bodyCallBack(request, t, final)
    OBVIOUS
  <2>2. Deliver(m, end, request, final) = q
    BY <2>1, <1>4 DEF Deliver, Piece
  <2>3. /\ RequestType(q) /\ q.last_header_element = request.last_header_element
        /\ Told(q) = BodyPart(request, t)
    BY <2>1, BodyIs
  <2>4. Part(m, request, t) = BodyPart(request, t)
    BY <1>4 DEF Part
  <2> QED
    BY <2>2, <2>3, <2>4, <1>4
<1> QED
  BY <1>1, <1>2, <1>3, <1>4 DEF MarkNames

(* A text ends: its piece is delivered, and nothing changes in what has     *)
(* come in.                                                                 *)
LEMMA Closes ==
    ASSUME AtSymbol, Ordinary, NEW m \in Texts, CallbackData(m), Moves,
           OpenText(parser.state) = m, OpenText(parser'.state) = "none",
           m = "header_field" => parser'.state \in NameStates
    PROVE  Cursor' /\ Marks' /\ RequestOk' /\ Grows
<1>1. data' = data /\ marks' = [marks EXCEPT ![m] = 0] /\ request' = Deliver(m, p, request, FALSE)
  BY DEF CallbackData
<1>2. /\ Cursor' /\ p' \in p..(p + 1) /\ Running' /\ p' \in 1..(Len(data) + 1)
  BY <1>1, MoveIs
<1>3. m \in MarkNames /\ marks[m] # 0 /\ \A x \in MarkNames \ {m} : marks[x] = 0
  BY OneMark DEF Texts, MarkNames
<1>4. DOMAIN marks' = MarkNames /\ \A x \in MarkNames : marks'[x] = 0
  BY <1>1, <1>3 DEF AtSymbol, Inv, Marks
<1>5. Marks'
  <2>1. p' \in Nat /\ Len(data) \in Nat
    BY <1>2 DEF AtSymbol, Inv, Cursor
  <2>2. \A x \in MarkNames : marks'[x] \in 0..Len(data) /\ marks'[x] <= p'
    BY <1>4, <2>1
  <2>3. marks'.body = 0 /\ \A x \in Texts : marks'[x] # 0 <=> OpenText(parser'.state) = x
    BY <1>4 DEF Texts, MarkNames
  <2> QED
    BY <2>2, <2>3, <1>1, <1>2, <1>4 DEF Marks
<1>6. PICK t \in Seq(Symbols) : t = SubSeq(data, marks[m], p - 1)
  BY <1>3, AtSymbolIs
<1>7. /\ RequestType(request') /\ Told(request') = Part(m, request, t)
      /\ m = "header_field" => request'.last_header_element = "FIELD"
      /\ m = "header_value" => request'.last_header_element = "VALUE"
      /\ m = "url" => /\ request'.last_header_element = request.last_header_element
                      /\ request'.first = request.first /\ request'.second = request.second
  <2>1. RequestType(request)
    BY OneMark
  <2>2. /\ RequestType(request') /\ Told(request') = Part(m, request, t)
        /\ m = "header_field" => request'.last_header_element = "FIELD"
        /\ m = "header_value" => request'.last_header_element = "VALUE"
        /\ m \in {"url", "body"} => request'.last_header_element = request.last_header_element
    BY <2>1, <1>1, <1>3, <1>6, DeliverIs
  <2>3. m = "url" => request'.first = request.first /\ request'.second = request.second
    BY <2>2 DEF Told, Part, UrlPart, View
  <2> QED
    BY <2>2, <2>3
<1>8. RequestOk'
  <2>1. CASE m = "url"
    <3>1. parser.state \notin NameStates
      BY <2>1, TextIs DEF NameStates, InUrl, UrlStartStates, UrlStates
    <3> QED
      BY <2>1, <3>1, <1>2, <1>7 DEF AtSymbol, Inv, RequestOk
  <2>2. CASE m = "header_field"
    BY <2>2, <1>2, <1>7 DEF RequestOk
  <2>3. CASE m = "header_value"
    BY <2>3, <1>2, <1>7 DEF RequestOk
  <2> QED
    BY <2>1, <2>2, <2>3 DEF Texts
<1>9. Grows
  <2>1. Seen' = SeenBy(data', p', marks', request')
    BY DEF Seen, SeenBy, Held, Piece
  <2>2. Seen' = Told(request')
    BY <2>1, <1>4, <1>7, SeenNone
  <2>3. SeenBy(data, p, marks, request) = Part(m, request, SubSeq(data, marks[m], p - 1))
    BY <1>3, <1>6, SeenOne, OneMark
  <2>4. parser.state \notin BodyText /\ (parser'.state \in Ends => parser'.state = parser.state)
    BY DEF AtSymbol, Ordinary
  <2>5. Grown(Part(m, request, t), parser.state, parser'.state, Taken) = Part(m, request, t)
    BY <2>4, <1>3, PartKept
  <2> QED
    BY <2>2, <2>3, <2>5, <1>6, <1>7, AtSymbolIs DEF Grows
<1> QED
  BY <1>2, <1>5, <1>8, <1>9

------------------------------------------------------------------------------
(* Steps that take nothing, and the end of the data                         *)

(* What has come in is text.                                                *)
LEMMA SeenType ==
    ASSUME Inv
    PROVE  \E u, h, f, s, b : /\ Seen = View(u, h, f, s, b)
                              /\ u \in Seq(Symbols) /\ f \in Seq(Symbols)
                              /\ s \in Seq(Symbols) /\ b \in Seq(Symbols)
<1>1. ASSUME NEW m \in MarkNames PROVE Held(m) \in Seq(Symbols)
  <2>1. data \in Seq(Symbols) /\ p \in 1..(Len(data) + 1) /\ marks[m] \in 0..Len(data)
    BY DEF Inv, Cursor, Marks
  <2>2. marks[m] # 0 => SubSeq(data, marks[m], p - 1) \in Seq(Symbols)
    BY <2>1
  <2> QED
    BY <2>2 DEF Held, Piece
<1>2. RequestType(request)
  BY DEF Inv, RequestOk
<1>3. PICK r : /\ RequestType(r)
               /\ r = IF marks.header_field = 0 THEN request
                      ELSE headerFieldCallBack(request, Held("header_field"))
  <2>1. Held("header_field") \in Seq(Symbols)
    BY <1>1 DEF MarkNames
  <2> QED
    BY <2>1, <1>2, NameIs
<1>4. Seen = View(request.request_url \o Held("url"), r.headers, r.first,
                  r.second \o Held("header_value"), request.body \o Held("body"))
  BY <1>3 DEF Seen, View
<1>5. /\ request.request_url \o Held("url") \in Seq(Symbols)
      /\ r.second \o Held("header_value") \in Seq(Symbols)
      /\ request.body \o Held("body") \in Seq(Symbols)
      /\ r.first \in Seq(Symbols)
  BY <1>1, <1>2, <1>3, ConcatProperties DEF RequestType, MarkNames
<1> QED
  BY <1>4, <1>5

(* No text taken, no change.                                                *)
LEMMA NothingGrows ==
    ASSUME Inv, NEW s
    PROVE  Grown(Seen, s, s, <<>>) = Seen
<1>1. PICK u, h, f, v, b : /\ Seen = View(u, h, f, v, b)
                           /\ u \in Seq(Symbols) /\ f \in Seq(Symbols)
                           /\ v \in Seq(Symbols) /\ b \in Seq(Symbols)
  BY SeenType
<1>2. PICK e : e = <<>>
  OBVIOUS
<1>3. u \o e = u /\ f \o e = f /\ v \o e = v /\ b \o e = b
  BY <1>1, <1>2
<1>4. Grown(View(u, h, f, v, b), s, s, e)
        = View(IF s \in InUrl THEN u \o e ELSE u, h,
               IF s = "s_header_field" THEN f \o e ELSE f,
               IF s = "s_header_value" THEN v \o e ELSE v,
               IF s \in BodyText THEN b \o e ELSE b)
  BY GrownIs
<1> QED
  BY <1>1, <1>2, <1>3, <1>4

(* The parser does not move: it takes note of the next symbol, or fails.    *)
LEMMA Unmoved ==
    ASSUME Inv, Running, UNCHANGED <<data, p, marks, request>>, parser'.state = parser.state,
           at = "switch" => parser.state \notin BodyText,
           \/ at' = "return" /\ parser'.http_errno # "HPE_OK"
           \/ at' = "switch" /\ p <= Len(data)
    PROVE  Cursor' /\ Marks' /\ RequestOk' /\ Grows
<1>1. Cursor'
  BY DEF Inv, Cursor, Places
<1>2. Marks'
  <2>1. CASE at' = "return" /\ parser'.http_errno # "HPE_OK"
    BY <2>1 DEF Inv, Marks, Running, Sound
  <2>2. CASE at' = "switch" /\ p <= Len(data)
    <3>1. p \in Int /\ Len(data) \in Int
      BY DEF Inv, Cursor
    <3>2. marks.body # 0 => parser'.state = "s_chunk_data_almost_done"
      BY <2>2, <3>1 DEF Inv, Marks, Running
    <3>3. Running'
      BY <2>2 DEF Running
    <3> QED
      BY <3>2, <3>3 DEF Inv, Marks
  <2> QED
    BY <2>1, <2>2
<1>3. RequestOk'
  BY DEF Inv, RequestOk, Running, Sound
<1>4. Taken = <<>>
  <2>1. CASE at = "fetch"
    BY <2>1 DEF Taken
  <2>2. CASE at = "switch"
    <3>1. p \in 1..Len(data) /\ data \in Seq(Symbols)
      BY <2>2 DEF Inv, Cursor
    <3>2. SubSeq(data, p, p - 1) = <<>>
      BY <3>1, OneSymbol
    <3> QED
      BY <2>2, <3>2 DEF Taken, BodyText
  <2> QED
    BY <2>1, <2>2 DEF Running
<1>5. Seen' = Seen
  BY DEF Seen, Held, Piece
<1> QED
  BY <1>1, <1>2, <1>3, <1>4, <1>5, NothingGrows DEF Grows

(* NoMarks has no mark.                                                     *)
LEMMA NoMarksIs == DOMAIN NoMarks = MarkNames /\ \A m \in MarkNames : NoMarks[m] = 0
BY DEF NoMarks, MarkNames

(* One text at most is open.                                                *)
LEMMA SingleMark ==
    ASSUME Inv, Running, NEW m \in MarkNames, marks[m] # 0
    PROVE  /\ \A x \in MarkNames \ {m} : marks[x] = 0
           /\ m # "body" => OpenText(parser.state) = m
           /\ m = "body" => parser.state \in BodyText \cup {"s_chunk_data_almost_done"}
<1>1. /\ \A x \in Texts : marks[x] # 0 <=> OpenText(parser.state) = x
      /\ marks.body # 0 => parser.state \in BodyText \cup {"s_chunk_data_almost_done"}
  BY DEF Inv, Marks
<1>2. parser.state \in BodyText \cup {"s_chunk_data_almost_done"} => OpenText(parser.state) = "none"
  BY TextIs DEF ChunkStates
<1> QED
  BY <1>1, <1>2 DEF Texts, MarkNames

(* The data ends: what is open is delivered, and nothing changes in what    *)
(* has come in.                                                             *)
LEMMA EndOfDataKeeps ==
    ASSUME Inv, EndOfData
    PROVE  Cursor' /\ Marks' /\ RequestOk' /\ Grows
<1>1. /\ at = "fetch" /\ at' = "return" /\ marks' = NoMarks
      /\ data' = data /\ p' = p /\ parser' = parser /\ Running /\ ~Running'
  BY DEF EndOfData, Running
<1>2. Cursor'
  BY <1>1 DEF Inv, Cursor, Places
<1>3. Marks'
  <2>1. Len(data) \in Nat
    BY DEF Inv, Cursor
  <2>2. \A m \in MarkNames : NoMarks[m] \in 0..Len(data)
    BY <2>1, NoMarksIs
  <2> QED
    BY <1>1, <2>2, NoMarksIs DEF Marks
<1>4. RequestType(request)
  BY DEF Inv, RequestOk
<1>5. Seen = SeenBy(data, p, marks, request) /\ Seen' = SeenBy(data, p, NoMarks, request')
  BY <1>1 DEF Seen, SeenBy, Held, Piece
<1>6. ASSUME marks = NoMarks, request' = request
      PROVE  RequestOk' /\ Seen' = Seen
  <2>1. parser.state # "s_header_field"
    <3>1. marks.header_field = 0
      BY <1>6, NoMarksIs DEF MarkNames
    <3> QED
      BY <1>1, <3>1, TextIs DEF Inv, Marks, Texts
  <2>2. RequestOk'
    BY <2>1, <1>1, <1>6 DEF Inv, RequestOk
  <2> QED
    BY <2>2, <1>5, <1>6
<1>7. ASSUME NEW m \in DOMAIN marks, marks[m] # 0, request' = Deliver(m, p, request, FALSE)
      PROVE  RequestOk' /\ Seen' = Seen
  <2>1. m \in MarkNames /\ marks[m] \in 0..Len(data)
    BY DEF Inv, Marks
  <2>2. /\ \A x \in MarkNames \ {m} : marks[x] = 0
        /\ m # "body" => OpenText(parser.state) = m
        /\ m = "body" => parser.state \in BodyText \cup {"s_chunk_data_almost_done"}
    BY <2>1, <1>1, <1>7, SingleMark
  <2>3. PICK t \in Seq(Symbols) : t = SubSeq(data, marks[m], p - 1)
    <3>1. marks[m] \in 1..Len(data) /\ data \in Seq(Symbols) /\ p \in 1..(Len(data) + 1)
      BY <2>1, <1>7 DEF Inv, Cursor
    <3>2. SubSeq(data, marks[m], p - 1) \in Seq(Symbols)
      BY <3>1
    <3> QED
      BY <3>2
  <2>4. Seen = Part(m, request, t)
    BY <2>1, <2>2, <2>3, <1>4, <1>5, <1>7, SeenOne
  <2>5. /\ RequestType(request') /\ Told(request') = Part(m, request, t)
        /\ m = "header_field" => request'.last_header_element = "FIELD"
        /\ m = "header_value" => request'.last_header_element = "VALUE"
        /\ m \in {"url", "body"} => request'.last_header_element = request.last_header_element
    BY <2>1, <2>3, <1>4, <1>7, DeliverIs
  <2>6. Seen' = Told(request')
    BY <2>5, <1>5, NoMarksIs, SeenNone
  <2>7. RequestOk'
    <3>1. CASE m \in {"url", "body"}
      <4>1. request'.first = request.first /\ request'.second = request.second
        BY <2>5, <3>1 DEF Told, Part, UrlPart, BodyPart, View
      <4>2. parser.state # "s_header_field"
        BY <2>2, <3>1, TextIs DEF BodyText
      <4> QED
        BY <3>1, <4>1, <4>2, <2>5, <1>1 DEF Inv, RequestOk
    <3>2. CASE m = "header_field"
      <4>1. parser.state = "s_header_field"
        BY <2>2, <3>2, TextIs
      <4> QED
        BY <3>2, <4>1, <2>5, <1>1 DEF RequestOk, NameStates
    <3>3. CASE m = "header_value"
      <4>1. parser.state # "s_header_field"
        BY <2>2, <3>3, TextIs
      <4> QED
        BY <3>3, <4>1, <2>5, <1>1 DEF RequestOk
    <3> QED
      BY <3>1, <3>2, <3>3, <2>1 DEF MarkNames
  <2> QED
    BY <2>4, <2>5, <2>6, <2>7
<1>8. RequestOk' /\ Seen' = Seen
  BY <1>6, <1>7 DEF EndOfData
<1>9. Taken = <<>>
  BY <1>1 DEF Taken
<1> QED
  BY <1>1, <1>2, <1>3, <1>8, <1>9, NothingGrows DEF Grows

------------------------------------------------------------------------------
(* Empty values, and the end of headers and messages                        *)

(* Outside of every text the marks stay unset.                              *)
LEMMA UnmarkedKeeps ==
    ASSUME AtSymbol, UNCHANGED <<data, marks>>, OpenText(parser.state) = "none",
           OpenText(parser'.state) = "none", p' \in Nat
    PROVE  Marks' /\ (\A m \in MarkNames : marks[m] = 0)
<1>1. \A m \in MarkNames : marks[m] = 0
  BY OneMark DEF MarkNames
<1>2. DOMAIN marks = MarkNames /\ \A m \in MarkNames : marks[m] \in 0..Len(data)
  BY DEF AtSymbol, Inv, Marks
<1>3. \A m \in MarkNames : 0 <= p'
  OBVIOUS
<1> QED
  BY <1>1, <1>2, <1>3 DEF Marks, Texts, MarkNames

(* An empty value is delivered without a mark.                              *)
LEMMA EmptyValue ==
    ASSUME AtSymbol, Ordinary, Reexecute, request' = headerValueCallBack(request, <<>>),
           UNCHANGED <<data, marks>>, OpenText(parser.state) = "none",
           OpenText(parser'.state) = "none"
    PROVE  Cursor' /\ Marks' /\ RequestOk' /\ Grows
<1>1. Moves /\ data' = data
  BY DEF Moves
<1>2. /\ Cursor' /\ Running' /\ p' \in 1..(Len(data) + 1)
  BY <1>1, MoveIs
<1>3. Marks' /\ \A m \in MarkNames : marks[m] = 0
  BY <1>2, UnmarkedKeeps
<1>4. PICK e \in Seq(Symbols) : e = <<>>
  <2>1. <<>> \in Seq(Symbols)
    OBVIOUS
  <2> QED
    BY <2>1
<1>5. /\ RequestType(request') /\ request'.last_header_element = "VALUE"
      /\ Told(request') = ValuePart(request, e)
  BY <1>4, OneMark, ValueIs
<1>6. ValuePart(request, e) = Told(request)
  <2>1. request.second \o e = request.second
    BY <1>4, OneMark DEF RequestType
  <2> QED
    BY <2>1 DEF ValuePart, Told
<1>7. RequestOk'
  BY <1>2, <1>5 DEF RequestOk
<1>8. Seen' = SeenBy(data, p', marks, request')
  BY <1>1 DEF Seen, SeenBy, Held, Piece
<1>9. Seen = Told(request) /\ Seen' = Told(request)
  BY <1>3, <1>5, <1>6, <1>8, SeenNone, OneMark, AtSymbolIs
<1>10. parser.state \notin BodyText /\ (parser'.state \in Ends => parser'.state = parser.state)
  BY DEF AtSymbol, Ordinary
<1>11. Grown(Told(request), parser.state, parser'.state, Taken) = Told(request)
  BY <1>10, NoTextGrows
<1> QED
  BY <1>2, <1>3, <1>7, <1>9, <1>11 DEF Grows

(* The headers or the message end: the last header is kept.                 *)
LEMMA Completes ==
    ASSUME AtSymbol, parser'.http_errno = "HPE_OK", UNCHANGED <<data, marks>>,
           parser.state \notin NameStates, OpenText(parser.state) = "none",
           parser'.state \in Ends, parser'.state # parser.state,
           request' \in {headerCompleteCallBack(request), messageCompleteCallBack(request)},
           \/ at' = "switch" /\ p' = p
           \/ at' \in {"fetch", "return"} /\ p' = p + 1
    PROVE  Cursor' /\ Marks' /\ RequestOk' /\ Grows
<1>1. p \in 1..Len(data) /\ data \in Seq(Symbols) /\ data' = data
  BY AtSymbolIs DEF AtSymbol, Inv, Cursor
<1>2. Cursor' /\ p' \in Nat
  BY <1>1 DEF Cursor, Places
<1>3. OpenText(parser'.state) = "none"
  BY TextIs
<1>4. Marks' /\ \A m \in MarkNames : marks[m] = 0
  BY <1>2, <1>3, UnmarkedKeeps
<1>5. /\ RequestType(request') /\ request'.last_header_element = request.last_header_element
      /\ Told(request') = View(request.request_url,
                   IF request.second = <<>> THEN request.headers
                   ELSE Emplace(request.headers, request.first, request.second),
                   request.first, request.second, request.body)
  BY OneMark, KeepIs DEF headerCompleteCallBack
<1>6. request'.first = request.first /\ request'.second = request.second
  BY <1>5 DEF Told, View
<1>7. RequestOk'
  BY <1>5, <1>6 DEF AtSymbol, Inv, RequestOk, Ends
<1>8. Seen' = SeenBy(data, p', marks, request')
  BY <1>1 DEF Seen, SeenBy, Held, Piece
<1>9. Seen = Told(request) /\ Seen' = Told(request')
  BY <1>4, <1>5, <1>8, SeenNone, OneMark, AtSymbolIs
<1>10. parser'.state \notin InUrl /\ parser'.state # "s_header_field"
       /\ parser'.state # "s_header_value" /\ parser.state \notin BodyText
  BY <1>3, TextIs DEF AtSymbol
<1>11. Grown(Told(request), parser.state, parser'.state, Taken)
         = View(request.request_url,
                IF request.second # <<>> THEN Emplace(request.headers, request.first, request.second)
                ELSE request.headers,
                request.first, request.second, request.body)
  BY <1>10, GrownIs DEF Told
<1> QED
  BY <1>2, <1>4, <1>5, <1>7, <1>9, <1>11 DEF Grows

------------------------------------------------------------------------------
(* Bodies                                                                   *)

(* A body's text is what is left of it, as far as the data goes.            *)
LEMMA ToReadIs ==
    ASSUME Inv, at = "switch", parser.state \in BodyText
    PROVE  /\ p \in 1..Len(data) /\ data \in Seq(Symbols)
           /\ ToRead \in 1..(Len(data) + 1 - p)
           /\ parser.content_length \in 1..UllongMax /\ parser.content_length < UllongMax
           /\ parser.content_length - ToRead \in 0..parser.content_length
           /\ parser.content_length # ToRead => p + ToRead = Len(data) + 1
           /\ Taken = SubSeq(data, p, p + ToRead - 1)
           /\ SubSeq(data, p, p + ToRead - 1) \in Seq(Symbols)
           /\ \A m \in MarkNames : marks[m] = 0
           /\ RequestType(request) /\ Seen = Told(request)
<1>1. p \in 1..Len(data) /\ data \in Seq(Symbols) /\ Len(data) \in Nat
  BY DEF Inv, Cursor
<1>2. parser.content_length \in 1..UllongMax /\ parser.content_length < UllongMax
  BY ParserAssumption DEF Inv, ParserOk
<1>3. /\ ToRead \in 1..(Len(data) + 1 - p)
      /\ parser.content_length - ToRead \in 0..parser.content_length
      /\ parser.content_length # ToRead => p + ToRead = Len(data) + 1
  BY <1>1, <1>2, ParserAssumption DEF ToRead
<1>4. Taken = SubSeq(data, p, p + ToRead - 1)
  BY DEF Taken, BodyText
<1>5. SubSeq(data, p, p + ToRead - 1) \in Seq(Symbols)
  BY <1>1, <1>3
<1>6. \A m \in MarkNames : marks[m] = 0
  <2>1. OpenText(parser.state) = "none"
    BY TextIs
  <2>2. marks.body = 0
    BY DEF Inv, Marks, Running, BodyText
  <2> QED
    BY <2>1, <2>2 DEF Inv, Marks, Running, Texts, MarkNames
<1>7. RequestType(request)
  BY DEF Inv, RequestOk
<1>8. Seen = SeenBy(data, p, marks, request)
  BY DEF Seen, SeenBy, Held, Piece
<1> QED
  BY <1>1, <1>2, <1>3, <1>4, <1>5, <1>6, <1>7, <1>8, SeenNone

(* A body grows by what is taken.                                           *)
LEMMA BodyGrows ==
    ASSUME NEW r, NEW from \in BodyText, NEW to, NEW text, OpenText(to) = "none", to \notin Ends
    PROVE  Grown(Told(r), from, to, text) = BodyPart(r, text)
<1>1. to \notin InUrl /\ to # "s_header_field" /\ to # "s_header_value"
  BY TextIs
<1> QED
  BY <1>1, GrownIs DEF Told, BodyPart

(* The data ends inside the body, or the chunk ends: the text stays open.   *)
LEMMA BodyOpens ==
    ASSUME Inv, at = "switch", parser.state \in BodyText, UNCHANGED <<data, request>>,
           Mark("body"), at' = "fetch", p' = p + ToRead, parser'.http_errno = "HPE_OK",
           \/ parser'.state = "s_chunk_data_almost_done"
           \/ parser'.state = parser.state /\ parser.content_length # ToRead
    PROVE  Cursor' /\ Marks' /\ RequestOk' /\ Grows
<1>1. /\ p \in 1..Len(data) /\ data \in Seq(Symbols) /\ Len(data) \in Nat
      /\ ToRead \in 1..(Len(data) + 1 - p)
      /\ parser.content_length # ToRead => p + ToRead = Len(data) + 1
      /\ \A m \in MarkNames : marks[m] = 0
  BY ToReadIs
<1>2. p' \in 1..(Len(data) + 1) /\ p < p' /\ Running' /\ data' = data
  BY <1>1 DEF Running
<1>3. Cursor'
  BY <1>1, <1>2 DEF Cursor, Places
<1>4. DOMAIN marks' = MarkNames /\ \A x \in MarkNames : marks'[x] = IF x = "body" THEN p ELSE 0
  BY <1>1 DEF Mark, Inv, Marks, MarkNames
<1>5. OpenText(parser'.state) = "none" /\ parser'.state \notin Ends /\ parser'.state \notin NameStates
  BY TextIs DEF ChunkStates, BodyText, Ends, NameStates
<1>6. Marks'
  <2>1. \A x \in MarkNames : marks'[x] \in 0..Len(data) /\ marks'[x] <= p'
    BY <1>1, <1>2, <1>4
  <2>2. \A x \in Texts : marks'[x] = 0 /\ OpenText(parser'.state) # x
    BY <1>4, <1>5 DEF Texts, MarkNames
  <2>3. \/ parser'.state = "s_chunk_data_almost_done"
        \/ parser'.state \in BodyText /\ at' = "fetch" /\ p' > Len(data)
    BY <1>1
  <2> QED
    BY <2>1, <2>2, <2>3, <1>2, <1>4 DEF Marks
<1>7. RequestOk'
  BY <1>2, <1>5 DEF Inv, RequestOk, BodyText, NameStates
<1>8. Seen' = SeenBy(data, p', marks', request)
  BY <1>2 DEF Seen, SeenBy, Held, Piece
<1>9. PICK t \in Seq(Symbols) : t = SubSeq(data, p, p + ToRead - 1)
  BY ToReadIs
<1>10. Seen' = Part("body", request, t)
  <2>1. marks'["body"] # 0 /\ \A x \in MarkNames \ {"body"} : marks'[x] = 0
    BY <1>1, <1>4 DEF MarkNames
  <2>2. SubSeq(data, marks'["body"], p' - 1) = t
    <3>1. marks'["body"] = p /\ p' - 1 = p + ToRead - 1
      BY <1>1, <1>4 DEF MarkNames
    <3> QED
      BY <3>1, <1>9
  <2>3. RequestType(request) /\ "body" \in MarkNames
    BY ToReadIs DEF MarkNames
  <2> QED
    BY <2>1, <2>2, <2>3, <1>8, SeenOne
<1>11. Part("body", request, t) = BodyPart(request, t)
  BY DEF Part
<1>12. Seen = Told(request) /\ Taken = t
  BY <1>9, ToReadIs
<1> QED
  BY <1>3, <1>5, <1>6, <1>7, <1>10, <1>11, <1>12, BodyGrows DEF Grows

(* A body with a length.                                                    *)
LEMMA BodyIdentityKeeps ==
    ASSUME Inv, BodyIdentity
    PROVE  Cursor' /\ Marks' /\ RequestOk' /\ Grows
<1>1. at = "switch" /\ parser.state = "s_body_identity" /\ parser.state \in BodyText /\ data' = data
  BY DEF BodyIdentity, In, BodyText
<1>2. DOMAIN parser = ParserFields /\ parser.http_errno = "HPE_OK"
  BY <1>1 DEF Inv, ParserOk, Running, Sound
<1>3. CASE parser.content_length # ToRead
  <2>1. parser'.state = parser.state /\ parser'.http_errno = "HPE_OK"
    BY <1>2, <1>3 DEF BodyIdentity, ParserFields
  <2>2. Mark("body") /\ at' = "fetch" /\ p' = p + ToRead /\ request' = request
    BY <1>3 DEF BodyIdentity
  <2> QED
    BY <2>1, <2>2, <1>1, <1>3, BodyOpens
<1>4. CASE parser.content_length = ToRead
  <2>1. parser'.state = "s_message_done" /\ parser'.http_errno = "HPE_OK"
    BY <1>2, <1>4 DEF BodyIdentity, ParserFields
  <2>2. PICK t \in Seq(Symbols) : t = SubSeq(data, p, p + ToRead - 1)
    BY <1>1, ToReadIs
  <2>3. marks.body = 0 /\ DOMAIN marks = MarkNames /\ \A m \in MarkNames : marks[m] = 0
    BY <1>1, ToReadIs DEF MarkNames, Inv, Marks
  <2>4. /\ request' = bodyCallBack(request, t, TRUE) /\ at' = "switch"
        /\ p' = p + ToRead - 1 /\ marks' = [marks EXCEPT !.body = 0]
    BY <1>4, <2>2, <2>3 DEF BodyIdentity
  <2>5. /\ p \in 1..Len(data) /\ data \in Seq(Symbols) /\ ToRead \in 1..(Len(data) + 1 - p)
    BY <1>1, ToReadIs
  <2>6. p' \in 1..Len(data) /\ Cursor' /\ Running'
    BY <2>4, <2>5, <1>1 DEF Cursor, Running, Places
  <2>7. OpenText(parser'.state) = "none" /\ parser'.state \notin Ends
    BY <2>1 DEF OpenText, InUrl, UrlStartStates, UrlStates, Ends
  <2>8. DOMAIN marks' = MarkNames /\ \A m \in MarkNames : marks'[m] = 0
    BY <2>3, <2>4
  <2>9. Marks'
    <3>1. \A m \in MarkNames : marks'[m] \in 0..Len(data) /\ marks'[m] <= p'
      BY <2>5, <2>6, <2>8
    <3> QED
      BY <3>1, <2>6, <2>7, <2>8, <1>1 DEF Marks, Texts, MarkNames
  <2>10. /\ RequestType(request') /\ Told(request') = BodyPart(request, t)
         /\ request'.last_header_element = request.last_header_element
         /\ RequestType(request)
    BY <2>4, <1>1, ToReadIs, BodyIs
  <2>11. request'.first = request.first /\ request'.second = request.second
    BY <2>10 DEF Told, BodyPart, View
  <2>12. RequestOk'
    BY <2>6, <2>10, <2>11, <1>1 DEF Inv, RequestOk, NameStates
  <2>13. Seen' = SeenBy(data', p', marks', request')
    BY DEF Seen, SeenBy, Held, Piece
  <2>14. Seen' = BodyPart(request, t)
    BY <2>8, <2>10, <2>13, SeenNone
  <2>15. Seen = Told(request) /\ Taken = t
    BY <2>2, <1>1, ToReadIs
  <2> QED
    BY <2>6, <2>7, <2>9, <2>12, <2>14, <2>15, <1>1, BodyGrows DEF Grows
<1> QED
  BY <1>3, <1>4

(* The body of a chunk.                                                     *)
LEMMA ChunkDataKeeps ==
    ASSUME Inv, ChunkData
    PROVE  Cursor' /\ Marks' /\ RequestOk' /\ Grows
<1>1. at = "switch" /\ parser.state \in BodyText
  BY DEF ChunkData, In, BodyText
<1>2. DOMAIN parser = ParserFields /\ parser.http_errno = "HPE_OK"
  BY <1>1 DEF Inv, ParserOk, Running, Sound
<1>3. /\ parser'.http_errno = "HPE_OK"
      /\ \/ parser'.state = "s_chunk_data_almost_done"
         \/ parser'.state = parser.state /\ parser.content_length # ToRead
  BY <1>2 DEF ChunkData, ParserFields
<1>4. UNCHANGED <<data, request>> /\ Mark("body") /\ at' = "fetch" /\ p' = p + ToRead
  BY DEF ChunkData
<1> QED
  BY <1>1, <1>3, <1>4, BodyOpens

(* The end of a chunk delivers what of it has come in with this data.       *)
LEMMA ChunkDataAlmostDoneKeeps ==
    ASSUME Inv, ChunkDataAlmostDone, ch = "CR"
    PROVE  Cursor' /\ Marks' /\ RequestOk' /\ Grows
<1>1. /\ at = "switch" /\ parser.state = "s_chunk_data_almost_done"
      /\ parser' = [parser EXCEPT !.state = "s_chunk_data_done"]
      /\ CallbackData("body") /\ Break
  BY DEF ChunkDataAlmostDone, In
<1>2. parser'.state = "s_chunk_data_done" /\ Running
  BY <1>1 DEF Inv, ParserOk, ParserFields, Running
<1>3. p \in 1..Len(data) /\ data \in Seq(Symbols) /\ p' = p + 1 /\ at' = "fetch" /\ data' = data
  BY <1>1 DEF Inv, Cursor, Break, CallbackData
<1>4. Cursor' /\ Running' /\ p' \in 1..(Len(data) + 1)
  BY <1>3 DEF Cursor, Running, Places
<1>5. /\ OpenText(parser.state) = "none" /\ OpenText(parser'.state) = "none"
      /\ parser'.state \notin Ends /\ parser.state \notin BodyText
  BY <1>1, <1>2, TextIs DEF ChunkStates, Ends, BodyText
<1>6. DOMAIN marks = MarkNames /\ \A m \in MarkNames \ {"body"} : marks[m] = 0
  BY <1>2, <1>5 DEF Inv, Marks, Texts, MarkNames
<1>7. DOMAIN marks' = MarkNames /\ \A m \in MarkNames : marks'[m] = 0
  BY <1>1, <1>6 DEF CallbackData
<1>8. Marks'
  <2>1. \A m \in MarkNames : marks'[m] \in 0..Len(data) /\ marks'[m] <= p'
    BY <1>3, <1>4, <1>7
  <2> QED
    BY <2>1, <1>3, <1>4, <1>5, <1>7 DEF Marks, Texts, MarkNames
<1>9. RequestType(request) /\ "body" \in MarkNames
  BY DEF Inv, RequestOk, MarkNames
<1>10. request' = Deliver("body", p, request, FALSE)
  BY <1>1 DEF CallbackData
<1>11. Seen = SeenBy(data, p, marks, request)
  BY DEF Seen, SeenBy, Held, Piece
<1>12. /\ RequestType(request') /\ Told(request') = Seen
       /\ request'.last_header_element = request.last_header_element
       /\ request'.first = request.first /\ request'.second = request.second
  <2>1. CASE marks["body"] = 0
    <3>1. request' = request
      BY <1>10, <2>1 DEF Deliver
    <3>2. \A m \in MarkNames : marks[m] = 0
      BY <1>6, <2>1
    <3> QED
      BY <3>1, <3>2, <1>9, <1>11, SeenNone
  <2>2. CASE marks["body"] # 0
    <3>1. marks["body"] \in 1..Len(data)
      BY <2>2, <1>9 DEF Inv, Marks
    <3>2. SubSeq(data, marks["body"], p - 1) \in Seq(Symbols)
      BY <3>1, <1>3
    <3>3. PICK t \in Seq(Symbols) : t = SubSeq(data, marks["body"], p - 1)
      BY <3>2
    <3>4. /\ RequestType(request') /\ Told(request') = Part("body", request, t)
          /\ request'.last_header_element = request.last_header_element
      BY <3>3, <2>2, <1>9, <1>10, DeliverIs
    <3>5. Seen = Part("body", request, t)
      BY <3>3, <2>2, <1>6, <1>9, <1>11, SeenOne
    <3>6. request'.first = request.first /\ request'.second = request.second
      BY <3>4 DEF Told, Part, BodyPart, View
    <3> QED
      BY <3>4, <3>5, <3>6
  <2> QED
    BY <2>1, <2>2
<1>13. RequestOk'
  BY <1>1, <1>2, <1>4, <1>12 DEF Inv, RequestOk, NameStates
<1>14. Seen' = SeenBy(data', p', marks', request')
  BY DEF Seen, SeenBy, Held, Piece
<1>15. Seen' = Told(request')
  BY <1>7, <1>12, <1>14, SeenNone
<1>16. Grown(Told(request'), parser.state, parser'.state, Taken) = Told(request')
  <2>1. PICK r : r = request'
    OBVIOUS
  <2>2. Grown(Told(r), parser.state, parser'.state, Taken) = Told(r)
    BY <1>5, NoTextGrows
  <2> QED
    BY <2>1, <2>2
<1> QED
  BY <1>4, <1>8, <1>12, <1>13, <1>15, <1>16 DEF Grows

------------------------------------------------------------------------------
(* Outside of the parser                                                    *)

(* The marks of a new call are those of the state.                          *)
LEMMA OpenMarksIs ==
    ASSUME NEW s
    PROVE  /\ DOMAIN OpenMarks(s) = MarkNames /\ OpenMarks(s).body = 0
           /\ \A m \in MarkNames : OpenMarks(s)[m] \in {0, 1}
           /\ \A m \in Texts : OpenMarks(s)[m] = 1 <=> OpenText(s) = m
<1>1. /\ DOMAIN OpenMarks(s) = MarkNames /\ OpenMarks(s).body = 0
      /\ OpenMarks(s).url = (IF s \in InUrl THEN 1 ELSE 0)
      /\ OpenMarks(s).header_field = (IF s = "s_header_field" THEN 1 ELSE 0)
      /\ OpenMarks(s).header_value = (IF s = "s_header_value" THEN 1 ELSE 0)
  BY DEF OpenMarks, NoMarks, MarkNames, InUrl
<1> QED
  BY <1>1, TextIs DEF MarkNames, Texts

(* A call of the parser goes on with the text that was open before.         *)
LEMMA ExecuteKeeps ==
    ASSUME Inv, ~Running, NEW bytes \in Seq(Symbols), bytes # <<>>, Execute(bytes)
    PROVE  /\ Cursor' /\ Marks' /\ ParserOk' /\ RequestOk'
           /\ Sound => Seen' = Seen
<1>1. /\ data' = bytes /\ p' = 1 /\ marks' = OpenMarks(parser.state)
      /\ at' = IF Sound THEN "fetch" ELSE "return"
      /\ parser' = parser /\ request' = request /\ Len(bytes) \in Nat /\ Len(bytes) >= 1
  BY DEF Execute, Sound
<1>2. Cursor'
  BY <1>1 DEF Cursor, Places
<1>3. Running' <=> Sound
  BY <1>1 DEF Running
<1>4. Marks'
  <2>1. /\ DOMAIN marks' = MarkNames /\ marks'.body = 0
        /\ \A m \in MarkNames : marks'[m] \in {0, 1}
        /\ \A m \in Texts : marks'[m] = 1 <=> OpenText(parser'.state) = m
    BY <1>1, OpenMarksIs
  <2>2. \A m \in MarkNames : marks'[m] \in 0..Len(bytes) /\ marks'[m] <= p'
    BY <2>1, <1>1
  <2>3. \A m \in Texts : marks'[m] # 0 <=> OpenText(parser'.state) = m
    BY <2>1 DEF Texts, MarkNames
  <2>4. Sound' <=> Sound
    BY <1>1 DEF Sound
  <2> QED
    BY <2>1, <2>2, <2>3, <2>4, <1>1, <1>3 DEF Marks
<1>5. ParserOk'
  BY <1>1 DEF Inv, ParserOk, Running, Sound
<1>6. RequestOk'
  BY <1>1, <1>3 DEF Inv, RequestOk, Sound
<1>7. ASSUME Sound PROVE Seen' = Seen
  <2>1. \A m \in MarkNames : marks[m] = 0
    BY <1>7 DEF Inv, Marks
  <2>2. RequestType(request)
    BY DEF Inv, RequestOk
  <2>3. Seen = SeenBy(data, p, marks, request) /\ Seen' = SeenBy(bytes, p', marks', request)
    BY <1>1 DEF Seen, SeenBy, Held, Piece
  <2>4. Seen = Told(request)
    BY <2>1, <2>2, <2>3, SeenNone
  <2>5. PICK m : m = OpenText(parser.state)
    OBVIOUS
  <2>6. /\ \A x \in MarkNames : marks'[x] = IF x = m THEN 1 ELSE 0
        /\ m \in Texts \cup {"none"}
    BY <2>5, <1>1, OpenMarksIs, TextIs DEF MarkNames, Texts
  <2>7. ASSUME m = "none" PROVE Seen' = Told(request)
    <3>1. \A x \in MarkNames : marks'[x] = 0
      BY <2>6, <2>7 DEF MarkNames
    <3> QED
      BY <3>1, <2>2, <2>3, SeenNone
  <2>8. ASSUME m \in Texts PROVE Seen' = Told(request)
    <3>1. m \in MarkNames /\ marks'[m] = 1 /\ \A x \in MarkNames \ {m} : marks'[x] = 0
      BY <2>6, <2>8 DEF Texts, MarkNames
    <3>2. SubSeq(bytes, marks'[m], p' - 1) = <<>> /\ <<>> \in Seq(Symbols)
      BY <3>1, <1>1
    <3>3. PICK e \in Seq(Symbols) : e = <<>>
      BY <3>2
    <3>4. Seen' = Part(m, request, e)
      <4>1. SubSeq(bytes, marks'[m], p' - 1) = e /\ marks'[m] # 0
        BY <3>1, <3>2, <3>3
      <4> QED
        BY <4>1, <3>1, <2>2, <2>3, SeenOne
    <3>5. /\ request.request_url \o e = request.request_url
          /\ request.first \o e = request.first /\ request.second \o e = request.second
      BY <3>3, <2>2 DEF RequestType
    <3>6. m = "header_field" => request.last_header_element = "FIELD"
      BY <2>5, <1>7, TextIs DEF Inv, RequestOk
    <3>7. Part(m, request, e) = Told(request)
      BY <3>5, <3>6, <2>8 DEF Part, UrlPart, NamePart, ValuePart, Told, Texts
    <3> QED
      BY <3>4, <3>7
  <2> QED
    BY <2>4, <2>6, <2>7, <2>8
<1> QED
  BY <1>2, <1>4, <1>5, <1>6, <1>7

(* Between two calls nothing is open.                                       *)
LEMMA Idle ==
    ASSUME Inv, ~Running, Sound
    PROVE  Seen = Told(request) /\ (\A m \in MarkNames : marks[m] = 0)
<1>1. \A m \in MarkNames : marks[m] = 0
  BY DEF Inv, Marks
<1>2. RequestType(request)
  BY DEF Inv, RequestOk
<1>3. Seen = SeenBy(data, p, marks, request)
  BY DEF Seen, SeenBy, Held, Piece
<1> QED
  BY <1>1, <1>2, <1>3, SeenNone

(* The loop goes from one place to another outside of the parser.           *)
LEMMA LoopMoves ==
    ASSUME Inv, ~Running, at' \in Places \ {"fetch", "switch"},
           UNCHANGED <<data, p, marks, parser, request>>, at' = "read" => Sound
    PROVE  Cursor' /\ Marks' /\ ParserOk' /\ RequestOk' /\ Seen' = Seen
<1>1. Cursor'
  BY DEF Inv, Cursor, Places
<1>2. ~Running' /\ (Sound' <=> Sound)
  BY DEF Running, Sound
<1>3. Marks'
  BY <1>2 DEF Inv, Marks
<1>4. ParserOk'
  BY <1>2 DEF Inv, ParserOk, Running, Sound
<1>5. RequestOk'
  BY <1>2 DEF Inv, RequestOk
<1>6. Seen' = Seen
  BY DEF Seen, Held, Piece
<1> QED
  BY <1>1, <1>3, <1>4, <1>5, <1>6

(* read_buf_ is clear.                                                      *)
LEMMA ReturnIs ==
    ASSUME Return
    PROVE  Cursor' /\ Marks' /\ ~Running'
<1>1. /\ at' = "functors" /\ data' = <<>> /\ p' = 1 /\ marks' = NoMarks
      /\ <<>> \in Seq(Symbols) /\ Len(<<>>) = 0
  BY DEF Return
<1>2. Cursor' /\ ~Running'
  BY <1>1 DEF Cursor, Places, Running
<1>3. DOMAIN marks' = MarkNames /\ \A m \in MarkNames : marks'[m] = 0
  BY <1>1, NoMarksIs
<1>4. \A m \in MarkNames : marks'[m] \in 0..Len(data')
  BY <1>1, <1>3
<1> QED
  BY <1>2, <1>3, <1>4 DEF Marks

(* A call ends without a request.                                           *)
LEMMA ReturnKeeps ==
    ASSUME Inv, ~Running, Return, UNCHANGED <<parser, request>>
    PROVE  /\ Cursor' /\ Marks' /\ ParserOk' /\ RequestOk'
           /\ Sound => Seen' = Seen
<1>1. Cursor' /\ Marks' /\ ~Running' /\ at' = "functors" /\ (Sound' <=> Sound)
  BY ReturnIs DEF Sound, Return
<1>2. ParserOk'
  BY <1>1 DEF Inv, ParserOk, Running, Sound
<1>3. RequestOk'
  BY <1>1 DEF Inv, RequestOk
<1>4. ASSUME Sound PROVE Seen' = Seen
  <2>1. \A m \in MarkNames : marks'[m] = 0
    BY NoMarksIs DEF Return
  <2>2. RequestType(request)
    BY DEF Inv, RequestOk
  <2>3. Seen' = SeenBy(data', p', marks', request)
    BY DEF Seen, SeenBy, Held, Piece
  <2>4. Seen' = Told(request)
    BY <2>1, <2>2, <2>3, SeenNone
  <2> QED
    BY <2>4, <1>4, Idle
<1> QED
  BY <1>1, <1>2, <1>3, <1>4

(* A new request says nothing.                                              *)
LEMMA NewRequestIs ==
    ASSUME NEW e
    PROVE  /\ RequestType(NewRequest(e)) /\ Told(NewRequest(e)) = NothingSeen
           /\ NewRequest(e).first = <<>> /\ NewRequest(e).second = <<>>
<1>1. <<>> \in Seq(Symbols)
  OBVIOUS
<1> QED
  BY <1>1 DEF NewRequest, RequestType, RequestFields, Told, View, NothingSeen

(* A new parser.                                                            *)
LEMMA NewParserIs ==
    ASSUME parser' = NewParser, ~Running', at' # "switch"
    PROVE  ParserOk' /\ parser'.state = "s_start_req"
<1>1. parser'.state = "s_start_req" /\ DOMAIN parser' = ParserFields /\ parser'.http_errno = "HPE_OK"
      /\ parser'.content_length = 0 /\ parser'.nread = 0
  BY DEF NewParser, ParserFields
<1>2. 0 \in 0..UllongMax /\ 0 \in 0..MaxHeaderSize
  BY ParserAssumption
<1> QED
  BY <1>1, <1>2 DEF ParserOk, Sound, ChunkStates, BodyText

(* A request is handled, and the context starts anew.                       *)
LEMMA RespondKeeps ==
    ASSUME Inv, ~Running, Sound, Return, Reset
    PROVE  /\ Cursor' /\ Marks' /\ ParserOk' /\ RequestOk'
           /\ Seen' = NothingSeen
           /\ <<request.request_url, request.headers, request.body>>
                = <<Seen.url, Seen.headers, Seen.body>>
<1>1. Cursor' /\ Marks' /\ ~Running' /\ at' = "functors"
  BY ReturnIs DEF Return
<1>2. PICK e : request' = NewRequest(e) /\ parser' = NewParser
  BY DEF Reset
<1>3. ParserOk' /\ parser'.state = "s_start_req"
  BY <1>1, <1>2, NewParserIs
<1>4. /\ RequestType(request') /\ Told(request') = NothingSeen
      /\ request'.first = <<>> /\ request'.second = <<>>
  BY <1>2, NewRequestIs
<1>5. RequestOk'
  BY <1>3, <1>4 DEF RequestOk
<1>6. Seen' = NothingSeen
  <2>1. \A m \in MarkNames : marks'[m] = 0
    BY NoMarksIs DEF Return
  <2>2. Seen' = SeenBy(data', p', marks', request')
    BY DEF Seen, SeenBy, Held, Piece
  <2> QED
    BY <2>1, <2>2, <1>4, SeenNone
<1>7. <<request.request_url, request.headers, request.body>>
        = <<Seen.url, Seen.headers, Seen.body>>
  BY Idle DEF Told, View
<1> QED
  BY <1>1, <1>3, <1>5, <1>6, <1>7

------------------------------------------------------------------------------
(* The request line                                                         *)

(* What every step of the parser must do.                                   *)
Kept == Cursor' /\ Marks' /\ ParserOk' /\ RequestOk' /\ Grows

(* The states with an assertion of their own.                               *)
Special == ChunkStates \cup BodyText \cup {"s_header_field", "s_header_value"}

(* The parser at a symbol.                                                  *)
LEMMA SwitchIs ==
    ASSUME Inv, at = "switch"
    PROVE  /\ Running /\ DOMAIN parser = ParserFields /\ parser.http_errno = "HPE_OK"
           /\ parser.content_length \in 0..UllongMax /\ parser.nread \in 0..MaxHeaderSize
BY DEF Inv, ParserOk, Running, Sound

(* An error leaves everything else.                                         *)
LEMMA ErrorKeeps ==
    ASSUME Inv, Running, at = "switch" => parser.state \notin BodyText, Error
    PROVE  Kept
<1>1. /\ UNCHANGED <<data, p, marks, request>> /\ at' = "return"
      /\ parser' = [parser EXCEPT !.http_errno = "HPE_ERROR"]
  BY DEF Error, Quiet
<1>2. /\ DOMAIN parser' = ParserFields /\ parser'.http_errno = "HPE_ERROR"
      /\ \A f \in ParserFields \ {"http_errno"} : parser'[f] = parser[f]
  BY <1>1 DEF Inv, ParserOk
<1>3. Cursor' /\ Marks' /\ RequestOk' /\ Grows
  BY <1>1, <1>2, Unmoved DEF ParserFields
<1>4. ParserOk'
  BY <1>1, <1>2 DEF Inv, ParserOk, ParserFields, Running, Sound
<1> QED
  BY <1>3, <1>4 DEF Kept

(* A state without an assertion needs the counters only.                    *)
LEMMA ParserPlain ==
    ASSUME DOMAIN parser' = ParserFields, parser'.http_errno = "HPE_OK",
           parser'.content_length \in 0..UllongMax, parser'.nread \in 0..MaxHeaderSize,
           parser'.state \notin Special
    PROVE  ParserOk'
BY DEF ParserOk, Special, Sound, ChunkStates, BodyText

(* The head of the loop: nread is counted, and is 1 at a chunk's size.      *)
LEMMA FetchKeeps ==
    ASSUME Inv, Fetch
    PROVE  Kept
<1>1. at = "fetch" /\ p <= Len(data) /\ Running
  BY DEF Fetch, Running
<1>2. CASE Error
  BY <1>1, <1>2, ErrorKeeps
<1>3. CASE ~Error
  <2>1. PICK n : /\ n = IF PARSING_HEADER(parser.state) THEN parser.nread + 1 ELSE parser.nread
                 /\ n <= MaxHeaderSize /\ parser' = [parser EXCEPT !.nread = n]
                 /\ Reexecute /\ Quiet
    BY <1>3 DEF Fetch
  <2>2. UNCHANGED <<data, p, marks, request>> /\ at' = "switch"
    BY <2>1 DEF Reexecute, Quiet
  <2>3. n \in 0..MaxHeaderSize
    BY <2>1, ParserAssumption DEF Inv, ParserOk
  <2>4. /\ DOMAIN parser' = ParserFields /\ parser'.nread = n
        /\ \A f \in ParserFields \ {"nread"} : parser'[f] = parser[f]
    BY <2>1 DEF Inv, ParserOk, ParserFields
  <2>5. Cursor' /\ Marks' /\ RequestOk' /\ Grows
    BY <1>1, <2>2, <2>4, Unmoved DEF ParserFields
  <2>6. parser.state = "s_chunk_size_start" => n = 1
    BY <2>1, <1>1 DEF Inv, ParserOk, PARSING_HEADER, BodyStates, Running
  <2>7. ParserOk'
    BY <1>1, <2>2, <2>3, <2>4, <2>6 DEF Inv, ParserOk, ParserFields, Running, Sound
  <2> QED
    BY <2>5, <2>7 DEF Kept
<1> QED
  BY <1>2, <1>3

(* A step to a state without an assertion, inside a text or outside.        *)
LEMMA GotoKeeps ==
    ASSUME AtSymbol, NEW s, Goto(s), OpenText(s) = OpenText(parser.state),
           s \in Ends => s = parser.state, parser.state \in NameStates => s \in NameStates,
           s \notin Special
    PROVE  Kept
<1>1. /\ parser' = [parser EXCEPT !.state = s] /\ Break /\ Quiet
  BY DEF Goto
<1>2. Inv /\ at = "switch"
  BY DEF AtSymbol
<1>3. /\ DOMAIN parser' = ParserFields /\ parser'.state = s /\ parser'.http_errno = "HPE_OK"
      /\ parser'.content_length \in 0..UllongMax /\ parser'.nread \in 0..MaxHeaderSize
  BY <1>1, <1>2, SwitchIs DEF ParserFields
<1>4. Ordinary
  BY <1>3 DEF Ordinary
<1>5. Cursor' /\ Marks' /\ RequestOk' /\ Grows
  BY <1>1, <1>3, <1>4, Stays
<1> QED
  BY <1>3, <1>5, ParserPlain DEF Kept

(* States outside of every text.                                           *)
LineStates == {"s_dead", "s_start_req", "s_req_method", "s_req_spaces_before_url", "s_req_http_start",
               "s_req_http_H", "s_req_http_I", "s_req_http_HTTP", "s_req_http_major",
               "s_req_http_dot", "s_req_http_minor", "s_req_http_end", "s_req_line_almost_done",
               "s_header_field_start", "s_header_value_start", "s_header_almost_done",
               "s_header_value_lws", "s_headers_almost_done", "s_headers_done", "s_message_done"}

(* The states before the first symbol of a value.                           *)
DiscardStates == {"s_header_value_discard_ws", "s_header_value_discard_ws_almost_done",
                  "s_header_value_discard_lws"}

(* Which state is what.                                                     *)
LEMMA StateIs ==
    /\ \A s \in LineStates : /\ OpenText(s) = "none" /\ s \notin Special /\ s \notin NameStates
                             /\ s \notin BodyText \cup {"s_chunk_data_almost_done"}
    /\ \A s \in DiscardStates : /\ OpenText(s) = "none" /\ s \notin Special \cup Ends /\ s \in NameStates
                                /\ s \notin BodyText \cup {"s_chunk_data_almost_done"}
    /\ \A s \in InUrl : /\ OpenText(s) = "url" /\ s \notin Special \cup Ends /\ s \notin NameStates
                        /\ s \notin BodyText \cup {"s_chunk_data_almost_done"}
BY DEF LineStates, DiscardStates, OpenText, Special, NameStates, BodyText, ChunkStates, InUrl, Ends,
       UrlStartStates, UrlStates

(* A step of the request line that says only where to go.                   *)
LEMMA GotoLine ==
    ASSUME Inv, at = "switch", parser.state \in LineStates, NEW s \in LineStates,
           s \in Ends => s = parser.state, Goto(s)
    PROVE  Kept
<1>1. AtSymbol
  BY StateIs DEF AtSymbol
<1> QED
  BY <1>1, StateIs, GotoKeeps

(* An error in any of these.                                                *)
LEMMA ErrorLine ==
    ASSUME Inv, at = "switch", parser.state \in LineStates \cup DiscardStates \cup InUrl, Error
    PROVE  Kept
BY StateIs, ErrorKeeps DEF Running

(* The cases of the switch, one by one: the request line,                   *)
LEMMA DeadKeeps ==
    ASSUME Inv, Dead PROVE Kept
<1>1. at = "switch" /\ parser.state = "s_dead" /\ parser.state \in LineStates
  BY DEF Dead, In, LineStates
<1> QED
  BY <1>1, GotoLine, ErrorLine DEF Dead

(* The parser's record after a step that sets some of its fields.           *)
LEMMA LineStep ==
    ASSUME Inv, at = "switch", parser.state \in LineStates, Quiet, Break \/ Reexecute,
           parser'.state \in LineStates \ Ends,
           DOMAIN parser' = ParserFields, parser'.http_errno = "HPE_OK",
           parser'.content_length \in 0..UllongMax, parser'.nread \in 0..MaxHeaderSize
    PROVE  Kept
<1>1. AtSymbol /\ Ordinary
  BY StateIs DEF AtSymbol, Ordinary
<1>2. Cursor' /\ Marks' /\ RequestOk' /\ Grows
  BY <1>1, StateIs, Stays
<1> QED
  BY <1>2, StateIs, ParserPlain DEF Kept

(* the first letter of a method,                                            *)
LEMMA StartReqKeeps ==
    ASSUME Inv, StartReq PROVE Kept
<1>1. at = "switch" /\ parser.state = "s_start_req" /\ parser.state \in LineStates
  BY DEF StartReq, In, LineStates
<1>2. CASE Goto("s_start_req")
  BY <1>1, <1>2, GotoLine
<1>3. CASE Error
  BY <1>1, <1>3, ErrorLine
<1>4. CASE /\ parser' = [parser EXCEPT !.state = "s_req_method", !.flags = {},
                                      !.content_length = UllongMax, !.index = 1,
                                      !.method = FirstMethod[ch]]
           /\ Break /\ Quiet
  <2>1. /\ DOMAIN parser' = ParserFields /\ parser'.http_errno = "HPE_OK"
        /\ parser'.content_length \in 0..UllongMax /\ parser'.nread \in 0..MaxHeaderSize
        /\ parser'.state = "s_req_method"
    BY <1>1, <1>4, SwitchIs, ParserAssumption DEF ParserFields
  <2> QED
    BY <2>1, <1>1, <1>4, LineStep DEF LineStates, Ends
<1> QED
  BY <1>2, <1>3, <1>4 DEF StartReq

(* the rest of it,                                                          *)
LEMMA ReqMethodKeeps ==
    ASSUME Inv, ReqMethod PROVE Kept
<1>1. at = "switch" /\ parser.state = "s_req_method" /\ parser.state \in LineStates
  BY DEF ReqMethod, In, LineStates
<1>2. CASE Goto("s_req_spaces_before_url")
  BY <1>1, <1>2, GotoLine DEF LineStates, Ends
<1>3. CASE Error
  BY <1>1, <1>3, ErrorLine
<1>4. ASSUME NEW m, parser' = [parser EXCEPT !.method = m, !.index = 2], Break, Quiet
      PROVE  Kept
  <2>1. /\ DOMAIN parser' = ParserFields /\ parser'.http_errno = "HPE_OK"
        /\ parser'.content_length \in 0..UllongMax /\ parser'.nread \in 0..MaxHeaderSize
        /\ parser'.state = "s_req_method"
    BY <1>1, <1>4, SwitchIs DEF ParserFields
  <2> QED
    BY <2>1, <1>1, <1>4, LineStep DEF LineStates, Ends
<1> QED
  BY <1>2, <1>3, <1>4 DEF ReqMethod

(* the protocol,                                                            *)
LEMMA HttpStartKeeps ==
    ASSUME Inv, HttpStart PROVE Kept
<1>1. at = "switch" /\ parser.state = "s_req_http_start" /\ parser.state \in LineStates
  BY DEF HttpStart, In, LineStates
<1>2. \/ Error
      \/ \E s \in {"s_req_http_start", "s_req_http_H", "s_req_http_I"} : Goto(s)
  BY DEF HttpStart
<1> QED
  BY <1>1, <1>2, GotoLine, ErrorLine DEF LineStates, Ends

(* and its version.                                                         *)
LEMMA HttpVersionKeeps ==
    ASSUME Inv, HttpMajor \/ HttpMinor PROVE Kept
<1>1. at = "switch" /\ parser.state \in LineStates
  BY DEF HttpMajor, HttpMinor, In, LineStates
<1>2. CASE Error
  BY <1>1, <1>2, ErrorLine
<1>3. CASE ~Error
  <2>1. /\ DOMAIN parser' = ParserFields /\ parser'.http_errno = "HPE_OK"
        /\ parser'.content_length \in 0..UllongMax /\ parser'.nread \in 0..MaxHeaderSize
        /\ parser'.state \in {"s_req_http_dot", "s_req_http_end"} /\ Break /\ Quiet
    BY <1>1, <1>3, SwitchIs DEF ParserFields, HttpMajor, HttpMinor
  <2> QED
    BY <2>1, <1>1, LineStep DEF LineStates, Ends
<1> QED
  BY <1>2, <1>3

------------------------------------------------------------------------------
(* URLs, and the names of headers                                           *)

(* parse_url_char leaves a URL only by an error.                            *)
LEMMA UrlNext ==
    ASSUME NEW c, NEW s \in InUrl \cup {"s_req_spaces_before_url"}
    PROVE  parse_url_char(s, c) \in InUrl \cup {"s_dead"}
BY DEF parse_url_char, InUrl, UrlStartStates, UrlStates

(* A text begins.                                                           *)
LEMMA OpenKeeps ==
    ASSUME AtSymbol, NEW m \in Texts, Mark(m), Break, UNCHANGED <<data, request>>,
           OpenText(parser.state) = "none", OpenText(parser'.state) = m,
           m = "header_field" => parser.state = "s_header_field_start",
           parser.state \in NameStates => parser'.state \in NameStates,
           parser'.http_errno = "HPE_OK", ParserOk'
    PROVE  Kept
<1>1. Ordinary
  BY TextIs DEF Ordinary, Texts
<1> QED
  BY <1>1, Opens DEF Kept

(* A URL begins,                                                            *)
LEMMA SpacesBeforeUrlKeeps ==
    ASSUME Inv, SpacesBeforeUrl PROVE Kept
<1>1. at = "switch" /\ parser.state = "s_req_spaces_before_url" /\ parser.state \in LineStates
  BY DEF SpacesBeforeUrl, In, LineStates
<1>2. CASE Goto("s_req_spaces_before_url")
  BY <1>1, <1>2, GotoLine
<1>3. CASE Error
  BY <1>1, <1>3, ErrorLine
<1>4. CASE ~Error /\ ~Goto("s_req_spaces_before_url")
  <2>1. PICK s : /\ s \in InUrl \cup {"s_req_spaces_before_url"}
                 /\ parse_url_char(s, ch) # "s_dead"
                 /\ parser' = [parser EXCEPT !.state = parse_url_char(s, ch)]
                 /\ Mark("url") /\ Break /\ UNCHANGED <<data, request>>
    BY <1>1, <1>4 DEF SpacesBeforeUrl, InUrl, UrlStartStates
  <2>2. parse_url_char(s, ch) \in InUrl
    BY <2>1, UrlNext
  <2>3. /\ DOMAIN parser' = ParserFields /\ parser'.http_errno = "HPE_OK"
        /\ parser'.content_length \in 0..UllongMax /\ parser'.nread \in 0..MaxHeaderSize
        /\ parser'.state \in InUrl
    BY <1>1, <2>1, <2>2, SwitchIs DEF ParserFields
  <2>4. ParserOk' /\ AtSymbol
    BY <1>1, <2>3, StateIs, ParserPlain DEF AtSymbol
  <2> QED
    BY <1>1, <2>1, <2>3, <2>4, StateIs, OpenKeeps DEF Texts
<1> QED
  BY <1>2, <1>3, <1>4

(* a URL goes on,                                                           *)
LEMMA UrlGoes ==
    ASSUME Inv, at = "switch", parser.state \in InUrl, NEW s \in InUrl, Goto(s) PROVE Kept
<1>1. AtSymbol
  BY StateIs DEF AtSymbol
<1> QED
  BY <1>1, StateIs, GotoKeeps

(* before its host,                                                         *)
LEMMA ReqUrlStartKeeps ==
    ASSUME Inv, ReqUrlStart PROVE Kept
<1>1. at = "switch" /\ parser.state \in InUrl
  BY DEF ReqUrlStart, InUrl
<1>2. Error \/ \E s \in InUrl : Goto(s)
  BY <1>1, UrlNext DEF ReqUrlStart
<1> QED
  BY <1>1, <1>2, UrlGoes, ErrorLine

(* A text ends.                                                             *)
LEMMA CloseKeeps ==
    ASSUME AtSymbol, NEW m \in Texts, CallbackData(m), Break \/ Reexecute,
           OpenText(parser.state) = m, OpenText(parser'.state) = "none",
           m = "header_field" => parser'.state \in NameStates,
           parser'.http_errno = "HPE_OK", parser'.state \notin Ends, ParserOk'
    PROVE  Kept
<1>1. Ordinary /\ Moves
  BY DEF Ordinary, Moves
<1> QED
  BY <1>1, Closes DEF Kept

(* and after; a space or the end of the line ends it.                       *)
LEMMA ReqUrlKeeps ==
    ASSUME Inv, ReqUrl PROVE Kept
<1>1. at = "switch" /\ parser.state \in InUrl
  BY DEF ReqUrl, InUrl
<1>2. ASSUME CallbackData("url"), Break,
             \/ parser' = [parser EXCEPT !.state = "s_req_http_start"]
             \/ parser' = [parser EXCEPT !.http_major = 0, !.http_minor = 9,
                            !.state = IF ch = "CR" THEN "s_req_line_almost_done"
                                                   ELSE "s_header_field_start"]
      PROVE  Kept
  <2>1. /\ DOMAIN parser' = ParserFields /\ parser'.http_errno = "HPE_OK"
        /\ parser'.content_length \in 0..UllongMax /\ parser'.nread \in 0..MaxHeaderSize
        /\ parser'.state \in {"s_req_http_start", "s_req_line_almost_done", "s_header_field_start"}
    BY <1>1, <1>2, SwitchIs DEF ParserFields
  <2>2. parser'.state \in LineStates \ Ends
    BY <2>1 DEF LineStates, Ends
  <2>3. ParserOk' /\ AtSymbol
    BY <1>1, <2>1, <2>2, StateIs, ParserPlain DEF AtSymbol
  <2> QED
    BY <1>1, <1>2, <2>1, <2>2, <2>3, StateIs, CloseKeeps DEF Texts
<1>3. CASE Error
  BY <1>1, <1>3, ErrorLine
<1>4. ASSUME parse_url_char(parser.state, ch) # "s_dead", Goto(parse_url_char(parser.state, ch))
      PROVE  Kept
  BY <1>1, <1>4, UrlNext, UrlGoes
<1> QED
  BY <1>2, <1>3, <1>4 DEF ReqUrl

(* The states that know what comes next.                                    *)
LEMMA ExpectKeeps ==
    ASSUME Inv, Expect PROVE Kept
<1>1. PICK f \in Expected : f[1] = parser.state
  BY DEF Expect
<1>2. at = "switch" /\ parser.state \in LineStates \cup {"s_header_value_discard_ws_almost_done"}
  BY <1>1 DEF Expect, Expected, LineStates
<1>3. CASE Error
  BY <1>2, <1>3, ErrorLine DEF DiscardStates
<1>4. ASSUME NEW e \in Expected, e[1] = parser.state, Goto(e[3])
      PROVE  Kept
  <2>1. CASE e = <<"s_header_value_discard_ws_almost_done", "LF", "s_header_value_discard_lws">>
    <3>1. /\ parser.state = "s_header_value_discard_ws_almost_done"
          /\ e[3] = "s_header_value_discard_lws"
      BY <1>4, <2>1
    <3>2. AtSymbol
      BY <1>2, <3>1, StateIs DEF AtSymbol, DiscardStates
    <3> QED
      BY <1>4, <3>1, <3>2, StateIs, GotoKeeps DEF DiscardStates
  <2>2. CASE e # <<"s_header_value_discard_ws_almost_done", "LF", "s_header_value_discard_lws">>
    <3>1. parser.state \in LineStates /\ e[3] \in LineStates \ Ends
      BY <1>4, <2>2 DEF Expected, LineStates, Ends
    <3> QED
      BY <1>2, <1>4, <3>1, GotoLine
  <2> QED
    BY <2>1, <2>2
<1> QED
  BY <1>3, <1>4 DEF Expect

(* A header's name begins, or the headers end.                              *)
LEMMA HeaderFieldStartKeeps ==
    ASSUME Inv, HeaderFieldStart PROVE Kept
<1>1. at = "switch" /\ parser.state = "s_header_field_start" /\ parser.state \in LineStates
  BY DEF HeaderFieldStart, In, LineStates
<1>2. CASE Goto("s_headers_almost_done")
  BY <1>1, <1>2, GotoLine DEF LineStates, Ends
<1>3. CASE Error
  BY <1>1, <1>3, ErrorLine
<1>4. CASE parser' = [parser EXCEPT !.state = "s_headers_almost_done"] /\ Reexecute /\ Quiet
  <2>1. /\ DOMAIN parser' = ParserFields /\ parser'.http_errno = "HPE_OK"
        /\ parser'.content_length \in 0..UllongMax /\ parser'.nread \in 0..MaxHeaderSize
        /\ parser'.state = "s_headers_almost_done"
    BY <1>1, <1>4, SwitchIs DEF ParserFields
  <2> QED
    BY <2>1, <1>1, <1>4, LineStep DEF LineStates, Ends
<1>5. CASE /\ parser' = [parser EXCEPT !.state = "s_header_field",
               !.header_state = IF ch \in DOMAIN FirstLetter THEN FirstLetter[ch] ELSE "h_general"]
           /\ Mark("header_field") /\ Break /\ UNCHANGED <<data, request>>
  <2>1. (IF ch \in DOMAIN FirstLetter THEN FirstLetter[ch] ELSE "h_general") \in FieldStates
    BY DEF FirstLetter, FieldStates
  <2>2. /\ DOMAIN parser' = ParserFields /\ parser'.http_errno = "HPE_OK"
        /\ parser'.content_length \in 0..UllongMax /\ parser'.nread \in 0..MaxHeaderSize
        /\ parser'.state = "s_header_field" /\ parser'.header_state \in FieldStates
    BY <1>1, <1>5, <2>1, SwitchIs DEF ParserFields
  <2>3. ParserOk'
    BY <2>2 DEF ParserOk, Sound, ChunkStates, BodyText
  <2>4. AtSymbol /\ OpenText(parser.state) = "none" /\ parser.state \notin NameStates
    BY <1>1, StateIs DEF AtSymbol
  <2>5. OpenText(parser'.state) = "header_field"
    BY <2>2, TextIs
  <2> QED
    BY <1>1, <1>5, <2>2, <2>3, <2>4, <2>5, OpenKeeps DEF Texts
<1> QED
  BY <1>2, <1>3, <1>4, <1>5 DEF HeaderFieldStart

------------------------------------------------------------------------------
(* The values of headers                                                    *)

(* A name goes on, or ends at the colon.                                    *)
LEMMA HeaderFieldKeeps ==
    ASSUME Inv, HeaderField PROVE Kept
<1>1. at = "switch" /\ parser.state = "s_header_field" /\ parser.state \notin BodyText /\ AtSymbol
  BY DEF HeaderField, In, BodyText, AtSymbol
<1>2. CASE Error
  BY <1>1, <1>2, ErrorKeeps DEF Running
<1>3. CASE /\ parser' = [parser EXCEPT !.state = "s_header_value_discard_ws"]
           /\ CallbackData("header_field") /\ Break
  <2>1. /\ DOMAIN parser' = ParserFields /\ parser'.http_errno = "HPE_OK"
        /\ parser'.content_length \in 0..UllongMax /\ parser'.nread \in 0..MaxHeaderSize
        /\ parser'.state = "s_header_value_discard_ws" /\ parser'.state \in DiscardStates
    BY <1>1, <1>3, SwitchIs DEF ParserFields, DiscardStates
  <2>2. ParserOk' /\ OpenText(parser.state) = "header_field"
    BY <1>1, <2>1, StateIs, TextIs, ParserPlain
  <2> QED
    BY <1>1, <1>3, <2>1, <2>2, StateIs, CloseKeeps DEF Texts
<1>4. ASSUME NEW h, NEW fs, h \in FieldStates, Break, Quiet,
             parser' = [parser EXCEPT !.header_state = h, !.flags = fs]
      PROVE  Kept
  <2>1. /\ DOMAIN parser' = ParserFields /\ parser'.http_errno = "HPE_OK"
        /\ parser'.content_length \in 0..UllongMax /\ parser'.nread \in 0..MaxHeaderSize
        /\ parser'.state = "s_header_field" /\ parser'.header_state \in FieldStates
    BY <1>1, <1>4, SwitchIs DEF ParserFields
  <2>2. ParserOk' /\ Ordinary
    BY <2>1 DEF ParserOk, Sound, ChunkStates, BodyText, Ordinary, Ends
  <2>3. Cursor' /\ Marks' /\ RequestOk' /\ Grows
    BY <1>1, <1>4, <2>1, <2>2, Stays
  <2> QED
    BY <2>2, <2>3 DEF Kept
<1>5. FieldNext(parser.header_state, ch) \in FieldStates
  BY DEF FieldNext, FieldStates
<1> QED
  BY <1>2, <1>3, <1>4, <1>5 DEF HeaderField

(* A value starts in none of the states that only a name may be in.         *)
LEMMA ValueStartIs ==
    ASSUME NEW h, NEW c
    PROVE  ValueStart(h, c) \notin {"h_connection", "h_transfer_encoding"}
BY DEF ValueStart, TransferToken, ConnectionToken

(* A digit is below ten.                                                    *)
LEMMA DigitIs == \A c \in DOMAIN Digit : Digit[c] \in 0..9
BY DEF Digit

(* A value begins.                                                          *)
LEMMA HeaderValueStartKeeps ==
    ASSUME Inv, HeaderValueStart PROVE Kept
<1>1. /\ at = "switch"
      /\ \/ parser.state = "s_header_value_discard_ws" /\ parser.state \in DiscardStates
         \/ parser.state = "s_header_value_start" /\ parser.state \in LineStates
  BY DEF HeaderValueStart, In, DiscardStates, LineStates
<1>2. CASE Error
  BY <1>1, <1>2, ErrorLine
<1>3. CASE ~Error
  <2>1. PICK h, fs, n :
          /\ h = ValueStart(parser.header_state, ch)
          /\ n = IF parser.header_state = "h_content_length" THEN Digit[ch] ELSE parser.content_length
          /\ parser' = [parser EXCEPT !.state = "s_header_value", !.header_state = h, !.flags = fs,
                                      !.content_length = n]
          /\ ~BadLengthStart /\ Mark("header_value") /\ Break /\ UNCHANGED <<data, request>>
    BY <1>3 DEF HeaderValueStart
  <2>2. n \in 0..UllongMax
    <3>1. parser.header_state = "h_content_length" => ch \in DOMAIN Digit
      BY <2>1 DEF BadLengthStart, IS_NUM
    <3>2. parser.header_state = "h_content_length" => n \in 0..9
      BY <2>1, <3>1, DigitIs
    <3>3. parser.header_state # "h_content_length" => n \in 0..UllongMax
      BY <1>1, <2>1, SwitchIs
    <3> QED
      BY <3>2, <3>3, ParserAssumption
  <2>3. /\ DOMAIN parser' = ParserFields /\ parser'.http_errno = "HPE_OK"
        /\ parser'.content_length \in 0..UllongMax /\ parser'.nread \in 0..MaxHeaderSize
        /\ parser'.state = "s_header_value"
        /\ parser'.header_state \notin {"h_connection", "h_transfer_encoding"}
    BY <1>1, <2>1, <2>2, ValueStartIs, SwitchIs DEF ParserFields
  <2>4. ParserOk'
    BY <2>3 DEF ParserOk, Sound, ChunkStates, BodyText
  <2>5. AtSymbol /\ OpenText(parser.state) = "none"
    BY <1>1, StateIs DEF AtSymbol
  <2>6. OpenText(parser'.state) = "header_value" /\ parser'.state \in NameStates
    BY <2>3, TextIs DEF NameStates
  <2> QED
    BY <2>1, <2>3, <2>4, <2>5, <2>6, OpenKeeps DEF Texts
<1> QED
  BY <1>2, <1>3

(* Blanks before a value.                                                   *)
LEMMA DiscardGoes ==
    ASSUME Inv, at = "switch", parser.state \in DiscardStates, NEW s \in DiscardStates, Goto(s)
    PROVE  Kept
<1>1. AtSymbol
  BY StateIs DEF AtSymbol
<1> QED
  BY <1>1, StateIs, GotoKeeps

(* The blanks themselves.                                                   *)
LEMMA HeaderValueDiscardWsKeeps ==
    ASSUME Inv, HeaderValueDiscardWs PROVE Kept
<1>1. at = "switch" /\ parser.state \in DiscardStates
  BY DEF HeaderValueDiscardWs, In, DiscardStates
<1>2. \E s \in DiscardStates : Goto(s)
  BY DEF HeaderValueDiscardWs, DiscardStates
<1> QED
  BY <1>1, <1>2, DiscardGoes

(* Nor does it get into one of these states.                                *)
LEMMA ValueNextIs ==
    ASSUME NEW h, NEW c, h \notin {"h_connection", "h_transfer_encoding"}
    PROVE  ValueNext(h, c) \notin {"h_connection", "h_transfer_encoding"}
BY DEF ValueNext, ListToken, TransferToken, ConnectionToken

(* The conservative test against overflow (http_parser.c:1557, 2030) is     *)
(* conservative enough: a length that passes it takes another digit without *)
(* wrapping around, and does not become ULLONG_MAX, the value for no        *)
(* length.                                                                  *)
THEOREM NoOverflow ==
    ASSUME NEW n \in 0..UllongMax
    PROVE  /\ \A d \in 0..9 : ~LengthOverflows(n, 10) =>
                /\ (n * 10 + d) % (UllongMax + 1) = n * 10 + d
                /\ n * 10 + d \in 0..(UllongMax - 1)
           /\ \A d \in 0..15 : ~LengthOverflows(n, 16) =>
                /\ (n * 16 + d) % (UllongMax + 1) = n * 16 + d
                /\ n * 16 + d \in 0..(UllongMax - 1)
BY ParserAssumption DEF LengthOverflows

(* A value goes on, or ends with its line.                                  *)
LEMMA HeaderValueKeeps ==
    ASSUME Inv, HeaderValue PROVE Kept
<1>1. /\ at = "switch" /\ parser.state = "s_header_value" /\ parser.state \notin BodyText /\ AtSymbol
      /\ parser.header_state \notin {"h_connection", "h_transfer_encoding"}
  BY DEF HeaderValue, In, BodyText, AtSymbol, Inv, ParserOk
<1>2. CASE Error
  BY <1>1, <1>2, ErrorKeeps DEF Running
<1>3. CASE /\ parser' = [parser EXCEPT !.state = "s_header_almost_done"]
           /\ CallbackData("header_value") /\ (Break \/ Reexecute)
  <2>1. /\ DOMAIN parser' = ParserFields /\ parser'.http_errno = "HPE_OK"
        /\ parser'.content_length \in 0..UllongMax /\ parser'.nread \in 0..MaxHeaderSize
        /\ parser'.state \in LineStates \ Ends
    BY <1>1, <1>3, SwitchIs DEF ParserFields, LineStates, Ends
  <2>2. ParserOk' /\ OpenText(parser.state) = "header_value"
    BY <1>1, <2>1, StateIs, TextIs, ParserPlain
  <2> QED
    BY <1>1, <1>3, <2>1, <2>2, StateIs, CloseKeeps DEF Texts
<1>4. CASE /\ ~BadLength(ch)
           /\ parser' = [parser EXCEPT !.header_state = ValueNext(parser.header_state, ch),
                !.flags = IF ch = "," /\ parser.header_state # "h_transfer_encoding_chunked"
                          THEN @ \cup ValueFlags(parser.header_state) ELSE @,
                !.content_length = IF parser.header_state = "h_content_length_num" /\ IS_NUM(ch)
                                   THEN (@ * 10 + Digit[ch]) % (UllongMax + 1) ELSE @]
           /\ Break /\ Quiet
  <2>1. PICK h, fs, n :
          /\ h = ValueNext(parser.header_state, ch)
          /\ n = IF parser.header_state = "h_content_length_num" /\ IS_NUM(ch)
                 THEN (parser.content_length * 10 + Digit[ch]) % (UllongMax + 1)
                 ELSE parser.content_length
          /\ parser' = [parser EXCEPT !.header_state = h, !.flags = fs, !.content_length = n]
    BY <1>4
  <2>2. n \in 0..UllongMax
    <3>1. CASE parser.header_state = "h_content_length_num" /\ IS_NUM(ch)
      <4>1. ~LengthOverflows(parser.content_length, 10) /\ Digit[ch] \in 0..9
        BY <1>4, <3>1, DigitIs DEF BadLength, IS_NUM, Digit
      <4>2. n \in 0..(UllongMax - 1)
        BY <1>1, <2>1, <3>1, <4>1, SwitchIs, NoOverflow
      <4> QED
        BY <4>2, ParserAssumption
    <3>2. CASE ~(parser.header_state = "h_content_length_num" /\ IS_NUM(ch))
      BY <1>1, <2>1, <3>2, SwitchIs
    <3> QED
      BY <3>1, <3>2
  <2>3. /\ DOMAIN parser' = ParserFields /\ parser'.http_errno = "HPE_OK"
        /\ parser'.content_length \in 0..UllongMax /\ parser'.nread \in 0..MaxHeaderSize
        /\ parser'.state = "s_header_value"
        /\ parser'.header_state \notin {"h_connection", "h_transfer_encoding"}
    BY <1>1, <2>1, <2>2, ValueNextIs, SwitchIs DEF ParserFields
  <2>4. ParserOk' /\ Ordinary
    BY <2>3 DEF ParserOk, Sound, ChunkStates, BodyText, Ordinary, Ends
  <2>5. Cursor' /\ Marks' /\ RequestOk' /\ Grows
    BY <1>1, <1>4, <2>3, <2>4, Stays
  <2> QED
    BY <2>4, <2>5 DEF Kept
<1> QED
  BY <1>2, <1>3, <1>4 DEF HeaderValue

(* The line after a value,                                                  *)
LEMMA HeaderValueLwsKeeps ==
    ASSUME Inv, HeaderValueLws PROVE Kept
<1>1. at = "switch" /\ parser.state \in LineStates /\ Quiet /\ Reexecute
  BY DEF HeaderValueLws, In, LineStates
<1>2. /\ DOMAIN parser' = ParserFields /\ parser'.http_errno = "HPE_OK"
      /\ parser'.content_length \in 0..UllongMax /\ parser'.nread \in 0..MaxHeaderSize
      /\ parser'.state \in {"s_header_value_start", "s_header_field_start"}
  BY <1>1, SwitchIs DEF ParserFields, HeaderValueLws
<1> QED
  BY <1>1, <1>2, LineStep DEF LineStates, Ends

(* and after one that is empty so far.                                      *)
LEMMA HeaderValueDiscardLwsKeeps ==
    ASSUME Inv, HeaderValueDiscardLws PROVE Kept
<1>1. at = "switch" /\ parser.state \in DiscardStates
  BY DEF HeaderValueDiscardLws, In, DiscardStates
<1>2. CASE Error
  BY <1>1, <1>2, ErrorLine
<1>3. CASE Goto("s_header_value_discard_ws")
  BY <1>1, <1>3, DiscardGoes DEF DiscardStates
<1>4. CASE /\ parser' = [parser EXCEPT !.state = "s_header_field_start",
                                      !.flags = @ \cup ValueFlags(parser.header_state)]
           /\ request' = headerValueCallBack(request, <<>>)
           /\ Reexecute /\ UNCHANGED <<data, marks>>
  <2>1. /\ DOMAIN parser' = ParserFields /\ parser'.http_errno = "HPE_OK"
        /\ parser'.content_length \in 0..UllongMax /\ parser'.nread \in 0..MaxHeaderSize
        /\ parser'.state \in LineStates \ Ends
    BY <1>1, <1>4, SwitchIs DEF ParserFields, LineStates, Ends
  <2>2. ParserOk' /\ Ordinary /\ AtSymbol
    BY <1>1, <2>1, StateIs, ParserPlain DEF Ordinary, AtSymbol
  <2>3. Cursor' /\ Marks' /\ RequestOk' /\ Grows
    BY <1>1, <1>4, <2>1, <2>2, StateIs, EmptyValue
  <2> QED
    BY <2>2, <2>3 DEF Kept
<1> QED
  BY <1>2, <1>3, <1>4 DEF HeaderValueDiscardLws

------------------------------------------------------------------------------
(* The end of the headers, and chunks                                       *)

(* The headers or the message end.                                          *)
LEMMA CompleteKeeps ==
    ASSUME Inv, at = "switch", parser.state \in LineStates, UNCHANGED <<data, marks>>,
           DOMAIN parser' = ParserFields, parser'.http_errno = "HPE_OK",
           parser'.content_length \in 0..UllongMax, parser'.nread \in 0..MaxHeaderSize,
           parser'.state \in Ends, parser'.state # parser.state,
           request' \in {headerCompleteCallBack(request), messageCompleteCallBack(request)},
           \/ at' = "switch" /\ p' = p
           \/ at' \in {"fetch", "return"} /\ p' = p + 1
    PROVE  Kept
<1>1. AtSymbol
  BY StateIs DEF AtSymbol
<1>2. Cursor' /\ Marks' /\ RequestOk' /\ Grows
  BY <1>1, StateIs, Completes
<1>3. parser'.state \in LineStates
  BY DEF Ends, LineStates
<1> QED
  BY <1>2, <1>3, StateIs, ParserPlain DEF Kept

(* The end of the headers,                                                  *)
LEMMA HeadersAlmostDoneKeeps ==
    ASSUME Inv, HeadersAlmostDone PROVE Kept
<1>1. at = "switch" /\ parser.state = "s_headers_almost_done" /\ parser.state \in LineStates
  BY DEF HeadersAlmostDone, In, LineStates
<1>2. CASE Error
  BY <1>1, <1>2, ErrorLine
<1>3. CASE parser' = [parser EXCEPT !.state = "s_message_done"] /\ Reexecute /\ Quiet
  <2>1. /\ DOMAIN parser' = ParserFields /\ parser'.http_errno = "HPE_OK"
        /\ parser'.content_length \in 0..UllongMax /\ parser'.nread \in 0..MaxHeaderSize
        /\ parser'.state = "s_message_done"
    BY <1>1, <1>3, SwitchIs DEF ParserFields
  <2> QED
    BY <2>1, <1>1, <1>3, LineStep DEF LineStates, Ends
<1>4. ASSUME NEW u, parser' = [parser EXCEPT !.state = "s_headers_done", !.upgrade = u],
             request' = headerCompleteCallBack(request), Reexecute, UNCHANGED <<data, marks>>
      PROVE  Kept
  <2>1. /\ DOMAIN parser' = ParserFields /\ parser'.http_errno = "HPE_OK"
        /\ parser'.content_length \in 0..UllongMax /\ parser'.nread \in 0..MaxHeaderSize
        /\ parser'.state = "s_headers_done"
    BY <1>1, <1>4, SwitchIs DEF ParserFields
  <2>2. at' = "switch" /\ p' = p
    BY <1>4 DEF Reexecute
  <2> QED
    BY <1>1, <1>4, <2>1, <2>2, CompleteKeeps DEF Ends
<1> QED
  BY <1>2, <1>3, <1>4 DEF HeadersAlmostDone

(* where a message leads,                                                   *)
LEMMA NewMessageIs ==
    ASSUME NEW q PROVE NEW_MESSAGE(q) \in {"s_start_req", "s_dead"}
BY DEF NEW_MESSAGE

(* the end of a message with a body,                                        *)
LEMMA MessageDoneKeeps ==
    ASSUME Inv, MessageDone PROVE Kept
<1>1. at = "switch" /\ parser.state = "s_message_done" /\ parser.state \in LineStates
  BY DEF MessageDone, In, LineStates
<1>2. PICK s : s \in {"s_start_req", "s_dead"} /\ parser' = [parser EXCEPT !.state = s]
  BY NewMessageIs DEF MessageDone
<1>3. /\ DOMAIN parser' = ParserFields /\ parser'.http_errno = "HPE_OK"
      /\ parser'.content_length \in 0..UllongMax /\ parser'.nread \in 0..MaxHeaderSize
      /\ parser'.state \in {"s_start_req", "s_dead"}
  BY <1>1, <1>2, SwitchIs DEF ParserFields
<1>4. /\ request' = messageCompleteCallBack(request) /\ UNCHANGED <<data, marks>>
      /\ at' \in {"fetch", "return"} /\ p' = p + 1
  BY DEF MessageDone, MessageComplete
<1> QED
  BY <1>1, <1>3, <1>4, CompleteKeeps DEF Ends

(* and of one without, or the beginning of a body.                          *)
LEMMA HeadersDoneKeeps ==
    ASSUME Inv, HeadersDone PROVE Kept
<1>1. at = "switch" /\ parser.state = "s_headers_done" /\ parser.state \in LineStates
  BY DEF HeadersDone, In, LineStates
<1>2. PICK q : q = [parser EXCEPT !.nread = 0]
  OBVIOUS
<1>3. /\ DOMAIN q = ParserFields /\ q.http_errno = "HPE_OK"
      /\ q.content_length \in 0..UllongMax /\ q.nread = 0 /\ 0 \in 0..MaxHeaderSize
      /\ q.flags = parser.flags
  BY <1>1, <1>2, SwitchIs, ParserAssumption DEF ParserFields
<1>4. CASE Error
  BY <1>1, <1>4, ErrorLine
<1>5. ASSUME parser' = [q EXCEPT !.state = NEW_MESSAGE(q)], MessageComplete
      PROVE  Kept
  <2>1. PICK s : s \in {"s_start_req", "s_dead"} /\ parser' = [q EXCEPT !.state = s]
    BY <1>5, NewMessageIs
  <2>2. /\ DOMAIN parser' = ParserFields /\ parser'.http_errno = "HPE_OK"
        /\ parser'.content_length \in 0..UllongMax /\ parser'.nread \in 0..MaxHeaderSize
        /\ parser'.state \in {"s_start_req", "s_dead"}
    BY <1>3, <2>1 DEF ParserFields
  <2>3. /\ request' = messageCompleteCallBack(request) /\ UNCHANGED <<data, marks>>
        /\ at' \in {"fetch", "return"} /\ p' = p + 1
    BY <1>5 DEF MessageComplete
  <2> QED
    BY <1>1, <2>2, <2>3, CompleteKeeps DEF Ends
<1>6. ASSUME NEW s, parser' = [q EXCEPT !.state = s], Break, Quiet,
             \/ s = "s_chunk_size_start" /\ "F_CHUNKED" \in q.flags
             \/ s = "s_body_identity" /\ q.content_length \notin {0, UllongMax}
      PROVE  Kept
  <2>1. /\ DOMAIN parser' = ParserFields /\ parser'.http_errno = "HPE_OK"
        /\ parser'.content_length = q.content_length /\ parser'.nread = 0
        /\ parser'.state = s /\ parser'.flags = q.flags
    BY <1>3, <1>6 DEF ParserFields
  <2>2. at' = "fetch"
    BY <1>6 DEF Break
  <2>3. ParserOk'
    BY <1>3, <1>6, <2>1, <2>2 DEF ParserOk, Sound, ChunkStates, BodyText
  <2>4. AtSymbol /\ Ordinary /\ OpenText(parser.state) = "none" /\ parser.state \notin NameStates
    BY <1>1, <1>6, <2>1, StateIs DEF AtSymbol, Ordinary, Ends
  <2>5. OpenText(parser'.state) = "none"
    BY <1>6, <2>1, TextIs DEF ChunkStates, BodyText
  <2>6. Cursor' /\ Marks' /\ RequestOk' /\ Grows
    BY <1>6, <2>4, <2>5, Stays
  <2> QED
    BY <2>3, <2>6 DEF Kept
<1> QED
  BY <1>2, <1>4, <1>5, <1>6 DEF HeadersDone

(* The states between the chunks of a body.                                 *)
BetweenStates == ChunkStates \ {"s_chunk_data", "s_chunk_data_almost_done"}

(* No text is open there.                                                   *)
LEMMA BetweenIs ==
    \A s \in BetweenStates : /\ OpenText(s) = "none" /\ s \notin BodyText /\ s \notin NameStates
                             /\ s \notin Ends /\ s # "s_chunk_data_almost_done"
BY DEF BetweenStates, ChunkStates, OpenText, InUrl, UrlStartStates, UrlStates, BodyText, NameStates, Ends

(* A step to such a state, to the data or to the trailing headers.          *)
LEMMA BetweenGoes ==
    ASSUME Inv, at = "switch", parser.state \in BetweenStates, Break, Quiet, ParserOk',
           parser'.state \in BetweenStates \cup {"s_chunk_data", "s_header_field_start"},
           parser'.http_errno = "HPE_OK"
    PROVE  Kept
<1>1. OpenText(parser'.state) = "none" /\ parser'.state \notin Ends
  BY BetweenIs, TextIs, StateIs DEF BodyText, LineStates, Ends
<1>2. AtSymbol /\ Ordinary
  BY <1>1, BetweenIs DEF AtSymbol, Ordinary
<1>3. Cursor' /\ Marks' /\ RequestOk' /\ Grows
  BY <1>1, <1>2, BetweenIs, Stays
<1> QED
  BY <1>3 DEF Kept

(* An error there.                                                          *)
LEMMA ErrorBetween ==
    ASSUME Inv, at = "switch", parser.state \in ChunkStates \ {"s_chunk_data"}, Error
    PROVE  Kept
BY ErrorKeeps DEF ChunkStates, BodyText, Running

(* A hexadecimal digit is below sixteen.                                    *)
LEMMA UnhexIs == \A c \in DOMAIN Unhex : Unhex[c] \in 0..15
<1>1. ASSUME NEW c \in DOMAIN Unhex PROVE Unhex[c] \in 0..15
  <2>1. c \in {"a", "C"} => Unhex[c] \in 0..15
    BY DEF Unhex
  <2>2. c \notin {"a", "C"} => c \in DOMAIN Digit /\ Unhex[c] = Digit[c]
    BY DEF Unhex, Digit
  <2> QED
    BY <2>1, <2>2, DigitIs
<1> QED
  BY <1>1

(* The first digit of a chunk's size,                                       *)
LEMMA ChunkSizeStartKeeps ==
    ASSUME Inv, ChunkSizeStart PROVE Kept
<1>1. /\ at = "switch" /\ parser.state = "s_chunk_size_start" /\ parser.state \in BetweenStates
      /\ parser.state \in ChunkStates \ {"s_chunk_data"} /\ "F_CHUNKED" \in parser.flags
  BY DEF ChunkSizeStart, In, BetweenStates, ChunkStates, Inv, ParserOk
<1>2. CASE Error
  BY <1>1, <1>2, ErrorBetween
<1>3. CASE ~Error
  <2>1. PICK n \in 0..15 : parser' = [parser EXCEPT !.content_length = n, !.state = "s_chunk_size"]
    BY <1>3, UnhexIs DEF ChunkSizeStart
  <2>2. n \in 0..UllongMax /\ n # UllongMax
    BY ParserAssumption
  <2>3. /\ DOMAIN parser' = ParserFields /\ parser'.http_errno = "HPE_OK"
        /\ parser'.content_length = n /\ parser'.nread \in 0..MaxHeaderSize
        /\ parser'.state = "s_chunk_size" /\ parser'.flags = parser.flags
    BY <1>1, <2>1, SwitchIs DEF ParserFields
  <2>4. ParserOk'
    BY <1>1, <2>2, <2>3 DEF ParserOk, Sound, ChunkStates, BodyText
  <2>5. Break /\ Quiet
    BY <1>3 DEF ChunkSizeStart
  <2> QED
    BY <1>1, <2>3, <2>4, <2>5, BetweenGoes DEF BetweenStates, ChunkStates
<1> QED
  BY <1>2, <1>3

(* what may follow a size,                                                  *)
LEMMA SizeGoes ==
    ASSUME Inv, at = "switch", parser.state \in {"s_chunk_size", "s_chunk_parameters"},
           NEW s \in {"s_chunk_size_almost_done", "s_chunk_parameters"}, Goto(s)
    PROVE  Kept
<1>1. Break /\ Quiet /\ parser' = [parser EXCEPT !.state = s]
  BY DEF Goto
<1>2. /\ DOMAIN parser' = ParserFields /\ parser'.http_errno = "HPE_OK"
      /\ parser'.content_length = parser.content_length /\ parser'.nread \in 0..MaxHeaderSize
      /\ parser'.state = s /\ parser'.flags = parser.flags
      /\ parser.content_length \in 0..UllongMax
  BY <1>1, SwitchIs DEF ParserFields
<1>3. parser.content_length # UllongMax /\ "F_CHUNKED" \in parser.flags
  BY DEF Inv, ParserOk, ChunkStates
<1>4. ParserOk'
  BY <1>2, <1>3 DEF ParserOk, Sound, ChunkStates, BodyText
<1>5. parser.state \in BetweenStates /\ s \in BetweenStates
  BY DEF BetweenStates, ChunkStates
<1> QED
  BY <1>1, <1>2, <1>4, <1>5, BetweenGoes

(* more digits,                                                             *)
LEMMA ChunkSizeKeeps ==
    ASSUME Inv, ChunkSize PROVE Kept
<1>1. /\ at = "switch" /\ parser.state = "s_chunk_size" /\ parser.state \in BetweenStates
      /\ parser.state \in ChunkStates \ {"s_chunk_data"} /\ "F_CHUNKED" \in parser.flags
  BY DEF ChunkSize, In, BetweenStates, ChunkStates, Inv, ParserOk
<1>2. CASE Error
  BY <1>1, <1>2, ErrorBetween
<1>3. CASE Goto("s_chunk_size_almost_done") \/ Goto("s_chunk_parameters")
  BY <1>1, <1>3, SizeGoes
<1>4. ASSUME ch \in DOMAIN Unhex, ~BadChunkSize, Break, Quiet,
             parser' = [parser EXCEPT !.content_length = (@ * 16 + Unhex[ch]) % (UllongMax + 1)]
      PROVE  Kept
  <2>1. ch \notin {"CR", ";", " "}
    BY <1>4 DEF Unhex
  <2>2. ~LengthOverflows(parser.content_length, 16) /\ Unhex[ch] \in 0..15
    BY <1>4, <2>1, UnhexIs DEF BadChunkSize
  <2>3. PICK n : n = (parser.content_length * 16 + Unhex[ch]) % (UllongMax + 1)
    OBVIOUS
  <2>4. n \in 0..(UllongMax - 1)
    BY <1>1, <2>2, <2>3, SwitchIs, NoOverflow
  <2>5. n \in 0..UllongMax /\ n # UllongMax
    BY <2>4, ParserAssumption
  <2>6. /\ DOMAIN parser' = ParserFields /\ parser'.http_errno = "HPE_OK"
        /\ parser'.content_length = n /\ parser'.nread \in 0..MaxHeaderSize
        /\ parser'.state = "s_chunk_size" /\ parser'.flags = parser.flags
    BY <1>1, <1>4, <2>3, SwitchIs DEF ParserFields
  <2>7. ParserOk'
    BY <1>1, <2>5, <2>6 DEF ParserOk, Sound, ChunkStates, BodyText
  <2> QED
    BY <1>1, <1>4, <2>6, <2>7, BetweenGoes
<1> QED
  BY <1>2, <1>3, <1>4 DEF ChunkSize

(* parameters, which are skipped,                                           *)
LEMMA ChunkParametersKeeps ==
    ASSUME Inv, ChunkParameters PROVE Kept
BY SizeGoes DEF ChunkParameters, In

(* the end of the line,                                                     *)
LEMMA ChunkSizeAlmostDoneKeeps ==
    ASSUME Inv, ChunkSizeAlmostDone PROVE Kept
<1>1. /\ at = "switch" /\ parser.state = "s_chunk_size_almost_done" /\ parser.state \in BetweenStates
      /\ parser.state \in ChunkStates \ {"s_chunk_data"} /\ "F_CHUNKED" \in parser.flags
      /\ parser.content_length # UllongMax
  BY DEF ChunkSizeAlmostDone, In, BetweenStates, ChunkStates, Inv, ParserOk
<1>2. CASE Error
  BY <1>1, <1>2, ErrorBetween
<1>3. CASE ~Error
  <2>1. PICK fs, s : /\ parser' = [parser EXCEPT !.nread = 0, !.flags = fs, !.state = s]
                     /\ parser.content_length = 0 => s = "s_header_field_start"
                     /\ parser.content_length # 0 => s = "s_chunk_data" /\ fs = parser.flags
                     /\ Break /\ Quiet
    BY <1>3 DEF ChunkSizeAlmostDone
  <2>2. /\ DOMAIN parser' = ParserFields /\ parser'.http_errno = "HPE_OK"
        /\ parser'.content_length = parser.content_length /\ parser'.nread = 0
        /\ parser'.state = s /\ parser'.flags = fs /\ 0 \in 0..MaxHeaderSize
        /\ parser.content_length \in 0..UllongMax
    BY <1>1, <2>1, SwitchIs, ParserAssumption DEF ParserFields
  <2>3. ParserOk'
    BY <1>1, <2>1, <2>2 DEF ParserOk, Sound, ChunkStates, BodyText
  <2> QED
    BY <1>1, <2>1, <2>2, <2>3, BetweenGoes
<1> QED
  BY <1>2, <1>3

(* the end of the line after the data,                                      *)
LEMMA ChunkDataDoneKeeps ==
    ASSUME Inv, ChunkDataDone PROVE Kept
<1>1. /\ at = "switch" /\ parser.state = "s_chunk_data_done" /\ parser.state \in BetweenStates
      /\ parser.state \in ChunkStates \ {"s_chunk_data"} /\ "F_CHUNKED" \in parser.flags
  BY DEF ChunkDataDone, In, BetweenStates, ChunkStates, Inv, ParserOk
<1>2. CASE Error
  BY <1>1, <1>2, ErrorBetween
<1>3. CASE ~Error
  <2>1. /\ parser' = [parser EXCEPT !.nread = 0, !.state = "s_chunk_size_start"]
        /\ Break /\ Quiet /\ at' = "fetch"
    BY <1>3 DEF ChunkDataDone, Break
  <2>2. /\ DOMAIN parser' = ParserFields /\ parser'.http_errno = "HPE_OK"
        /\ parser'.content_length \in 0..UllongMax /\ parser'.nread = 0 /\ 0 \in 0..MaxHeaderSize
        /\ parser'.state = "s_chunk_size_start" /\ parser'.flags = parser.flags
    BY <1>1, <2>1, SwitchIs, ParserAssumption DEF ParserFields
  <2>3. ParserOk'
    BY <1>1, <2>1, <2>2 DEF ParserOk, Sound, ChunkStates, BodyText
  <2> QED
    BY <1>1, <2>1, <2>2, <2>3, BetweenGoes DEF BetweenStates, ChunkStates
<1> QED
  BY <1>2, <1>3

(* and the end of the data.                                                 *)
LEMMA ChunkEndKeeps ==
    ASSUME Inv, ChunkDataAlmostDone PROVE Kept
<1>1. /\ at = "switch" /\ parser.state = "s_chunk_data_almost_done"
      /\ parser.state \in ChunkStates \ {"s_chunk_data"} /\ "F_CHUNKED" \in parser.flags
  BY DEF ChunkDataAlmostDone, In, ChunkStates, Inv, ParserOk
<1>2. CASE Error
  BY <1>1, <1>2, ErrorBetween
<1>3. CASE ~Error
  <2>1. parser' = [parser EXCEPT !.state = "s_chunk_data_done"] /\ ch = "CR"
    BY <1>3 DEF ChunkDataAlmostDone
  <2>2. /\ DOMAIN parser' = ParserFields /\ parser'.http_errno = "HPE_OK"
        /\ parser'.content_length \in 0..UllongMax /\ parser'.nread \in 0..MaxHeaderSize
        /\ parser'.state = "s_chunk_data_done" /\ parser'.flags = parser.flags
    BY <1>1, <2>1, SwitchIs DEF ParserFields
  <2>3. ParserOk'
    BY <1>1, <2>2 DEF ParserOk, Sound, ChunkStates, BodyText
  <2> QED
    BY <2>1, <2>3, ChunkDataAlmostDoneKeeps DEF Kept
<1> QED
  BY <1>2, <1>3

(* What is left of a body is counted down to zero, where its state ends.    *)
LEMMA BodyKeeps ==
    ASSUME Inv, BodyIdentity \/ ChunkData PROVE Kept
<1>1. at = "switch" /\ parser.state \in BodyText
  BY DEF BodyIdentity, ChunkData, In, BodyText
<1>2. PICK n, s : /\ n = parser.content_length - ToRead
                  /\ parser' = [parser EXCEPT !.content_length = n, !.state = s]
                  /\ BodyIdentity => s = IF parser.content_length = ToRead THEN "s_message_done"
                                         ELSE "s_body_identity"
                  /\ ~BodyIdentity => /\ parser.state = "s_chunk_data"
                                      /\ s = IF parser.content_length = ToRead
                                             THEN "s_chunk_data_almost_done" ELSE "s_chunk_data"
  BY DEF BodyIdentity, ChunkData, In
<1>3. /\ n \in 0..parser.content_length /\ parser.content_length \in 1..UllongMax
      /\ parser.content_length < UllongMax /\ ToRead \in Int
  BY <1>1, <1>2, ToReadIs
<1>4. n \in 0..UllongMax /\ n # UllongMax /\ (n = 0 <=> parser.content_length = ToRead)
  BY <1>2, <1>3, ParserAssumption
<1>5. /\ DOMAIN parser' = ParserFields /\ parser'.http_errno = "HPE_OK"
      /\ parser'.content_length = n /\ parser'.nread \in 0..MaxHeaderSize
      /\ parser'.state = s /\ parser'.flags = parser.flags
  BY <1>1, <1>2, SwitchIs DEF ParserFields
<1>6. parser.state = "s_chunk_data" => "F_CHUNKED" \in parser.flags
  BY DEF Inv, ParserOk, ChunkStates
<1>7. ParserOk'
  BY <1>2, <1>4, <1>5, <1>6 DEF ParserOk, Sound, ChunkStates, BodyText
<1> QED
  BY <1>7, BodyIdentityKeeps, ChunkDataKeeps DEF Kept

------------------------------------------------------------------------------
(* The invariant holds                                                      *)

(* The end of the data.                                                     *)
LEMMA EndKeeps ==
    ASSUME Inv, EndOfData PROVE Kept
<1>1. at = "fetch" /\ at' = "return" /\ parser' = parser
  BY DEF EndOfData
<1>2. ParserOk'
  BY <1>1 DEF Inv, ParserOk, Running, Sound
<1> QED
  BY <1>2, EndOfDataKeeps DEF Kept

(* Every step of the parser keeps the invariant, and adds to what has come  *)
(* in exactly what it takes.                                                *)
LEMMA ParserStepKeeps ==
    ASSUME Inv, ParserStep PROVE Kept
<1>1. CASE Fetch \/ EndOfData
  BY <1>1, FetchKeeps, EndKeeps
<1>2. CASE Dead \/ StartReq \/ ReqMethod \/ SpacesBeforeUrl \/ ReqUrlStart \/ ReqUrl
  BY <1>2, DeadKeeps, StartReqKeeps, ReqMethodKeeps, SpacesBeforeUrlKeeps, ReqUrlStartKeeps,
     ReqUrlKeeps
<1>3. CASE HttpStart \/ HttpMajor \/ HttpMinor \/ Expect
  BY <1>3, HttpStartKeeps, HttpVersionKeeps, ExpectKeeps
<1>4. CASE HeaderFieldStart \/ HeaderField \/ HeaderValueDiscardWs \/ HeaderValueStart
  BY <1>4, HeaderFieldStartKeeps, HeaderFieldKeeps, HeaderValueDiscardWsKeeps,
     HeaderValueStartKeeps
<1>5. CASE HeaderValue \/ HeaderValueLws \/ HeaderValueDiscardLws
  BY <1>5, HeaderValueKeeps, HeaderValueLwsKeeps, HeaderValueDiscardLwsKeeps
<1>6. CASE HeadersAlmostDone \/ HeadersDone \/ BodyIdentity \/ MessageDone
  BY <1>6, HeadersAlmostDoneKeeps, HeadersDoneKeeps, BodyKeeps, MessageDoneKeeps
<1>7. CASE ChunkSizeStart \/ ChunkSize \/ ChunkParameters \/ ChunkSizeAlmostDone
  BY <1>7, ChunkSizeStartKeeps, ChunkSizeKeeps, ChunkParametersKeeps, ChunkSizeAlmostDoneKeeps
<1>8. CASE ChunkData \/ ChunkDataAlmostDone \/ ChunkDataDone
  BY <1>8, BodyKeeps, ChunkEndKeeps, ChunkDataDoneKeeps
<1> QED
  BY <1>1, <1>2, <1>3, <1>4, <1>5, <1>6, <1>7, <1>8 DEF ParserStep

(* The parser runs only inside a call.                                      *)
LEMMA ParserStepRuns ==
    ASSUME ParserStep PROVE Running
<1>1. Fetch \/ EndOfData \/ Dead \/ StartReq \/ ReqMethod \/ SpacesBeforeUrl => Running
  BY DEF Fetch, EndOfData, Dead, StartReq, ReqMethod, SpacesBeforeUrl, In, Running
<1>2. ReqUrlStart \/ ReqUrl \/ HttpStart \/ HttpMajor \/ HttpMinor \/ Expect => Running
  BY DEF ReqUrlStart, ReqUrl, HttpStart, HttpMajor, HttpMinor, Expect, In, Running
<1>3. HeaderFieldStart \/ HeaderField \/ HeaderValueDiscardWs \/ HeaderValueStart \/ HeaderValue
        \/ HeaderValueLws \/ HeaderValueDiscardLws => Running
  BY DEF HeaderFieldStart, HeaderField, HeaderValueDiscardWs, HeaderValueStart, HeaderValue,
         HeaderValueLws, HeaderValueDiscardLws, In, Running
<1>4. HeadersAlmostDone \/ HeadersDone \/ BodyIdentity \/ MessageDone \/ ChunkSizeStart => Running
  BY DEF HeadersAlmostDone, HeadersDone, BodyIdentity, MessageDone, ChunkSizeStart, In, Running
<1>5. ChunkSize \/ ChunkParameters \/ ChunkSizeAlmostDone \/ ChunkData \/ ChunkDataAlmostDone
        \/ ChunkDataDone => Running
  BY DEF ChunkSize, ChunkParameters, ChunkSizeAlmostDone, ChunkData, ChunkDataAlmostDone,
         ChunkDataDone, In, Running
<1> QED
  BY <1>1, <1>2, <1>3, <1>4, <1>5 DEF ParserStep

(* What ReadsUnseen says of a step.                                         *)
StepUnseen ==
    IF parser.http_errno # "HPE_OK" THEN UNCHANGED handled
    ELSE IF at \in {"poll", "fetch", "switch"}
    THEN Seen' = Grown(Seen, parser.state, parser'.state, Taken) /\ UNCHANGED handled
    ELSE \/ UNCHANGED <<Seen, handled>>
         \/ /\ Seen' = NothingSeen
            /\ handled' = Append(handled, [f \in Observed |-> request[f]])
            /\ <<request.request_url, request.headers, request.body>>
                 = <<Seen.url, Seen.headers, Seen.body>>

(* All bytes that a client sends are symbols.                               *)
LEMMA StreamIs ==
    ASSUME stream \in Streams
    PROVE  BytesAfter(0) \in Seq(Symbols)
<1>1. /\ stream \in Seq(ToSet(stream)) /\ \A k \in DOMAIN stream : stream[k].bytes \in Seq(Symbols)
  BY HttpAssumption
<1>2. Len(stream) \in Nat /\ DOMAIN stream = 1..Len(stream) /\ Len(stream) - 0 = Len(stream)
  BY <1>1
<1> DEFINE s == [i \in 1..(Len(stream) - 0) |-> stream[0 + i].bytes]
<1>3. \A i \in 1..(Len(stream) - 0) : stream[0 + i].bytes \in Seq(Symbols)
  BY <1>1, <1>2
<1>4. s \in Seq(Seq(Symbols)) /\ Len(s) = Len(stream)
  BY <1>2, <1>3
<1>5. BytesAfter(0) = FlattenSeq(s)
  BY DEF BytesAfter
<1> HIDE DEF s
<1>6. CASE s = <<>>
  <2>1. Len(s) = 0
    BY <1>6
  <2>2. FlattenSeq(s) = s
    BY <2>1 DEF FlattenSeq
  <2>3. <<>> \in Seq(Symbols)
    OBVIOUS
  <2> QED
    BY <2>2, <2>3, <1>5, <1>6
<1>7. CASE s # <<>>
  <2>1. PICK f : /\ FlattenSeq(s) = f[Len(s)]
                 /\ \A i \in 1..Len(s) : f[i] \in Seq(Symbols)
    BY <1>4, <1>7, FlattenIs
  <2>2. Len(s) \in 1..Len(s)
    BY <1>4, <1>7, EmptySeq
  <2> QED
    BY <2>1, <2>2, <1>5
<1> QED
  BY <1>6, <1>7

(* Initially.                                                               *)
LEMMA InitOk ==
    ASSUME Init PROVE Inv
<1>1. files \subseteq DOMAIN FileSize /\ unread \in Seq(Symbols)
  BY StreamIs DEF Init
<1>2. /\ data = <<>> /\ p = 1 /\ at = "poll" /\ marks = NoMarks /\ parser = NewParser
      /\ <<>> \in Seq(Symbols) /\ Len(<<>>) = 0
  BY DEF Init
<1>3. Cursor /\ ~Running
  BY <1>2 DEF Cursor, Places, Running
<1>4. Marks
  <2>1. \A m \in MarkNames : marks[m] = 0 /\ marks[m] \in 0..Len(data)
    BY <1>2, NoMarksIs
  <2> QED
    BY <2>1, <1>2, <1>3, NoMarksIs DEF Marks
<1>5. ParserOk /\ parser.state = "s_start_req"
  <2>1. parser.state = "s_start_req" /\ DOMAIN parser = ParserFields /\ parser.http_errno = "HPE_OK"
        /\ parser.content_length = 0 /\ parser.nread = 0
    BY <1>2 DEF NewParser, ParserFields
  <2>2. 0 \in 0..UllongMax /\ 0 \in 0..MaxHeaderSize
    BY ParserAssumption
  <2> QED
    BY <2>1, <2>2, <1>3 DEF ParserOk, Sound, ChunkStates, BodyText
<1>6. RequestOk
  <2>1. PICK e : request = NewRequest(e)
    BY DEF Init
  <2> QED
    BY <2>1, <1>5, NewRequestIs DEF RequestOk
<1> QED
  BY <1>1, <1>3, <1>4, <1>5, <1>6 DEF Inv

(* A read starts a call of the parser.                                      *)
LEMMA HandleReadKeeps ==
    ASSUME Inv, HandleRead PROVE Inv' /\ StepUnseen
<1>1. at = "poll" /\ ~Running /\ UNCHANGED <<files, handled>>
  BY DEF HandleRead, serverVars, Running
<1>2. PICK n \in 1..Len(unread) :
        /\ Execute(SubSeq(unread, 1, n)) /\ unread' = SubSeq(unread, n + 1, Len(unread))
  BY DEF HandleRead
<1>3. unread \in Seq(Symbols) /\ Len(unread) \in Nat
  BY DEF Inv
<1>4. /\ SubSeq(unread, 1, n) \in Seq(Symbols) /\ Len(SubSeq(unread, 1, n)) = n
      /\ unread' \in Seq(Symbols)
  BY <1>2, <1>3
<1>5. PICK b : b = SubSeq(unread, 1, n)
  OBVIOUS
<1>6. b \in Seq(Symbols) /\ b # <<>> /\ Execute(b)
  BY <1>2, <1>4, <1>5
<1>7. Cursor' /\ Marks' /\ ParserOk' /\ RequestOk' /\ (Sound => Seen' = Seen) /\ parser' = parser
  BY <1>1, <1>6, ExecuteKeeps DEF Execute
<1>8. Inv'
  BY <1>1, <1>4, <1>7 DEF Inv
<1>9. Taken = <<>>
  BY <1>1 DEF Taken
<1> QED
  BY <1>1, <1>7, <1>8, <1>9, NothingGrows DEF StepUnseen, Sound

(* The parser.                                                              *)
LEMMA ParseKeeps ==
    ASSUME Inv, Parse PROVE Inv' /\ StepUnseen
<1>1. ParserStep /\ UNCHANGED <<unread, files, handled>>
  BY DEF Parse, serverVars
<1>2. Running /\ Kept
  BY <1>1, ParserStepRuns, ParserStepKeeps
<1>3. Inv'
  BY <1>1, <1>2 DEF Inv, Kept
<1> QED
  BY <1>1, <1>2, <1>3 DEF StepUnseen, Kept, Grows, Running

(* A step of the loop that leaves the parser and the request alone.         *)
LEMMA LoopKeeps ==
    ASSUME Inv, ~Running, at' \in Places \ {"fetch", "switch"},
           UNCHANGED <<data, p, marks, parser, request, unread, handled>>,
           files' \subseteq files, at' = "read" => Sound
    PROVE  Inv' /\ StepUnseen
<1>1. Cursor' /\ Marks' /\ ParserOk' /\ RequestOk' /\ Seen' = Seen
  BY LoopMoves
<1>2. Inv'
  BY <1>1 DEF Inv
<1>3. Taken = <<>>
  BY DEF Taken, Running
<1> QED
  BY <1>1, <1>2, <1>3, NothingGrows DEF StepUnseen

(* The loop's own steps, and what others do to the file system.             *)
LEMMA RoundKeeps ==
    ASSUME Inv, Woken \/ PopAll \/ EndRound \/ Found \/ ReadFileThrows \/ WriteInLoop
                  \/ HandleWriteComplete \/ RemoveFile
    PROVE  Inv' /\ StepUnseen
<1>1. /\ ~Running /\ UNCHANGED <<data, p, marks, parser, request, unread, handled>>
      /\ files' \subseteq files
  BY DEF Woken, PopAll, EndRound, Found, Finished, ReadFileThrows, WriteInLoop, HandleWriteComplete,
         RemoveFile, Running, parserVars, serverVars, historyVars
<1>2. at' \in Places \ {"fetch", "switch"}
  BY DEF Woken, PopAll, EndRound, Found, ReadFileThrows, WriteInLoop, HandleWriteComplete,
         RemoveFile, parserVars, Places
<1>3. at' = "read" => Sound
  <2>1. Found => Sound
    BY DEF Found, Finished, ParseFailed, Sound
  <2>2. ReadFileThrows \/ RemoveFile => Sound
    BY DEF ReadFileThrows, RemoveFile, Inv, ParserOk
  <2>3. Woken \/ PopAll \/ EndRound \/ WriteInLoop \/ HandleWriteComplete => at' # "read"
    BY DEF Woken, PopAll, EndRound, WriteInLoop, HandleWriteComplete, parserVars
  <2> QED
    BY <2>1, <2>2, <2>3
<1> QED
  BY <1>1, <1>2, <1>3, LoopKeeps

(* handleMessageCome without a request,                                     *)
LEMMA NoRequestKeeps ==
    ASSUME Inv, BadRequest \/ Unfinished PROVE Inv' /\ StepUnseen
<1>1. /\ at = "return" /\ ~Running /\ Return /\ UNCHANGED <<parser, request, unread, files, handled>>
  BY DEF BadRequest, Unfinished, Running, historyVars
<1>2. Cursor' /\ Marks' /\ ParserOk' /\ RequestOk' /\ (Sound => Seen' = Seen)
  BY <1>1, ReturnKeeps
<1>3. Inv'
  BY <1>1, <1>2 DEF Inv
<1> QED
  BY <1>1, <1>2, <1>3 DEF StepUnseen, Sound

(* and with one.                                                            *)
LEMMA RequestKeeps ==
    ASSUME Inv, NotFound \/ TooLarge \/ ReadFile PROVE Inv' /\ StepUnseen
<1>1. PICK text : Respond(text)
  BY DEF NotFound, TooLarge, ReadFile
<1>2. at \in {"return", "read"} /\ ~Running /\ Sound
  BY DEF NotFound, TooLarge, ReadFile, Finished, ParseFailed, Running, Sound, Inv, ParserOk
<1>3. /\ Reset /\ Return /\ UNCHANGED <<unread, files>>
      /\ handled' = Append(handled, [f \in Observed |-> request[f]])
  BY <1>1 DEF Respond
<1>4. /\ Cursor' /\ Marks' /\ ParserOk' /\ RequestOk' /\ Seen' = NothingSeen
      /\ <<request.request_url, request.headers, request.body>>
           = <<Seen.url, Seen.headers, Seen.body>>
  BY <1>2, <1>3, RespondKeeps
<1>5. Inv'
  BY <1>3, <1>4 DEF Inv
<1> QED
  BY <1>2, <1>3, <1>4, <1>5 DEF StepUnseen, Sound

(* Every step.                                                              *)
LEMMA NextKeeps ==
    ASSUME Inv, Next, ~UNCHANGED vars PROVE Inv' /\ StepUnseen
<1>1. CASE LoopStep
  BY <1>1, HandleReadKeeps, ParseKeeps, RoundKeeps, NoRequestKeeps, RequestKeeps DEF LoopStep
<1>2. CASE RemoveFile
  BY <1>2, RoundKeeps
<1> QED
  BY <1>1, <1>2 DEF Next, Finish

(* A stuttering step.                                                       *)
LEMMA StutterKeeps ==
    ASSUME Inv, UNCHANGED vars PROVE Inv'
BY DEF Inv, vars, parserVars, Cursor, Marks, ParserOk, RequestOk, Running, Sound

(* Inv is an invariant of HTTPServer on a connection, whatever the client   *)
(* sends, however it is cut into reads and whatever happens to the files.   *)
THEOREM InvHolds == Spec => []Inv
<1>1. Init => Inv
  BY InitOk
<1>2. Inv /\ [Next]_vars => Inv'
  BY NextKeeps, StutterKeeps
<1> QED
  BY <1>1, <1>2, PTL DEF Spec

(* TypeOK: the parser never leaves its data, a counted length stays in its  *)
(* type, and no more than max_header_size bytes of headers are counted.     *)
THEOREM TypeCorrect == Spec => []TypeOK
<1>1. Inv => TypeOK
  BY DEF Inv, Cursor, Marks, ParserOk, TypeOK, Places
<1> QED
  BY <1>1, InvHolds, PTL

(* The assertions are parts of the invariant.                               *)
LEMMA AssertionsFollow ==
    ASSUME Inv PROVE AssertionsHold
<1>1. ASSUME at = "fetch" PROVE Cardinality({m \in DOMAIN marks : marks[m] # 0}) <= 1
  <2> DEFINE S == {m \in DOMAIN marks : marks[m] # 0}
  <2>1. DOMAIN marks = MarkNames /\ Running
    BY <1>1 DEF Inv, Marks, Running
  <2>2. CASE S = {}
    BY <2>2, FS_EmptySet
  <2>3. ASSUME NEW m \in S PROVE Cardinality(S) <= 1
    <3>1. \A x \in MarkNames \ {m} : marks[x] = 0
      BY <2>1, <2>3, SingleMark
    <3>2. S = {m}
      BY <2>1, <3>1
    <3> QED
      BY <3>2, FS_Singleton
  <2> QED
    BY <2>2, <2>3
<1>2. at = "switch" => Sound
  BY DEF Inv, ParserOk, Running
<1> QED
  BY <1>1, <1>2 DEF Inv, ParserOk, AssertionsHold, ChunkStates, BodyText, FieldStates

(* No assertion of http_parser_execute fails (http_parser.c:1361, 1517,     *)
(* 1939, 1988-2102, 2125), for every stream of bytes and every way of       *)
(* cutting it into reads.                                                   *)
THEOREM Assertions == Spec => []AssertionsHold
BY InvHolds, AssertionsFollow, PTL

(* Reads leave no trace: the URL, the headers and the body that have come   *)
(* in grow by the symbols alone, wherever a read ends, and what they have   *)
(* grown to is what is handled (http_parser.c:680-703, 2118-2140,           *)
(* http_context.cpp:82-124).                                                *)
THEOREM Unseen == Spec => ReadsUnseen
<1>1. Inv /\ [Next]_vars => [StepUnseen]_vars
  BY NextKeeps
<1>2. ReadsUnseen <=> [][StepUnseen]_vars
  BY DEF ReadsUnseen, StepUnseen
<1> QED
  BY <1>1, <1>2, InvHolds, PTL DEF Spec
==============================================================================
