------------------------------ MODULE HttpServer ------------------------------
(***************************************************************************)
(* HTTPServer on one connection: what the client sends is cut into reads at *)
(* any place, each read is parsed, a finished request is answered from the  *)
(* file system, and the loop runs the functors that write the answer and    *)
(* report its completion.                                                   *)
(*                                                                          *)
(* The socket takes every answer at once; partial writes are the subject of *)
(* TcpConnection and ByteStream.                                            *)
(***************************************************************************)
EXTENDS HttpParser, SequencesExt

CONSTANTS
    Streams,       \* what a client may send: sequences of messages
    FileSize,      \* the size of each file, by path
    Directories,   \* the paths that are directories
    kMaxFileSize   \* the largest file that is served

(* A message is its text and what it means: whether it is legal, the        *)
(* request that the application should see, and whether the client wants to *)
(* go on after it.                                                          *)
ASSUME HttpAssumption ==
    /\ \A s \in Streams : s \in Seq(ToSet(s)) /\ \A k \in DOMAIN s :
         /\ {"bytes", "legal", "keeps", "method", "url", "headers", "body"} = DOMAIN s[k]
         /\ s[k].bytes \in Seq(Symbols)
    /\ \A f \in DOMAIN FileSize : FileSize[f] \in Nat
    /\ Directories \subseteq DOMAIN FileSize
    /\ kMaxFileSize \in Nat

VARIABLES
    stream,        \* the messages of this client
    unread,        \* what of their bytes has not been read
    files,         \* the files that exist
    pending_functors_, functors,   \* the loop's queue and the batch it runs
    out,           \* the responses written
    shut,          \* shutdown(SHUT_WR) has been called
    crashed,       \* an uncaught exception or SIGPIPE
    handled,       \* the requests that were handled, as they were
    split,         \* a read has ended inside a URL
    mixed          \* a read has held bytes of two messages

serverVars == <<pending_functors_, functors, out, shut, crashed>>
historyVars == <<handled, split, mixed>>
vars == <<parserVars, stream, unread, files, serverVars, historyVars>>

(* The bytes of the messages after the first k.                             *)
BytesAfter(k) ==
    FlattenSeq([i \in 1..(Len(stream) - k) |-> stream[k + i].bytes])

Init ==
    /\ stream \in Streams
    /\ unread = BytesAfter(0)
    /\ files = DOMAIN FileSize
    /\ parser = NewParser
    /\ request \in {NewRequest(e) : e \in HeaderElements}
    /\ data = <<>> /\ p = 1 /\ at = "poll" /\ marks = NoMarks
    /\ pending_functors_ = <<>> /\ functors = <<>> /\ out = <<>>
    /\ shut = FALSE /\ crashed = FALSE
    /\ handled = <<>> /\ split = FALSE /\ mixed = FALSE

(* The file that is about to be read is removed.  To remove it before stat  *)
(* is to ask for a file that does not exist.                                *)
RemoveFile ==
    /\ at = "read" /\ ~crashed
    /\ request.request_path \in files
    /\ files' = files \ {request.request_path}
    /\ UNCHANGED <<parserVars, stream, unread, serverVars, historyVars>>

------------------------------------------------------------------------------
(* The loop: a round is a poll, the reads it reports, and the functors      *)

(* handleRead hands the bytes of one read to handleMessageCome, which       *)
(* starts the parser.                                                       *)
HandleRead ==
    /\ at = "poll"
    /\ \E n \in 1..Len(unread) :
         LET left == SubSeq(unread, n + 1, Len(unread)) IN
         /\ Execute(SubSeq(unread, 1, n))
         /\ unread' = left
         /\ mixed' = (mixed \/ \E k \in 1..(Len(stream) - 1) :
                       Len(left) < Len(BytesAfter(k)) /\ Len(BytesAfter(k)) < Len(unread))
    /\ UNCHANGED <<stream, files, serverVars, handled, split>>

(* The poll reports nothing to read, and a functor waits.                   *)
Woken ==
    /\ at = "poll"
    /\ pending_functors_ # <<>>
    /\ at' = "functors"
    /\ UNCHANGED <<data, p, marks, parser, request, stream, unread, files, serverVars, historyVars>>

Parse ==
    /\ ParserStep
    /\ split' = (split \/ (at = "fetch" /\ p > Len(data)
                            /\ parser.state \in UrlStartStates \cup UrlStates))
    /\ UNCHANGED <<stream, unread, files, serverVars, handled, mixed>>

(* handlePendingFunctors                                                    *)
PopAll ==
    /\ at = "functors"
    /\ functors' = pending_functors_
    /\ pending_functors_' = <<>>
    /\ at' = "run"
    /\ UNCHANGED <<data, p, marks, parser, request, stream, unread, files, out, shut, crashed,
                   historyVars>>

EndRound ==
    /\ at = "run"
    /\ functors = <<>>
    /\ at' = "poll"
    /\ UNCHANGED <<data, p, marks, parser, request, stream, unread, files, serverVars, historyVars>>

------------------------------------------------------------------------------
(* handleMessageCome, after parse has returned                              *)

(* It returns to handleRead, which clears read_buf_.                        *)
Return == at' = "functors" /\ data' = <<>> /\ p' = 1 /\ marks' = NoMarks

BadRequest ==
    /\ at = "return"
    /\ ParseFailed
    /\ shut' = TRUE
    /\ Return
    /\ UNCHANGED <<parser, request, stream, unread, files, pending_functors_,
                   functors, out, crashed, historyVars>>

Unfinished ==
    /\ at = "return"
    /\ ~ParseFailed
    /\ ~request.message_is_end
    /\ Return
    /\ UNCHANGED <<parser, request, stream, unread, files, serverVars, historyVars>>

Status(code) ==
    CASE code = 200 -> "200 OK"
      [] code = 404 -> "404 Not Found"
      [] OTHER -> "500 Internal Server Error"

(* toString: every response says keep-alive, and one without content has    *)
(* its status for content.                                                  *)
ResponseText(code, content) ==
    [status |-> Status(code), connection |-> "keep-alive",
     content |-> IF content = <<>> THEN <<Status(code)>> ELSE content]

Reset == \E e \in HeaderElements : request' = NewRequest(e) /\ parser' = NewParser

(* What an application can see of a request.                                *)
Observed == {"method", "request_url", "request_path", "query_string", "fragment", "headers",
             "body"}

(* The end of handleMessageCome: write posts writeInLoop, and the context   *)
(* is reset, whatever of a next request the parser has already seen.        *)
Respond(response) ==
    /\ pending_functors_' = Append(pending_functors_, [op |-> "writeInLoop", data |-> response])
    /\ handled' = Append(handled, [f \in Observed |-> request[f]])
    /\ Reset
    /\ Return
    /\ UNCHANGED <<stream, unread, files, functors, out, shut, crashed, split, mixed>>

Finished == at = "return" /\ ~ParseFailed /\ request.message_is_end

NotFound ==
    /\ Finished
    /\ request.request_path \notin files
    /\ Respond(ResponseText(404, <<>>))

TooLarge ==
    /\ Finished
    /\ request.request_path \in files
    /\ FileSize[request.request_path] > kMaxFileSize
    /\ Respond(ResponseText(401, <<"file size up to server bound">>))

(* stat has found the file; readFile opens it again.                        *)
Found ==
    /\ Finished
    /\ request.request_path \in files
    /\ FileSize[request.request_path] <= kMaxFileSize
    /\ at' = "read"
    /\ UNCHANGED <<data, p, marks, parser, request, stream, unread, files, serverVars, historyVars>>

ReadFile ==
    /\ at = "read"
    /\ request.request_path \in files
    /\ Respond(ResponseText(200, IF FileSize[request.request_path] = 0 THEN <<>>
                             ELSE request.request_path))

(* The file is gone: tellg() is -1, and a vector of that size throws.  The  *)
(* end of a directory is where the file system says, often 2^63 - 1, of     *)
(* which no vector can be made either.                                      *)
ReadFileThrows ==
    /\ at = "read"
    /\ request.request_path \notin files \ Directories
    /\ crashed' = TRUE
    /\ UNCHANGED <<parserVars, stream, unread, files, pending_functors_, functors, out, shut,
                   historyVars>>

------------------------------------------------------------------------------
(* The functors                                                             *)

WriteInLoop ==
    /\ at = "run"
    /\ functors # <<>> /\ Head(functors).op = "writeInLoop"
    /\ IF shut
       THEN /\ crashed' = TRUE
            /\ UNCHANGED <<pending_functors_, out>>
       ELSE /\ out' = Append(out, Head(functors).data)
            /\ pending_functors_' = Append(pending_functors_, [op |-> "writeComplete"])
            /\ UNCHANGED crashed
    /\ functors' = Tail(functors)
    /\ UNCHANGED <<parserVars, stream, unread, files, shut, historyVars>>

(* handleWriteComplete asks the parser as it is now.                        *)
HandleWriteComplete ==
    /\ at = "run"
    /\ functors # <<>> /\ Head(functors).op = "writeComplete"
    /\ shut' = (shut \/ ~http_should_keep_alive(parser))
    /\ functors' = Tail(functors)
    /\ UNCHANGED <<parserVars, stream, unread, files, pending_functors_, out, crashed, historyVars>>

LoopStep ==
    /\ ~crashed /\ ~request.aborted
    /\ \/ HandleRead \/ Woken \/ Parse \/ PopAll \/ EndRound
       \/ BadRequest \/ Unfinished \/ NotFound \/ TooLarge \/ Found
       \/ ReadFile \/ ReadFileThrows
       \/ WriteInLoop \/ HandleWriteComplete

(* Nothing is left to read or to run, or the process has ended.             *)
AtRest == at = "poll" /\ unread = <<>> /\ pending_functors_ = <<>>

Finish == (AtRest \/ crashed \/ request.aborted) /\ UNCHANGED vars

Next == LoopStep \/ RemoveFile \/ Finish

Spec == Init /\ [][Next]_vars

------------------------------------------------------------------------------
(* Properties                                                               *)

TypeOK ==
    /\ files \subseteq DOMAIN FileSize
    /\ at \in {"poll", "fetch", "switch", "return", "read", "functors", "run"}
    /\ p \in 1..(Len(data) + 1)
    /\ at = "switch" => p <= Len(data)
    /\ parser.content_length \in 0..UllongMax
    /\ parser.nread \in 0..MaxHeaderSize
    /\ \A m \in DOMAIN marks : marks[m] \in 0..Len(data)

(* What has come in of a piece of text that is still open.                  *)
Held(what) == IF marks[what] = 0 THEN <<>> ELSE Piece(what, p)

(* What has come in of the request: what the callbacks were given, and what *)
(* the next one will be given.                                              *)
Seen ==
    LET r == IF marks.header_field = 0 THEN request
             ELSE headerFieldCallBack(request, Held("header_field"))
    IN [url |-> request.request_url \o Held("url"),
        headers |-> r.headers, first |-> r.first, second |-> r.second \o Held("header_value"),
        body |-> request.body \o Held("body")]

NothingSeen == [url |-> <<>>, headers |-> <<>>, first |-> <<>>, second |-> <<>>, body |-> <<>>]

(* The symbols that a step of the parser takes from the data.               *)
Taken ==
    IF at # "switch" THEN <<>>
    ELSE IF parser.state \in {"s_body_identity", "s_chunk_data"} THEN SubSeq(data, p, p + ToRead - 1)
    ELSE SubSeq(data, p, p' - 1)

(* How a request grows when the parser takes text and goes from a state to  *)
(* another: each text is what was taken on the way into its states, a name  *)
(* opens a new header, and the header before it is complete then, or when   *)
(* the headers or the message end.                                          *)
Grown(v, from, to, text) ==
    LET name == to = "s_header_field"
        opens == name /\ from = "s_header_field_start"
        ends == from # to /\ to \in {"s_headers_done", "s_start_req", "s_dead"}
    IN [url |-> IF to \in UrlStartStates \cup UrlStates THEN v.url \o text ELSE v.url,
        headers |-> IF (opens /\ v.first # <<>>) \/ (ends /\ v.second # <<>>)
                    THEN Emplace(v.headers, v.first, v.second) ELSE v.headers,
        first |-> IF opens THEN text ELSE IF name THEN v.first \o text ELSE v.first,
        second |-> IF opens THEN <<>>
                   ELSE IF to = "s_header_value" THEN v.second \o text ELSE v.second,
        body |-> IF from \in {"s_body_identity", "s_chunk_data"} THEN v.body \o text ELSE v.body]

(* Reads leave no trace: wherever one ends, the URL, the headers and the    *)
(* body that have come in grow by the symbols alone, and what they have     *)
(* grown to is what is handled (http_parser.c:680-703, 2118-2140,           *)
(* http_context.cpp:82-124).                                                *)
ReadsUnseen ==
    [][IF parser.http_errno # "HPE_OK" THEN UNCHANGED handled
       ELSE IF at \in {"poll", "fetch", "switch"}
       THEN Seen' = Grown(Seen, parser.state, parser'.state, Taken) /\ UNCHANGED handled
       ELSE \/ UNCHANGED <<Seen, handled>>
            \/ /\ Seen' = NothingSeen
               /\ handled' = Append(handled, [f \in Observed |-> request[f]])
               /\ <<request.request_url, request.headers, request.body>>
                    = <<Seen.url, Seen.headers, Seen.body>>]_vars

(* The headers and the body of a request do not depend on how the network   *)
(* has cut it into reads (http_context.cpp:82-124, http_parser.c:680-703,   *)
(* 2118-2140), as long as a read does not hold the bytes of two requests.   *)
(* A last header without a value is not kept.                               *)
RequestWhole ==
    ~mixed => \A k \in DOMAIN handled :
        /\ handled[k].method = stream[k].method
        /\ handled[k].headers = stream[k].headers
        /\ handled[k].body = stream[k].body

(* A URL that arrives in one read, and that offsets of Width can address,   *)
(* is split where its delimiters stand (http_parser.c:494, 2413,            *)
(* http_context.cpp:64).                                                    *)
UrlWhole ==
    ~mixed /\ ~split => \A k \in DOMAIN handled :
        LET r == handled[k] IN
        /\ r.request_url = stream[k].url
        /\ Len(r.request_url) < Width =>
             [path |-> r.request_path, query |-> r.query_string, fragment |-> r.fragment]
               = UrlMeans(stream[k].url)

(* What is not a legal request is never answered, however it is cut: not    *)
(* one whose content length overflows (http_parser.c:1549), nor one with    *)
(* two lengths (1803), nor one with headers beyond max_header_size.         *)
OnlyLegalAnswered ==
    ~mixed => \A k \in DOMAIN handled : stream[k].legal

(* One legal request other than CONNECT, its URL in one read and no longer  *)
(* than Width, for a file that is no directory and is not removed.          *)
Plain ==
    /\ Len(stream) = 1 /\ stream[1].legal /\ stream[1].method # "CONNECT"
    /\ Len(stream[1].url) < Width /\ ~split
    /\ UrlMeans(stream[1].url).path \notin Directories
    /\ files = DOMAIN FileSize

(* The message that is being parsed or handled, unless reads were mixed.    *)
Current == stream[Len(handled) + 1]

(* The process ends for these reasons only, whatever is sent and however it *)
(* is cut.  The aborts of http_context.cpp:29 and 72: a read has held bytes *)
(* of two messages, a URL was split, or the URL is that of a CONNECT        *)
(* request, which line 70 parses as any other, or is not legal.  In         *)
(* readFile: a file was removed, or the path is that of a directory.  By    *)
(* SIGPIPE: a request was handled on a connection on which an earlier one   *)
(* had been answered, as that answer is followed by a shutdown.             *)
EndsOnlyFor ==
    /\ request.aborted /\ ~mixed /\ ~split =>
         Current.method = "CONNECT" \/ ~UrlLegal(Current.url)
    /\ crashed /\ at = "read" /\ ~mixed /\ ~split =>
         \/ files # DOMAIN FileSize
         \/ UrlMeans(Current.url).path \in Directories
    /\ crashed /\ at # "read" => Len(handled) > 1 /\ out # <<>>

(* A plain request is answered, however it is cut: when all of it has been  *)
(* read and the loop rests, its response is out (http_server.cpp:41).       *)
PlainAnswered == AtRest /\ Plain => Len(out) = 1

(* "If http_should_keep_alive() in the on_headers_complete or               *)
(* on_message_complete callback returns 0, then this should be the last     *)
(* message on the connection" (http_parser.h:402): nothing is handled after *)
(* a request that ends its connection.                                      *)
LastMessageIsLast ==
    ~mixed => \A k \in 1..(Len(handled) - 1) : stream[k].keeps
==============================================================================
