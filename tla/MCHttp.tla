------------------------------- MODULE MCHttp -------------------------------
(***************************************************************************)
(* Requests for HttpServer: each is built from its parts, so that its text  *)
(* and its meaning come from one description.                               *)
(***************************************************************************)
EXTENDS HttpServer

CRLF == <<"CR", "LF">>
V11 == <<"H", "TTP", "/", "1", ".", "1">>
V10 == <<"H", "TTP", "/", "1", ".", "0">>
V09 == <<>>

(* A header: its name, its text after the colon, and its value.             *)
H(name, value) == [name |-> name, raw |-> <<" ">> \o value, value |-> value]
Raw(name, raw, value) == [name |-> name, raw |-> raw, value |-> value]

ContentLength(digits) == H(<<"C", "ontent-length">>, digits)
TransferEncoding(value) == H(<<"T", "ransfer-encoding">>, value)
Chunked == TransferEncoding(<<"C", "hunked">>)
Connection(value) == H(<<"C", "onnection">>, value)
KeepAlive == Connection(<<"K", "eep-alive">>)
Close == Connection(<<"C", "lose">>)

Flat(s, Text(_)) ==
    LET join[i \in 0..Len(s)] == IF i = 0 THEN <<>> ELSE join[i - 1] \o Text(s[i])
    IN join[Len(s)]

(* The headers a request ends up with: the first of a name counts, and the  *)
(* very last one only if it has a value.                                    *)
Kept(hs) ==
    LET keep == {i \in DOMAIN hs : hs[i].value # <<>> \/ i < Len(hs)}
        first(n) == CHOOSE i \in keep :
                      hs[i].name = n /\ \A j \in keep : hs[j].name = n => i <= j
    IN [n \in {hs[i].name : i \in keep} |-> hs[first(n)].value]

Has(hs, h) == \E i \in DOMAIN hs : hs[i] = h

(* A request: method, URL, version, headers, text and meaning of its body,  *)
(* trailing headers, whether the rest is as it should be, and line ends.    *)
Request(m, url, v, hs, raw, body, trailers, ok, eol) ==
    LET line(h) == h.name \o <<":">> \o h.raw \o eol IN
    [bytes |-> Methods[m] \o <<" ">> \o url \o (IF v = V09 THEN <<>> ELSE <<" ">> \o v) \o eol
                 \o Flat(hs, line) \o eol
                 \o raw \o (IF raw # <<>> /\ Has(hs, Chunked) THEN Flat(trailers, line) \o eol
                                                             ELSE <<>>),
     legal |-> ok /\ UrlLegal(url),
     keeps |-> IF v = V11 THEN ~Has(hs, Close) ELSE Has(hs, KeepAlive),
     method |-> m, url |-> url, headers |-> Kept(hs \o trailers), body |-> body]

Get(url, v, hs) == Request("GET", url, v, hs, <<>>, <<>>, <<>>, TRUE, CRLF)
Post(hs, raw, body) == Request("POST", <<"/">>, V09, hs, raw, body, <<>>, TRUE, CRLF)
Bad(url, v, hs) == Request("GET", url, v, hs, <<>>, <<>>, <<>>, FALSE, CRLF)
BadPost(hs, raw) == Request("POST", <<"/">>, V09, hs, raw, <<>>, <<>>, FALSE, CRLF)
Text(bytes) ==
    [bytes |-> bytes, legal |-> FALSE, keeps |-> FALSE, method |-> "none", url |-> <<>>,
     headers |-> <<>>, body |-> <<>>]
After(before, m) == [m EXCEPT !.bytes = before \o @]

Chunk(size, bytes) == size \o CRLF \o bytes \o CRLF
LastChunk == <<"0">> \o CRLF
Many(c, n) == [i \in 1..n |-> c]

------------------------------------------------------------------------------
(* URLs: all short ones over a few characters, and some longer ones         *)

ShortUrls == UNION {[1..n -> {"/", "a", "?", "#", "@", "BAD"}] : n \in 1..2}
               \cup {<<"/">> \o u : u \in [1..2 -> {"a", "?", "#", ":"}]}
               \cup {<<"/", "?", "a">> \o u : u \in [1..2 -> {"a", "?", "#"}]}

Hosts ==
    {<<"a">>, <<"a", ":", "9">>, <<"a", ":", "1", "2">>, <<"a", ":", "1", "9">>, <<"a", ":">>,
     <<":", "9">>, <<"a", "@", "a">>, <<"@", "a">>, <<"a", "@">>, <<"a", "@", "a", "@", "a">>,
     <<"[", "1", ":", "a", "]">>, <<"[", "1", "]", ":", "9">>, <<"[", "]">>, <<"[", "1">>,
     <<"[", "1", "%", "a", "]">>, <<"[", "1", "%", "]">>, <<"[", "G", "]">>, <<>>}

Urls ==
    ShortUrls
      \cup {<<"a", ":", "/", "/">> \o h : h \in Hosts}
      \cup {<<"a", ":", "/", "/", "a">> \o u :
              u \in {<<"/">>, <<"/", "a", "?", "a", "#", "a">>, <<"?", "a">>, <<"#">>}}
      \cup {<<"a", ":", "a">>, <<"*">>, Many("a", 8) \o <<":", "/", "/", "a", "/">>}

------------------------------------------------------------------------------
(* Messages                                                                 *)

Plains ==
    {Get(u, V09, <<>>) : u \in Urls}
      \cup {Get(<<"/", "a">>, V11, <<>>), Get(<<"/", "C">>, V09, <<>>), Get(<<"/", "G">>, V09, <<>>),
            Get(<<"/">>, V10, <<KeepAlive>>),
            Get(<<"/">>, V11, <<Close>>)}

Headed ==
    {Get(<<"/">>, V09, hs) : hs \in {
        <<H(<<"a">>, <<"a", " ", "a">>), H(<<"G">>, <<"1">>)>>,
        <<H(<<"a">>, <<"1">>), H(<<"a">>, <<"2">>)>>,
        <<H(<<"a">>, <<>>), H(<<"a">>, <<>>)>>,
        <<Raw(<<"a">>, <<"HT", "a", "CR", "LF", "HT", "a">>, <<"a", "HT", "a">>)>>,
        <<Raw(<<"a">>, <<"CR", "LF", " ", "a">>, <<"a">>)>>,
        <<Connection(<<"K", "eep-alive", ",", " ", "U", "pgrade">>), H(<<"U", "pgrade">>, <<"a">>)>>,
        <<Connection(<<"C", "lose", " ", "a", ",", "K", "a">>)>>,
        <<H(<<"P", "roxy-connection">>, <<"a", ",", "C", "lose">>)>>,
        <<ContentLength(<<"0", " ">>)>>,
        <<H(<<"a">>, <<"BAD">>)>>,   \* the first character of a value is not looked at
        <<Raw(<<"C", "ontent-length">>, <<"0", "CR", "LF", " ">>, <<"0", " ">>)>>}}
      \cup {Request("GET", <<"/">>, V11, <<H(<<"a">>, <<"a">>), Raw(<<"a", "1">>, <<>>, <<>>)>>,
                    <<>>, <<>>, <<>>, TRUE, <<"LF">>),
            Request("PUT", <<"/">>, V09, <<>>, <<>>, <<>>, <<>>, TRUE, CRLF),
            Request("SUBSCRIBE", <<"/">>, V09, <<>>, <<>>, <<>>, <<>>, TRUE, CRLF),
            Request("SOURCE", <<"/">>, <<"I", "CE", "/", "1", ".", "0">>, <<>>, <<>>, <<>>, <<>>,
                    TRUE, CRLF),
            After(CRLF, Get(<<"/">>, V09, <<>>)),
            [Get(<<"/">>, V09, <<>>) EXCEPT !.bytes = <<"G", "ET", " ", " ", "/">> \o CRLF \o CRLF],
            [Get(<<"/">>, <<" ">> \o V11, <<>>) EXCEPT !.keeps = TRUE]}

Bodied ==
    {Post(<<ContentLength(<<"2">>)>>, <<"a", "CR">>, <<"a", "CR">>),
     Post(<<ContentLength(<<"1", "0">>), H(<<"a">>, <<"1">>)>>, Many("0", 10), Many("0", 10)),
     Post(<<Chunked>>, Chunk(<<"2">>, <<"a", "LF">>) \o Chunk(<<"1">>, <<"1">>) \o LastChunk,
          <<"a", "LF", "1">>),
     Post(<<TransferEncoding(<<"a", ",", " ", "C", "hunked">>)>>,
          Chunk(<<"1", ";", "a">>, <<"a">>) \o LastChunk \o CRLF, <<"a">>),
     Request("POST", <<"/">>, V09, <<Chunked>>, Chunk(<<"0", "1">>, <<"a">>) \o LastChunk, <<"a">>,
             <<H(<<"a">>, <<"2">>)>>, TRUE, CRLF),
     Post(<<Connection(<<"U", "pgrade">>), H(<<"U", "pgrade">>, <<"a">>), ContentLength(<<"1">>)>>,
          <<"a">>, <<"a">>)}

Illegal ==
    {Bad(<<"/">>, v, <<>>) : v \in {
        <<"a">>, <<"H", "ET">>, <<"H", "TTP", "/", "a">>, <<"H", "TTP", "/", "1", ".", "a">>,
        <<"I", "CE", "/", "1", ".", "0">>, V11 \o <<"a">>}}
      \cup {Bad(<<"/">>, V09, <<h>>) : h \in {
        Raw(<<" ">>, <<>>, <<>>), Raw(<<"a", " ">>, <<>>, <<>>),
        H(<<"a">>, <<"a", "BAD">>), H(<<"a">>, Many("a", 24)),
        ContentLength(<<>>), ContentLength(<<"a">>), ContentLength(<<"1", "a">>),
        ContentLength(<<"1", " ", "1">>), ContentLength(<<"9", "0">>)}}
      \cup {Bad(<<"/">>, V09, <<ContentLength(<<"0">>), ContentLength(<<"0">>)>>),
            Bad(<<"/">>, V09, <<ContentLength(<<"0">>), TransferEncoding(<<"a">>)>>),
            Bad(<<"/">>, V09, <<TransferEncoding(<<"a">>)>>),
            Text(<<"a">>), Text(<<"G", "G">>), Text(<<"G", "ET", " ", "?">>),
            Text(<<"G", "ET", " ", "/", "LF", "CR", "a">>)}
      \cup {BadPost(<<Chunked>>, raw) : raw \in {
        <<"G">>, <<"1", "G">>, <<"2", "0">> \o CRLF, <<"1", "CR", "a">>,
        Chunk(<<"1">>, <<"a", "a">>), <<"1", "CR", "LF", "a", "CR", "a">>}}

(* Legal, but the application parses its URL as that of another method.     *)
Connect ==
    [Request("CONNECT", <<"a", ":", "9">>, V11, <<>>, <<>>, <<>>, <<>>, TRUE, CRLF)
       EXCEPT !.legal = TRUE]

(* Two requests on one connection                                           *)
Pairs ==
    {<<Get(<<"/">>, V11, <<>>), Get(<<"/">>, V09, <<>>)>>,
     <<Get(<<"/">>, V09, <<>>), After(CRLF, Get(<<"/">>, V09, <<>>))>>,
     <<Post(<<KeepAlive, ContentLength(<<"1">>)>>, <<"a">>, <<"a">>),
       Post(<<ContentLength(<<"1">>)>>, <<"a">>, <<"a">>)>>}

MCStreams ==
    {<<m>> : m \in Plains \cup Headed \cup Bodied \cup Illegal \cup {Connect}} \cup Pairs

(* The first request asks for the connection to be closed.                  *)
PairStreams == {<<Get(<<"/">>, V11, <<Close>>), Get(<<"/">>, V11, <<>>)>>}

(* An ordinary file, an empty one, one that is too large, and a directory.  *)
MCFileSize == <<"/">> :> 2 @@ <<"/", "a">> :> 0 @@ <<"/", "C">> :> 4 @@ <<"/", "G">> :> 1
MCDirectories == {<<"/", "G">>}
==============================================================================
