---------------------------- MODULE MCHttpServer -----------------------------
(* Requests for HttpServer: every route, lengths on both sides of the limits *)
(* and one that wraps, frames of every kind and form.                        *)
EXTENDS HttpServer

Frame(opcode, masked, form, len) ==
  [opcode |-> opcode, masked |-> masked, form |-> form, len |-> len]

\* With SMALL_MAX = 1 and WS_MAX_PAYLOAD = 5.
Ping  == Frame("ping", TRUE, Len16, 5)
Text  == Frame("text", TRUE, 0, 1)
Kinds ==
  {Ping, Text, Frame("ping", TRUE, Len16, 2), Frame("ping", TRUE, 0, 0),
   Frame("continuation", TRUE, Len16, 1), Frame("pong", TRUE, 0, 1),
   Frame("close", TRUE, 0, 1), Frame("text", FALSE, 0, 1),
   Frame("text", TRUE, Len16, 6), Frame("text", TRUE, Len64, 0)}

Field(name, value) == [name |-> name, value |-> value]
Length(digits) == Field("Content-Length", digits)
WsKey(value) == Field("Sec-WebSocket-Key", value)

Request(line, header, headers, streamed, body, sends) ==
  [line |-> line, header |-> header, headers |-> headers,
   frames |-> streamed, body |-> body, sends |-> sends]

\* 17 is 1 in four bits; a letter is -1.
Lengths == {<<>>, <<Length(<<>>)>>, <<Length(<<1, 7>>)>>, <<Length(<<4>>)>>,
            <<Length(<<1, -1>>)>>, <<Length(<<2>>), Length(<<3>>)>>}
             \cup {<<Length(<<n>>)>> : n \in 1..3}

\* The client announces what it sends, more than that or less.
Puts ==
  UNION {{Request("put", h, fields, <<>>, b, h + n) : n \in 0..b} :
           h \in {1, 3}, fields \in Lengths, b \in {0, 4}}
  \cup {Request("put", 4, <<Length(<<2>>)>>, <<>>, 2, n) : n \in 0..6}

Keys == {<<>>, <<WsKey(<<>>)>>, <<WsKey(<<1, 1, 1>>)>>}
Streams == {<<f>> : f \in Kinds} \cup {<<f, g>> : f, g \in {Ping, Text}}
Parts == {2, 8}
FrameParts(f) == 1 + (IF f.form = Len16 THEN 1 ELSE 0)
                   + (IF f.masked THEN 1 ELSE 0) + f.len
Total(fs) == FrameParts(fs[1]) + (IF Len(fs) = 2 THEN FrameParts(fs[2]) ELSE 0)

Upgrades ==
  UNION {{Request("can", 1, <<WsKey(<<1>>)>>, fs, 0, 1 + n) :
            n \in {m \in Parts : m < Total(fs)} \cup {Total(fs)}} :
           fs \in Streams}
  \cup {Request("can", 1, k, <<>>, 0, 1) : k \in Keys}

Gets == {Request(line, 2, <<>>, <<>>, 0, n) :
           line \in {"icon", "status", "user", "index", "other"}, n \in 1..2}

MCRequests == Puts \cup Upgrades \cup Gets
=============================================================================
