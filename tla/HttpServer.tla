----------------------------- MODULE HttpServer ------------------------------
(***************************************************************************)
(* src/http_server.c: one connection after another, from its first byte    *)
(* to its close, with the user page (UserStorage) behind two of the routes *)
(* and a WebSocket session (WsFrame) behind another.                       *)
(*                                                                         *)
(* A request is a number of header bytes, which the model does not tell    *)
(* apart but for the route and the header fields, and what follows them:   *)
(* the bytes of a page or of WebSocket frames.  A client sends some part   *)
(* of it, and recv returns it in pieces.  The power may fail at any time;  *)
(* what is on flash stays.                                                 *)
(*                                                                         *)
(* Module WsSession has the sessions of several clients at once; here the  *)
(* next client comes when the session is over.                             *)
(***************************************************************************)
EXTENDS UserStorage, WsFrame, SequencesExt

CONSTANTS Requests,        \* what clients may send
          NoRequest,
          HTTP_REQUEST_MAX,
          USER_INDEX_MAX,
          SizeMod,         \* 2^32: size_t wraps
          KEY_MAX,         \* 64: the longest Sec-WebSocket-Key
          MaxUploads       \* bound: PUT requests of a run

ASSUME HttpServerAssumption ==
  /\ NoRequest \notin Requests
  /\ HTTP_REQUEST_MAX \in Nat \ {0, 1}
  /\ USER_INDEX_MAX \in Nat /\ USER_INDEX_MAX < SizeMod
  /\ SizeMod \in Nat
  /\ KEY_MAX \in Nat
  /\ MaxUploads \in Nat

\* The first n bytes of upload u.
Upload(u, n) == [i \in 1..n |-> <<u, i>>]

\* What the client of request r sends behind the header: the page of upload u
\* or the frames after an upgrade.
Payload(r, u) ==
  IF r.line = "put"
    THEN Upload(u, r.body)
    ELSE FlattenSeq([n \in 1..Len(r.frames) |-> WireOf(r.frames, n)])

FieldType == [name : STRING, value : Seq(Int)]

\* A client sends no more than it has.
ASSUME RequestsAssumption ==
  \A r \in Requests :
    /\ r.line \in {"put", "can", "icon", "status", "user", "index", "other"}
    /\ r.header \in Nat \ {0} /\ r.headers \in Seq(FieldType)
    /\ r.body \in Nat /\ r.frames \in Seq(FrameType)
    /\ r.sends \in 0..(r.header + Len(Payload(r, 0)))

VARIABLES
  httpPc,   \* http_thread in handle_client
  request,  \* the request of the connection
  used,     \* bytes of it in the buffer
  answer,   \* the status it is answered with
  promised, \* Content-Length of that answer, for a user page
  served,   \* the bytes of a page sent after it
  uploads,  \* history: PUT requests so far
  created   \* history: some upload was answered with 201

answering == <<answer, promised, served>>
httpVars == <<httpPc, request, used, answering, uploads, created>>
vars == <<connection, wsVars, storageVars, httpVars>>

NoAnswer == 0

\* Nothing is connected.
Disconnected ==
  /\ socket' = <<>> /\ pending' = <<>> /\ left' = FALSE
  /\ frames' = <<>> /\ wsPc' = "none" /\ got' = <<>> /\ replies' = <<>>
  /\ httpPc' = "accept"
  /\ request' = NoRequest
  /\ used' = 0
  /\ answer' = NoAnswer /\ promised' = 0 /\ served' = <<>>

Init ==
  /\ StorageInit
  /\ socket = <<>> /\ pending = <<>> /\ left = FALSE
  /\ frames = <<>> /\ wsPc = "none" /\ got = <<>> /\ replies = <<>>
  /\ httpPc = "accept"
  /\ request = NoRequest
  /\ used = 0
  /\ answer = NoAnswer /\ promised = 0 /\ served = <<>>
  /\ uploads = 0
  /\ created = FALSE

-----------------------------------------------------------------------------
(* Accepting and receiving.                                                *)

\* All that client has to send.
Stream(r, u) == [i \in 1..r.header |-> <<0, i>>] \o Payload(r, u)

Accept ==
  /\ httpPc = "accept" /\ wsPc = "none"
  /\ \E r \in Requests :
       /\ uploads' = uploads + (IF r.line = "put" THEN 1 ELSE 0)
       /\ uploads' <= MaxUploads
       /\ request' = r
       /\ frames' = r.frames
       /\ socket' = Take(Stream(r, uploads'), r.sends)
  /\ httpPc' = "recv"
  /\ UNCHANGED <<pending, left, wsPc, got, replies, storageVars, used,
                 answering, created>>

Finish(status) == answer' = status /\ httpPc' = "send"

\* zsock_recv into what is left of the buffer, until the header is whole or
\* the buffer full.
RecvRequest ==
  /\ httpPc = "recv"
  /\ \E n \in 1..Smaller(Len(socket), HTTP_REQUEST_MAX - 1 - used) :
       /\ socket' = Drop(socket, n)
       /\ used' = used + n
       /\ IF used' >= request.header
            THEN /\ pending' = SubSeq(socket, request.header - used + 1, n)
                 /\ httpPc' = "route"
                 /\ UNCHANGED answer
          ELSE /\ UNCHANGED pending
               /\ IF used' < HTTP_REQUEST_MAX - 1
                    THEN UNCHANGED <<httpPc, answer>> ELSE Finish(431)
  /\ UNCHANGED <<left, wsVars, storageVars, request, promised, served,
                 uploads, created>>

RecvRequestFails ==
  /\ httpPc = "recv" /\ RecvFails
  /\ httpPc' = "close"
  /\ UNCHANGED <<connection, wsVars, storageVars, request, used, answering,
                 uploads, created>>

\* The answer is one for which nothing but the status matters; whether it
\* gets through or not, the connection is closed.
SendAnswer ==
  /\ httpPc = "send"
  /\ httpPc' = "close"
  /\ UNCHANGED <<connection, wsVars, storageVars, request, used, answering,
                 uploads, created>>

CloseClient ==
  /\ httpPc = "close"
  /\ Disconnected
  /\ UNCHANGED <<storageVars, uploads, created>>

-----------------------------------------------------------------------------
(* The header fields.                                                      *)

\* The value of the first field of that name, <<>> when there is none.
find_header_value(r, name) ==
  LET named == {i \in 1..Len(r.headers) : r.headers[i].name = name}
  IN  IF named = {} THEN <<>> ELSE <<r.headers[Min(named)].value>>

Key(r) == find_header_value(r, "Sec-WebSocket-Key")
ContentLength(r) == find_header_value(r, "Content-Length")
LengthDigits(r) == ContentLength(r)[1]

Digits == 0..9

\* The loop over the digits, in size_t.
BodyLen(digits) ==
  LET body_len[i \in 0..Len(digits)] ==
        IF i = 0 THEN 0 ELSE (body_len[i-1] * 10 + digits[i]) % SizeMod
  IN  body_len[Len(digits)]

\* fault: lets a page in that is one byte too large
TooLargeOffByOne(len) == len > USER_INDEX_MAX + 1
TooLarge(len) == len > USER_INDEX_MAX

\* The status of a PUT that is refused at once, or NoAnswer.
Refusal(r) ==
  IF ContentLength(r) = <<>> THEN 411
  ELSE IF \E i \in 1..Len(LengthDigits(r)) : LengthDigits(r)[i] \notin Digits
    THEN 400
  ELSE IF TooLarge(BodyLen(LengthDigits(r))) THEN 413
  ELSE IF Len(pending) > BodyLen(LengthDigits(r)) THEN 400 ELSE NoAnswer

-----------------------------------------------------------------------------
(* The routes of handle_client.                                            *)

Route(lines) ==
  /\ httpPc = "route"
  /\ request.line \in lines
  /\ UNCHANGED <<connection, request, used, uploads, created>>

request_is_websocket == request.line = "can" /\ Key(request) # <<>>

\* handle_websocket: the key may be none or too long, and the answer may not
\* get through; else the WebSocket thread takes over what is pending.
Upgrade ==
  /\ Route({"can"})
  /\ request_is_websocket
  /\ \/ httpPc' = "close" /\ UNCHANGED wsPc
     \/ /\ Len(Key(request)[1]) \in 1..KEY_MAX
        /\ wsPc' = "poll"
        /\ httpPc' = "accept"
  /\ UNCHANGED <<frames, got, replies, storageVars, answering>>

PutUserPage ==
  /\ Route({"put"})
  /\ IF Refusal(request) # NoAnswer
       THEN Finish(Refusal(request)) /\ UNCHANGED storageVars
       ELSE /\ WriteStart(BodyLen(LengthDigits(request)))
            /\ httpPc' = "writing"
            /\ UNCHANGED answer
  /\ UNCHANGED <<wsVars, promised, served>>

GetIcon ==
  /\ Route({"icon"})
  /\ Finish(204)
  /\ UNCHANGED <<wsVars, storageVars, promised, served>>

GetFsStatus ==
  /\ Route({"status"})
  /\ storage_format_status_json
  /\ Finish(200)
  /\ UNCHANGED <<wsVars, promised, served>>

GetUserPage ==
  /\ Route({"user"})
  /\ \E size \in {NoSize} \cup 0..Capacity :
       /\ storage_user_index_size(size)
       /\ promised' = IF size = NoSize THEN 0 ELSE size
       /\ IF size = NoSize THEN Finish(404)
          ELSE IF TooLarge(size) THEN Finish(413)
          ELSE answer' = 200 /\ httpPc' = "send_header"
  /\ UNCHANGED <<wsVars, served>>

GetIndex ==
  /\ Route({"index"})
  /\ Finish(200)
  /\ UNCHANGED <<wsVars, storageVars, promised, served>>

NotFound ==
  /\ Route({"can", "other"})
  /\ ~request_is_websocket
  /\ Finish(404)
  /\ UNCHANGED <<wsVars, storageVars, promised, served>>

handle_client ==
  \/ Upgrade \/ PutUserPage \/ GetIcon \/ GetFsStatus \/ GetUserPage
  \/ GetIndex \/ NotFound

-----------------------------------------------------------------------------
(* The body of an upload, and a user page on its way out.                  *)

ReadBody ==
  /\ \E n \in 1..Requested :
       request_body_read(Requested, n) /\ WriteBody("ok", BodyData(n))
  /\ UNCHANGED <<wsVars, httpVars>>

ReadBodyFails ==
  /\ RecvFails /\ pending = <<>>
  /\ WriteBody("error", <<>>)
  /\ UNCHANGED <<connection, wsVars, httpVars>>

\* The status that ends an upload.
PutDone ==
  /\ httpPc = "writing" /\ fsPc = "return"
  /\ Finish(IF ret = "ok" THEN 201 ELSE 500)
  /\ created' = (created \/ ret = "ok")
  /\ Goto("idle") /\ ret' = "ok" /\ remaining' = 0
  /\ UNCHANGED <<connection, wsVars, flash, mount, space, file, buf,
                 request, used, promised, served, uploads>>

\* The status line of a user page, then storage_stream_user_index.
SendHeader ==
  /\ httpPc = "send_header"
  /\ \/ httpPc' = "streaming" /\ StreamStart
     \/ httpPc' = "close" /\ UNCHANGED storageVars
  /\ UNCHANGED <<connection, wsVars, request, used, answering, uploads,
                 created>>

\* socket_write, the writer: send_all sends a chunk in whole, or some of it.
socket_write ==
  /\ \/ served' = served \o buf /\ StreamWritten("ok")
     \/ /\ \E n \in 0..(Len(buf) - 1) : served' = served \o Take(buf, n)
        /\ StreamWritten("error")
  /\ UNCHANGED <<connection, wsVars, httpPc, request, used, answer, promised,
                 uploads, created>>

StreamDone ==
  /\ httpPc = "streaming" /\ fsPc = "return"
  /\ httpPc' = IF ret = "ok" THEN "sent" ELSE "close"
  /\ Goto("idle") /\ ret' = "ok"
  /\ UNCHANGED <<connection, wsVars, flash, mount, space, file, buf,
                 remaining, request, used, answering, uploads, created>>

\* The close after a page that went out in whole.
CloseServed ==
  /\ httpPc = "sent"
  /\ Disconnected
  /\ UNCHANGED <<storageVars, uploads, created>>

http_thread ==
  \/ RecvRequest \/ RecvRequestFails \/ handle_client \/ SendAnswer
  \/ CloseClient \/ ReadBody \/ ReadBodyFails \/ PutDone \/ SendHeader
  \/ socket_write \/ StreamDone \/ CloseServed
  \/ StorageStep /\ UNCHANGED <<connection, wsVars, httpVars>>

-----------------------------------------------------------------------------
(* The WebSocket thread, the client and the power.                         *)

EchoLoop == websocket_echo_loop /\ UNCHANGED <<storageVars, httpVars>>
PollBreaks == PollFails /\ UNCHANGED <<storageVars, httpVars>>

CloseSession ==
  /\ wsPc = "close"
  /\ Disconnected
  /\ UNCHANGED <<storageVars, uploads, created>>

Leave ==
  /\ request # NoRequest
  /\ ClientLeaves
  /\ UNCHANGED <<wsVars, storageVars, httpVars>>

PowerFails ==
  /\ StorageReset
  /\ Disconnected
  /\ UNCHANGED <<flash, uploads, created>>

-----------------------------------------------------------------------------
Next == \/ Accept \/ http_thread \/ EchoLoop \/ PollBreaks \/ CloseSession
        \/ Leave \/ PowerFails

\* Both threads go on when they can; a recv can when something is there.
Fairness == WF_vars(http_thread) /\ WF_vars(EchoLoop \/ CloseSession)

Spec == Init /\ [][Next]_vars

FairSpec == Spec /\ Fairness

-----------------------------------------------------------------------------
(* Properties.                                                             *)

HttpPcs == {"accept", "recv", "route", "send", "close", "writing",
            "send_header", "streaming", "sent"}
FsPcs == {"idle", "stream_open", "stream_read", "writer", "stream_close",
          "dir", "open", "body", "write", "sync", "close", "return"}
Bytes == Nat \X Nat
Statuses == {NoAnswer, 200, 201, 204, 400, 404, 411, 413, 431, 500}

\* The type of every variable; a chunk fits its buffer, a request its own.
TypeOK ==
  /\ socket \in Seq(Bytes) /\ pending \in Seq(Bytes) /\ left \in BOOLEAN
  /\ frames \in Seq(FrameType)
  /\ wsPc \in Reading \cup {"none", "poll", "close"}
  /\ got \in Seq(Bytes)
  /\ httpPc \in HttpPcs
  /\ request \in Requests \cup {NoRequest}
  /\ used \in 0..(HTTP_REQUEST_MAX - 1)
  /\ Len(pending) <= used
  /\ answer \in Statuses
  /\ promised \in 0..Capacity
  /\ served \in Seq(Bytes)
  /\ uploads \in 0..MaxUploads
  /\ created \in BOOLEAN
  /\ user_dir \in BOOLEAN
  /\ page \in Seq(Bytes) \cup {NoPage}
  /\ mount_attempted \in BOOLEAN /\ mounted \in BOOLEAN
  /\ mount_ret \in {"ENODEV", "ok", "error"}
  /\ total_kib \in {0, Capacity} /\ free_kib \in 0..Capacity
  /\ file \in [open : BOOLEAN, bytes : Seq(Bytes), pos : 0..Capacity,
               erred : BOOLEAN]
  /\ fsPc \in FsPcs
  /\ remaining \in 0..USER_INDEX_MAX
  /\ buf \in Seq(Bytes) /\ Len(buf) <= STORAGE_IO_CHUNK
  /\ ret \in {"ok", "error"}

\* The bytes a Content-Length promises, in numbers that do not wrap.
Declared(digits) ==
  LET declared[i \in 0..Len(digits)] ==
        IF i = 0 THEN 0 ELSE declared[i-1] * 10 + digits[i]
  IN  declared[Len(digits)]

\* What is on flash is the beginning of one upload and within the limit,
\* whatever failed: uploads that broke off, writes that were short or did
\* not happen, a reset while the file was open (storage.c:221), a length
\* that wrapped (http_server.c:1160) and a body larger than announced.
PageSound ==
  page # NoPage =>
    \E u \in 1..uploads : page = Upload(u, Len(page))
                          /\ Len(page) <= USER_INDEX_MAX

\* A 201 is said of a page that is on flash from its first to its last byte,
\* the bytes received with the header included (http_server.c:347); of the
\* length the client gave, unless that is beyond 32 bits.
CreatedWhole ==
  answer = 201 =>
    /\ page = Upload(uploads, Len(page))
    /\ LET declared == Declared(LengthDigits(request))
       IN  declared < SizeMod => Len(page) = declared

\* The Content-Length of a user page comes from one look at the file and the
\* page from another (http_server.c:1258, 1296): a page sent in whole is what
\* was promised, and no more than that is ever sent.
ServedAsPromised ==
  /\ httpPc \in {"streaming", "sent"} =>
       IsPrefix(served, page) /\ Len(served) <= promised
  /\ httpPc = "sent" => served = page /\ Len(served) = promised

\* The file system is used only while it is mounted: a failed mount is
\* remembered by every later request (storage.c:65).
MountedFirst == fsPc \notin {"idle", "return"} => mounted

\* A client that sent a whole request is answered and let go although it
\* sends no more and waits: nothing is read twice or waited for that is in
\* the request's buffer already.  In a session the same goes for its frames.
Whole(r) ==
  LET page_len == IF Refusal(r) \in {400, 411, 413}
                    THEN 0 ELSE BodyLen(LengthDigits(r))
  IN  r.sends >= r.header + IF r.line = "put" THEN page_len
                            ELSE Len(Payload(r, uploads))

WholeRequestAnswered ==
  (httpPc = "recv" /\ Whole(request)) ~>
    \/ httpPc = "accept" /\ wsPc = "none"
    \/ wsPc = "poll" /\ Len(replies) = Len(frames)

\* README.md: "If no user page has been uploaded, `/user` returns `404 Not
\* Found`".  Violated: an upload that broke off leaves the beginning of a page,
\* or an empty one, and storage_user_index_size finds it.
AbsentUntilCreated ==
  (request # NoRequest /\ request.line = "user" /\ answer = 200) => created
=============================================================================
