---------------------------- MODULE HttpServerProofs --------------------------
(***************************************************************************)
(* Theorems about HttpServer: its file system is used only while mounted,  *)
(* what is on flash is the beginning of one upload, a 201 is said of a     *)
(* whole page, a page goes out as promised, and a WebSocket session stays  *)
(* in step with its client and answers each frame.                         *)
(*                                                                         *)
(* All of it rests on one relation: what is in the request's buffer and in *)
(* the socket is the part of what the client sends (Payload) that begins   *)
(* where the server is.                                                    *)
(***************************************************************************)
EXTENDS HttpServer, WsFrameProofs

-----------------------------------------------------------------------------
(* The inductive invariant.                                                *)

StreamPcs == {"stream_open", "stream_read", "writer", "stream_close"}
WritePcs == {"dir", "open", "body", "write", "sync", "close"}

FileType == [open : BOOLEAN, bytes : Seq(Bytes), pos : 0..Capacity,
             erred : BOOLEAN]

\* The parts of TypeOK: of the connection, of the HTTP thread, of storage.c.
HttpType ==
  /\ left \in BOOLEAN
  /\ httpPc \in HttpPcs
  /\ request \in Requests \cup {NoRequest}
  /\ used \in 0..(HTTP_REQUEST_MAX - 1)
  /\ Len(pending) <= used
  /\ answer \in Statuses
  /\ promised \in 0..Capacity
  /\ served \in Seq(Bytes)
  /\ uploads \in 0..MaxUploads
  /\ created \in BOOLEAN

StorageType ==
  /\ user_dir \in BOOLEAN
  /\ page \in Seq(Bytes) \cup {NoPage}
  /\ mount_attempted \in BOOLEAN /\ mounted \in BOOLEAN
  /\ mount_ret \in {"ENODEV", "ok", "error"}
  /\ total_kib \in {0, Capacity} /\ free_kib \in 0..Capacity
  /\ file \in FileType
  /\ fsPc \in FsPcs
  /\ remaining \in 0..USER_INDEX_MAX
  /\ buf \in Seq(Bytes) /\ Len(buf) <= STORAGE_IO_CHUNK
  /\ ret \in {"ok", "error"}

\* A chunk is under way only while it is written, a file open only between
\* open and close, and a page fits the volume.
FileInv ==
  /\ fsPc \notin {"write", "writer"} => buf = <<>>
  /\ fsPc \in {"idle", "dir", "open", "stream_open", "return"} => file = NoFile
  /\ page # NoPage => Len(page) <= Capacity

\* What storage_mount_once remembers.
MountInv ==
  /\ mount_ret = "ok" => mounted
  /\ MountedFirst

\* The state of storage.c, whatever the HTTP thread is at.
Disk == StorageType /\ FileInv /\ MountInv /\ PageSound

\* Where the two threads are at the same time.
PcInv ==
  /\ fsPc = "idle" <=> httpPc \notin {"writing", "streaming"}
  /\ httpPc = "writing" => fsPc \in WritePcs \cup {"return"}
  /\ httpPc = "streaming" => fsPc \in StreamPcs \cup {"return"}
  /\ fsPc \notin {"close", "stream_close", "return"} => ret = "ok"
  /\ wsPc # "none" => httpPc = "accept"
  /\ request = NoRequest <=> httpPc = "accept" /\ wsPc = "none"
  /\ answer = 201 => httpPc \in {"send", "close"}

\* The header, then what is behind it.
RequestInv ==
  /\ request = NoRequest => pending = <<>> /\ used = 0
  /\ request # NoRequest =>
       frames = request.frames /\ (request.line = "put" => uploads >= 1)
  /\ httpPc = "recv" =>
       /\ pending = <<>>
       /\ used < request.header /\ used < HTTP_REQUEST_MAX - 1
       /\ Behind(socket, used, Stream(request, uploads))
  /\ httpPc = "route" => Behind(Inbox, 0, Payload(request, uploads))

Talk == HttpType /\ PcInv /\ RequestInv

\* The length of the upload under way.
Announced == BodyLen(LengthDigits(request))

\* What is in the file, in the chunk, in the request's buffer and in the
\* socket is the page of the upload, one after the other.
WriteProgress ==
  /\ fsPc \in {"dir", "open", "body", "write"} =>
       /\ file.pos + Len(buf) + remaining = Announced
       /\ Behind(Inbox, file.pos + Len(buf), Payload(request, uploads))
  /\ fsPc \in {"body", "write", "sync", "close"} =>
       file.bytes = Upload(uploads, file.pos) /\ file.pos <= Announced
  /\ fsPc = "body" => remaining > 0
  /\ fsPc = "write" =>
       /\ buf # <<>>
       /\ \A i \in 1..Len(buf) : buf[i] = <<uploads, file.pos + i>>
  /\ fsPc = "sync" => file.pos = Announced
  /\ fsPc = "close" /\ ret = "ok" =>
       page = file.bytes /\ file.pos = Announced
  /\ fsPc = "return" /\ ret = "ok" => page = Upload(uploads, Announced)

WriteInv ==
  httpPc = "writing" =>
    /\ request.line = "put"
    /\ LengthDigits(request) \in Seq(Digits) /\ Announced <= USER_INDEX_MAX
    /\ WriteProgress

\* A user page on its way out: what was sent and the chunk are its beginning.
StreamProgress ==
  /\ fsPc = "stream_open" => served = <<>>
  /\ fsPc \in {"stream_read", "writer"} =>
       /\ file.bytes = page /\ file.pos <= Len(page)
       /\ served \o buf = Take(page, file.pos)
  /\ fsPc \in {"stream_close", "return"} /\ ret = "ok" => served = page

StreamInv ==
  /\ httpPc \notin {"streaming", "sent", "close"} => served = <<>>
  /\ httpPc \in {"send_header", "streaming", "sent"} =>
       page # NoPage /\ promised = Len(page)
  /\ httpPc = "streaming" => StreamProgress

Work == WriteInv /\ StreamInv /\ CreatedWhole /\ ServedAsPromised

Session == SessionType /\ SessionInv

HttpInv == Disk /\ Session /\ Talk /\ Work

\* Its first parts say what TypeOK says.
LEMMA TypeParts == ASSUME HttpInv PROVE TypeOK
<1>1. Bytes = Pairs
  BY DEF Bytes, Pairs
<1>2. HttpType /\ StorageType /\ SessionType
  BY DEF HttpInv, Disk, Session, Talk
<1>3. socket \in Seq(Bytes) /\ pending \in Seq(Bytes) /\ got \in Seq(Bytes)
  BY <1>1, <1>2 DEF SessionType
<1>4. /\ frames \in Seq(FrameType)
      /\ wsPc \in Reading \cup {"none", "poll", "close"}
  BY <1>2 DEF SessionType
<1>5. HttpType /\ StorageType
  BY <1>2
<1> QED BY <1>3, <1>4, <1>5, Zenon DEF TypeOK, HttpType, StorageType, FileType

-----------------------------------------------------------------------------
(* The length of a body.  The loop over its digits, and the sum without    *)
(* overflow, are recursive functions: by induction they agree until the    *)
(* first one wraps.                                                        *)

\* There are numbers below SizeMod.
LEMMA SizeModPositive == SizeMod \in Nat \ {0}
BY HttpServerAssumption

\* A remainder is a number, and the number itself below the modulus.
LEMMA Remainder ==
  ASSUME NEW x \in Nat, NEW m \in Nat \ {0}
  PROVE  x % m \in Nat /\ (x < m => x % m = x)
OBVIOUS

\* The loops over the digits, as functions.
BodyLens(g, digits) ==
  g = [i \in 0..Len(digits) |->
         IF i = 0 THEN 0 ELSE (g[i-1] * 10 + digits[i]) % SizeMod]
Declareds(g, digits) ==
  g = [i \in 0..Len(digits) |->
         IF i = 0 THEN 0 ELSE g[i-1] * 10 + digits[i]]


\* The recursion describes a function.
LEMMA BodyLensExists ==
  ASSUME NEW digits \in Seq(Digits)
  PROVE  \E g : BodyLens(g, digits)
<1> DEFINE n == Len(digits)
           step == [p \in Nat \X Nat |->
                      IF p[1] \in 1..n
                        THEN (p[2] * 10 + digits[p[1]]) % SizeMod ELSE 0]
<1>1. step \in [Nat \X Nat -> Nat]
  <2> SUFFICES ASSUME NEW p \in Nat \X Nat, p[1] \in 1..n
               PROVE  (p[2] * 10 + digits[p[1]]) % SizeMod \in Nat
    OBVIOUS
  <2>1. p[2] \in Nat /\ digits[p[1]] \in 0..9
    BY DEF Digits
  <2>2. p[2] * 10 + digits[p[1]] \in Nat
    BY <2>1
  <2> HIDE DEF n
  <2> QED BY <2>2, SizeModPositive, Remainder
<1>2. \A i \in 1..n, v \in Nat :
        step[<<i, v>>] = (v * 10 + digits[i]) % SizeMod
  OBVIOUS
<1>3. n \in Nat /\ 0 \in Nat
  OBVIOUS
<1> HIDE DEF step, n
<1>4. PICK g \in [0..n -> Nat] : Unfolds(g, 0, step, 0, n)
  BY <1>1, <1>3, Recursion
<1>5. g = [i \in 0..n |->
             IF i = 0 THEN 0 ELSE (g[i-1] * 10 + digits[i]) % SizeMod]
  <2> SUFFICES ASSUME NEW i \in 0..n, i # 0
               PROVE  g[i] = (g[i-1] * 10 + digits[i]) % SizeMod
    BY <1>4, <1>3 DEF Unfolds
  <2>1. i \in 1..n /\ i - 1 \in 0..n
    BY <1>3
  <2>2. g[i-1] \in Nat /\ g[i] = step[<<i, g[i-1]>>]
    BY <1>4, <2>1 DEF Unfolds
  <2> QED BY <1>2, <2>1, <2>2
<1> QED BY <1>5 DEF BodyLens, n

\* So does the one without overflow.
LEMMA DeclaredsExists ==
  ASSUME NEW digits \in Seq(Digits)
  PROVE  \E g : Declareds(g, digits)
<1> DEFINE n == Len(digits)
           step == [p \in Nat \X Nat |->
                      IF p[1] \in 1..n THEN p[2] * 10 + digits[p[1]] ELSE 0]
<1>1. step \in [Nat \X Nat -> Nat]
  <2> SUFFICES ASSUME NEW p \in Nat \X Nat, p[1] \in 1..n
               PROVE  p[2] * 10 + digits[p[1]] \in Nat
    OBVIOUS
  <2>1. p[2] \in Nat /\ digits[p[1]] \in 0..9
    BY DEF Digits
  <2> QED BY <2>1
<1>2. \A i \in 1..n, v \in Nat : step[<<i, v>>] = v * 10 + digits[i]
  OBVIOUS
<1>3. n \in Nat /\ 0 \in Nat
  OBVIOUS
<1> HIDE DEF step, n
<1>4. PICK g \in [0..n -> Nat] : Unfolds(g, 0, step, 0, n)
  BY <1>1, <1>3, Recursion
<1>5. g = [i \in 0..n |-> IF i = 0 THEN 0 ELSE g[i-1] * 10 + digits[i]]
  <2> SUFFICES ASSUME NEW i \in 0..n, i # 0
               PROVE  g[i] = g[i-1] * 10 + digits[i]
    BY <1>4, <1>3 DEF Unfolds
  <2>1. i \in 1..n /\ i - 1 \in 0..n
    BY <1>3
  <2>2. g[i-1] \in Nat /\ g[i] = step[<<i, g[i-1]>>]
    BY <1>4, <2>1 DEF Unfolds
  <2> QED BY <1>2, <2>1, <2>2
<1> QED BY <1>5 DEF Declareds, n

\* Unless the length is beyond size_t, the loop finds it.
LEMMA BodyLenDeclared ==
  ASSUME NEW digits \in Seq(Digits)
  PROVE  /\ BodyLen(digits) \in Nat
         /\ Declared(digits) < SizeMod => BodyLen(digits) = Declared(digits)
<1> DEFINE n == Len(digits)
           b == CHOOSE g : BodyLens(g, digits)
           d == CHOOSE g : Declareds(g, digits)
<1>1. n \in Nat /\ \A i \in 1..n : digits[i] \in 0..9
  BY DEF Digits
<1>2. BodyLens(b, digits) /\ Declareds(d, digits)
  BY BodyLensExists, DeclaredsExists
<1>3. BodyLen(digits) = b[n]
  BY Zenon DEF BodyLen, BodyLens
<1>4. Declared(digits) = d[n]
  BY Zenon DEF Declared, Declareds
<1> HIDE DEF b, d
<1>5. /\ b = [i \in 0..n |->
                IF i = 0 THEN 0 ELSE (b[i-1] * 10 + digits[i]) % SizeMod]
      /\ d = [i \in 0..n |-> IF i = 0 THEN 0 ELSE d[i-1] * 10 + digits[i]]
  BY <1>2 DEF BodyLens, Declareds
<1> HIDE DEF n
<1> DEFINE Same(m) == /\ b[m] \in Nat /\ d[m] \in Nat
                      /\ d[m] < SizeMod => b[m] = d[m]
           T == {m \in Nat : m <= n => Same(m)}
<1>6. 0 \in T
  <2>1. b[0] = 0 /\ d[0] = 0
    BY <1>1, <1>5
  <2> QED BY <2>1
<1>7. ASSUME NEW m \in T PROVE m + 1 \in T
  <2> SUFFICES ASSUME m + 1 <= n PROVE Same(m + 1)
    OBVIOUS
  <2>1. m + 1 \in 0..n /\ m + 1 # 0 /\ (m + 1) - 1 = m /\ m + 1 \in 1..n
    BY <1>1
  <2>2. Same(m) /\ digits[m+1] \in 0..9
    BY <1>1, <2>1
  <2>3. /\ b[m+1] = (b[m] * 10 + digits[m+1]) % SizeMod
        /\ d[m+1] = d[m] * 10 + digits[m+1]
    BY <2>1, <1>5
  <2>4. /\ b[m] * 10 + digits[m+1] \in Nat
        /\ d[m+1] \in Nat
        /\ d[m+1] < SizeMod => d[m] < SizeMod
    <3>1. \A x \in Nat, z \in 0..9 : x * 10 + z \in Nat /\ x <= x * 10 + z
      OBVIOUS
    <3>2. d[m] <= d[m+1] /\ d[m+1] \in Nat /\ b[m] * 10 + digits[m+1] \in Nat
      BY <2>2, <2>3, <3>1
    <3> QED BY <2>2, <3>2, SizeModPositive
  <2>5. /\ b[m+1] \in Nat
        /\ b[m] * 10 + digits[m+1] < SizeMod
             => b[m+1] = b[m] * 10 + digits[m+1]
    BY <2>3, <2>4, SizeModPositive, Remainder
  <2> QED BY <2>2, <2>3, <2>4, <2>5
<1>8. T = Nat
  <2> HIDE DEF T
  <2>1. T \in SUBSET Nat
    BY DEF T
  <2> QED BY <1>6, <1>7, <2>1, SetInduction
<1>9. Same(n)
  BY <1>1, <1>8
<1> QED BY <1>3, <1>4, <1>9

-----------------------------------------------------------------------------
(* What a client sends.                                                    *)

\* The fields of a request.
LEMMA RequestFields ==
  ASSUME NEW r \in Requests
  PROVE  /\ r # NoRequest
         /\ r.header \in Nat \ {0} /\ r.body \in Nat
         /\ r.headers \in Seq(FieldType) /\ r.frames \in Seq(FrameType)
         /\ r.sends \in 0..(r.header + Len(Payload(r, 0)))
BY HttpServerAssumption, RequestsAssumption

\* Some element of a set of numbers is the least.
LEMMA MinOf ==
  ASSUME NEW S \in SUBSET Nat, S # {}
  PROVE  Min(S) \in S
<1>1. IsWellFoundedOn(Less, Nat)
  BY NatLessThanWellFounded, Zenon DEF Less
<1>2. PICK x \in S : \A y \in S : ~ (<<y, x>> \in Less)
  BY <1>1, WFMin
<1>3. \A y \in S : x <= y
  <2> SUFFICES ASSUME NEW y \in S, y < x PROVE FALSE
    BY <1>2
  <2>1. <<y, x>> \in Less
    BY Zenon DEF Less, OpToRel
  <2> QED BY <1>2, <2>1
<1> DEFINE Least(x1) == x1 \in S /\ \A y \in S : x1 <= y
<1>4. Least(x)
  BY <1>3
<1>5. Min(S) \in S
  BY <1>3 DEF Min
<1> QED BY <1>5

\* The value of a header field is a sequence of digits and other characters.
LEMMA FieldValue ==
  ASSUME NEW r \in Requests, NEW name, find_header_value(r, name) # <<>>
  PROVE  find_header_value(r, name)[1] \in Seq(Int)
<1> DEFINE named == {i \in 1..Len(r.headers) : r.headers[i].name = name}
<1>1. r.headers \in Seq(FieldType)
  BY RequestFields
<1>2. named # {} /\ find_header_value(r, name)[1] = r.headers[Min(named)].value
  BY DEF find_header_value
<1>3. named \in SUBSET Nat
  OBVIOUS
<1>4. Min(named) \in named
  <2> HIDE DEF named
  <2> QED BY <1>2, <1>3, MinOf
<1> DEFINE m == Min(named)
<1>5. m \in 1..Len(r.headers)
  BY <1>4
<1> HIDE DEF m
<1>6. r.headers[m] \in FieldType
  BY <1>1, <1>5
<1>7. r.headers[m].value \in Seq(Int)
  BY <1>6 DEF FieldType
<1> QED BY <1>2, <1>7 DEF m

\* The digits of a length that is not refused.
LEMMA NotRefused ==
  ASSUME NEW r \in Requests, Refusal(r) = NoAnswer
  PROVE  /\ LengthDigits(r) \in Seq(Digits)
         /\ BodyLen(LengthDigits(r)) \in 0..USER_INDEX_MAX
         /\ Len(pending) <= BodyLen(LengthDigits(r))
<1> DEFINE digits == LengthDigits(r)
<1>1. ContentLength(r) # <<>>
  BY DEF Refusal, NoAnswer
<1>2. /\ \A i \in 1..Len(digits) : digits[i] \in Digits
      /\ ~TooLarge(BodyLen(digits)) /\ ~(Len(pending) > BodyLen(digits))
  BY <1>1 DEF Refusal, NoAnswer
<1>3. digits \in Seq(Int)
  BY <1>1, FieldValue DEF LengthDigits, ContentLength
<1>4. digits \in Seq(Digits)
  BY <1>2, <1>3
<1> HIDE DEF digits
<1>5. BodyLen(digits) \in Nat
  BY <1>4, BodyLenDeclared
<1>6. BodyLen(digits) <= USER_INDEX_MAX
  BY <1>2, <1>5, HttpServerAssumption DEF TooLarge
<1> QED BY <1>2, <1>4, <1>5, <1>6, HttpServerAssumption DEF digits

\* The bytes of an upload.
LEMMA UploadBytes ==
  ASSUME NEW u \in Nat, NEW n \in Nat
  PROVE  /\ Upload(u, n) \in Seq(Pairs) /\ Len(Upload(u, n)) = n
         /\ \A i \in 1..n : Upload(u, n)[i] = <<u, i>>
<1>1. \A i \in 1..n : <<u, i>> \in Pairs
  BY DEF Pairs
<1>2. Upload(u, n) \in Seq(Pairs)
  BY <1>1, IsASeq DEF Upload
<1>3. Len(Upload(u, n)) = n /\ \A i \in 1..n : Upload(u, n)[i] = <<u, i>>
  BY DEF Upload
<1> QED BY <1>2, <1>3

\* A chunk that goes on where an upload is.
LEMMA UploadMore ==
  ASSUME NEW u \in Nat, NEW n \in Nat, NEW data \in Seq(Pairs),
         \A i \in 1..Len(data) : data[i] = <<u, n + i>>
  PROVE  Upload(u, n) \o data = Upload(u, n + Len(data))
<1> DEFINE s == Upload(u, n)
           m == n + Len(data)
           t == Upload(u, m)
<1>1. /\ s \in Seq(Pairs) /\ Len(s) = n /\ \A i \in 1..n : s[i] = <<u, i>>
  BY UploadBytes
<1>2. m \in Nat
  OBVIOUS
<1>3. /\ t \in Seq(Pairs) /\ Len(t) = m /\ \A i \in 1..m : t[i] = <<u, i>>
  BY <1>2, UploadBytes
<1> HIDE DEF s, t
<1>4. /\ s \o data \in Seq(Pairs) /\ Len(s \o data) = m
      /\ \A i \in 1..m : (s \o data)[i] =
                           IF i <= n THEN s[i] ELSE data[i - n]
  BY <1>1, ConcatProperties
<1>5. ASSUME NEW i \in 1..m PROVE (s \o data)[i] = t[i]
  <2>1. CASE i <= n
    <3>1. i \in 1..n
      BY <2>1
    <3>2. s[i] = <<u, i>> /\ t[i] = <<u, i>>
      BY <1>1, <1>3, <3>1
    <3> QED BY <2>1, <3>2, <1>4
  <2>2. CASE ~(i <= n)
    <3>1. i - n \in 1..Len(data) /\ n + (i - n) = i
      BY <2>2
    <3> QED BY <2>2, <3>1, <1>3, <1>4
  <2> QED BY <2>1, <2>2
<1> QED BY <1>3, <1>4, <1>5, SameSequence DEF s, t

LEMMA PayloadBytes ==
  ASSUME NEW r \in Requests, NEW u \in Nat
  PROVE  /\ Payload(r, u) \in Seq(Pairs)
         /\ Len(Payload(r, u)) = Len(Payload(r, 0))
         /\ r.line = "put" =>
              /\ Len(Payload(r, u)) = r.body
              /\ \A i \in 1..r.body : Payload(r, u)[i] = <<u, i>>
         /\ r.line # "put" => Payload(r, u) = SentOf(r.frames, Len(r.frames))
<1>1. r.body \in Nat /\ r.frames \in Seq(FrameType)
  BY RequestFields
<1>2. CASE r.line = "put"
  <2>1. Payload(r, u) = Upload(u, r.body) /\ Payload(r, 0) = Upload(0, r.body)
    BY <1>2 DEF Payload
  <2>2. /\ Upload(u, r.body) \in Seq(Pairs) /\ Len(Upload(u, r.body)) = r.body
        /\ \A i \in 1..r.body : Upload(u, r.body)[i] = <<u, i>>
    BY <1>1, UploadBytes
  <2>3. 0 \in Nat
    OBVIOUS
  <2>4. Len(Upload(0, r.body)) = r.body
    BY <1>1, <2>3, UploadBytes
  <2> QED BY <1>2, <2>1, <2>2, <2>4
<1>3. CASE r.line # "put"
  <2>1. /\ Payload(r, u) = SentOf(r.frames, Len(r.frames))
        /\ Payload(r, 0) = SentOf(r.frames, Len(r.frames))
    BY <1>3 DEF Payload, SentOf
  <2>2. Len(r.frames) \in 0..Len(r.frames)
    BY <1>1
  <2> QED BY <1>1, <1>3, <2>1, <2>2, SentIsSequence
<1> QED BY <1>2, <1>3

LEMMA StreamBytes ==
  ASSUME NEW r \in Requests, NEW u \in Nat
  PROVE  /\ Stream(r, u) \in Seq(Pairs)
         /\ Len(Stream(r, u)) = r.header + Len(Payload(r, u))
         /\ \A i \in 1..Len(Payload(r, u)) :
              Stream(r, u)[r.header + i] = Payload(r, u)[i]
<1> DEFINE head == [i \in 1..r.header |-> <<0, i>>]
           rest == Payload(r, u)
<1>1. r.header \in Nat
  BY RequestFields
<1>2. head \in Seq(Pairs) /\ Len(head) = r.header
  <2>1. \A i \in 1..r.header : <<0, i>> \in Pairs
    BY <1>1 DEF Pairs
  <2>2. head \in Seq(Pairs)
    BY <1>1, <2>1, IsASeq
  <2> QED BY <1>1, <2>2
<1>3. rest \in Seq(Pairs)
  BY PayloadBytes
<1>4. Stream(r, u) = head \o rest
  BY DEF Stream
<1> HIDE DEF head, rest
<1>5. /\ head \o rest \in Seq(Pairs)
      /\ Len(head \o rest) = r.header + Len(rest)
      /\ \A i \in 1..(r.header + Len(rest)) :
           (head \o rest)[i] =
             IF i <= r.header THEN head[i] ELSE rest[i - r.header]
  <2>1. /\ head \o rest \in Seq(Pairs)
        /\ Len(head \o rest) = Len(head) + Len(rest)
        /\ \A i \in 1..(Len(head) + Len(rest)) :
             (head \o rest)[i] =
               IF i <= Len(head) THEN head[i] ELSE rest[i - Len(head)]
    BY <1>2, <1>3, ConcatProperties
  <2>2. Len(head) = r.header
    BY <1>2
  <2> QED BY <2>1, <2>2
<1>6. ASSUME NEW i \in 1..Len(rest)
      PROVE  (head \o rest)[r.header + i] = rest[i]
  <2>1. /\ r.header + i \in 1..(r.header + Len(rest))
        /\ ~(r.header + i <= r.header) /\ (r.header + i) - r.header = i
    BY <1>1, <1>3
  <2> QED BY <1>5, <2>1
<1> QED BY <1>4, <1>5, <1>6 DEF rest

\* What stands behind the header stands in the payload.
LEMMA BehindHeader ==
  ASSUME NEW r \in Requests, NEW u \in Nat, NEW s \in Seq(Pairs),
         Behind(s, r.header, Stream(r, u))
  PROVE  Behind(s, 0, Payload(r, u))
<1> DEFINE w == Stream(r, u)
           p == Payload(r, u)
           h == r.header
<1>1. /\ Len(w) = h + Len(p) /\ \A i \in 1..Len(p) : w[h + i] = p[i]
      /\ h \in Nat /\ Len(p) \in Nat /\ Len(s) \in Nat
  BY StreamBytes, PayloadBytes, RequestFields
<1>2. h + Len(s) <= Len(w) /\ \A i \in 1..Len(s) : s[i] = w[h + i]
  BY DEF Behind
<1> HIDE DEF w, p, h
<1>3. Len(s) <= Len(p)
  BY <1>1, <1>2
<1>4. \A i \in 1..Len(s) : s[i] = p[i] /\ 0 + i = i
  BY <1>1, <1>2, <1>3
<1>5. Behind(s, 0, p)
  BY <1>1, <1>3, <1>4 DEF Behind
<1> QED BY <1>5 DEF p

-----------------------------------------------------------------------------
(* What a step leaves as it is.                                            *)

LEMMA DiskKept ==
  ASSUME Disk, UNCHANGED storageVars, uploads \in Nat, uploads' \in Nat,
         uploads <= uploads'
  PROVE  Disk'
<1>1. /\ user_dir' = user_dir /\ page' = page
      /\ mount_attempted' = mount_attempted /\ mounted' = mounted
      /\ mount_ret' = mount_ret
      /\ total_kib' = total_kib /\ free_kib' = free_kib
      /\ file' = file /\ fsPc' = fsPc /\ remaining' = remaining /\ buf' = buf
      /\ ret' = ret
  BY DEF storageVars, flash, mount, space, stream
<1>2. StorageType' /\ FileInv'
  BY <1>1 DEF Disk, StorageType, FileInv
<1>3. MountInv'
  BY <1>1 DEF Disk, MountInv, MountedFirst
<1>4. PageSound'
  <2> SUFFICES ASSUME page' # NoPage
               PROVE  \E u \in 1..uploads' : /\ page' = Upload(u, Len(page'))
                                             /\ Len(page') <= USER_INDEX_MAX
    BY DEF PageSound
  <2>1. PICK u \in 1..uploads : page = Upload(u, Len(page))
                                /\ Len(page) <= USER_INDEX_MAX
    BY <1>1 DEF Disk, PageSound
  <2>2. u \in 1..uploads'
    OBVIOUS
  <2> QED BY <1>1, <2>1, <2>2
<1> QED BY <1>2, <1>3, <1>4 DEF Disk

LEMMA SessionKept ==
  ASSUME Session, UNCHANGED <<connection, wsVars>>
  PROVE  Session'
<1>1. /\ pending' = pending /\ socket' = socket /\ frames' = frames
      /\ wsPc' = wsPc /\ got' = got /\ replies' = replies
  BY DEF connection, wsVars
<1>2. SessionType'
  BY <1>1 DEF Session, SessionType
<1>3. Inbox' = Inbox /\ ReadOf' = ReadOf
  BY <1>1 DEF Inbox, ReadOf
<1>4. AtFrame' <=> AtFrame
  BY <1>1, <1>3 DEF AtFrame
<1>5. InFrame' <=> InFrame
  BY <1>1 DEF InFrame, Wire
<1>6. AtPart' <=> AtPart
  BY <1>1, <1>5 DEF AtPart
<1>7. OneAnswerEach' <=> OneAnswerEach
  BY <1>1 DEF OneAnswerEach
<1>8. SessionInv'
  BY <1>1, <1>4, <1>6, <1>7 DEF Session, SessionInv
<1> QED BY <1>2, <1>8 DEF Session

\* No WebSocket session.
LEMMA NoSession ==
  ASSUME wsPc' = "none", replies' = <<>>, got' = <<>>,
         pending' \in Seq(Pairs), socket' \in Seq(Pairs),
         frames' \in Seq(FrameType)
  PROVE  Session'
<1>1. SessionType'
  BY DEF SessionType
<1>2. AtPart' /\ OneAnswerEach'
  BY DEF AtPart, OneAnswerEach
<1>3. SessionInv'
  BY <1>2 DEF SessionInv, Reading
<1> QED BY <1>1, <1>3 DEF Session

\* Neither an upload nor a page under way.
LEMMA NoWork ==
  ASSUME httpPc' \notin {"writing", "send_header", "streaming", "sent"},
         httpPc' = "close" \/ served' = <<>>,
         answer' = 201 => CreatedWhole'
  PROVE  Work'
<1>1. WriteInv' /\ StreamInv'
  BY DEF WriteInv, StreamInv
<1>2. ServedAsPromised'
  BY DEF ServedAsPromised
<1>3. CreatedWhole'
  BY DEF CreatedWhole
<1> QED BY <1>1, <1>2, <1>3 DEF Work

\* Nothing is connected any more.
LEMMA Gone ==
  ASSUME HttpInv, Disconnected, UNCHANGED <<uploads, created>>,
         fsPc' = "idle", ret' = "ok"
  PROVE  Session' /\ Talk' /\ Work'
<1>1. /\ socket' = <<>> /\ pending' = <<>> /\ left' = FALSE /\ frames' = <<>>
      /\ wsPc' = "none" /\ got' = <<>> /\ replies' = <<>>
      /\ httpPc' = "accept" /\ request' = NoRequest /\ used' = 0
      /\ answer' = NoAnswer /\ promised' = 0 /\ served' = <<>>
  BY DEF Disconnected
<1>2. Session'
  <2>1. <<>> \in Seq(Pairs) /\ <<>> \in Seq(FrameType)
    OBVIOUS
  <2> QED BY <1>1, <2>1, NoSession
<1>3. HttpType'
  <2>1. uploads' \in 0..MaxUploads /\ created' \in BOOLEAN
    BY DEF HttpInv, Talk, HttpType
  <2>2. 0 \in 0..(HTTP_REQUEST_MAX - 1) /\ 0 \in 0..Capacity /\ <<>> \in Seq(Bytes)
    BY HttpServerAssumption, UserStorageAssumption
  <2>3. Len(pending') <= used'
    BY <1>1
  <2> QED BY <1>1, <2>1, <2>2, <2>3 DEF HttpType, HttpPcs, Statuses
<1>4. PcInv'
  BY <1>1 DEF PcInv, NoAnswer
<1>5. RequestInv'
  BY <1>1 DEF RequestInv
<1>6. Work'
  <2>1. /\ httpPc' \notin {"writing", "send_header", "streaming", "sent"}
        /\ served' = <<>> /\ answer' # 201
    BY <1>1 DEF NoAnswer
  <2> QED BY <2>1, NoWork
<1> QED BY <1>2, <1>3, <1>4, <1>5, <1>6 DEF Talk

\* The uploads are numbers.
LEMMA UploadsNat == ASSUME HttpInv PROVE uploads \in Nat
BY HttpServerAssumption DEF HttpInv, Talk, HttpType

LEMMA CloseStep ==
  ASSUME HttpInv, CloseClient \/ CloseServed \/ CloseSession
  PROVE  HttpInv'
<1>1. /\ Disconnected /\ UNCHANGED <<storageVars, uploads, created>>
      /\ httpPc \in {"close", "sent"} \/ wsPc = "close"
  BY DEF CloseClient, CloseServed, CloseSession
<1>2. fsPc = "idle" /\ ret = "ok"
  <2>1. httpPc \notin {"writing", "streaming"}
    BY <1>1 DEF HttpInv, Talk, PcInv
  <2> QED BY <2>1 DEF HttpInv, Talk, PcInv
<1>3. fsPc' = "idle" /\ ret' = "ok"
  BY <1>1, <1>2 DEF storageVars, stream
<1>4. Disk'
  BY <1>1, UploadsNat, DiskKept DEF HttpInv
<1> QED BY <1>1, <1>3, <1>4, Gone DEF HttpInv

\* What is on flash stays; the rest is as after a start.
LEMMA PowerStep ==
  ASSUME HttpInv, PowerFails
  PROVE  HttpInv'
<1>1. /\ StorageReset /\ Disconnected /\ UNCHANGED <<flash, uploads, created>>
  BY DEF PowerFails
<1>2. /\ mount_attempted' = FALSE /\ mounted' = FALSE /\ mount_ret' = "ENODEV"
      /\ total_kib' = 0 /\ free_kib' = 0 /\ file' = NoFile /\ fsPc' = "idle"
      /\ remaining' = 0 /\ buf' = <<>> /\ ret' = "ok"
      /\ user_dir' = user_dir /\ page' = page /\ uploads' = uploads
  BY <1>1 DEF StorageReset, flash
<1>3. StorageType'
  <2>1. user_dir \in BOOLEAN /\ page \in Seq(Bytes) \cup {NoPage}
    BY DEF HttpInv, Disk, StorageType
  <2>2. 0 \in 0..USER_INDEX_MAX /\ 0 \in 0..Capacity
    BY HttpServerAssumption, UserStorageAssumption
  <2>3. NoFile \in FileType
    BY <2>2 DEF NoFile, FileType
  <2>4. <<>> \in Seq(Bytes) /\ Len(<<>>) <= STORAGE_IO_CHUNK
    BY UserStorageAssumption
  <2> QED BY <1>2, <2>1, <2>2, <2>3, <2>4 DEF StorageType, FsPcs
<1>4. FileInv' /\ MountInv' /\ PageSound'
  BY <1>2 DEF HttpInv, Disk, FileInv, MountInv, MountedFirst, PageSound
<1>5. Disk'
  BY <1>3, <1>4 DEF Disk
<1> QED BY <1>1, <1>2, <1>5, Gone DEF HttpInv

-----------------------------------------------------------------------------
(* Accepting and receiving.                                                *)

LEMMA AcceptStep ==
  ASSUME HttpInv, Accept
  PROVE  HttpInv'
<1>1. PICK r \in Requests :
        /\ uploads' = uploads + (IF r.line = "put" THEN 1 ELSE 0)
        /\ uploads' <= MaxUploads
        /\ request' = r
        /\ frames' = r.frames
        /\ socket' = Take(Stream(r, uploads'), r.sends)
  BY DEF Accept
<1>2. /\ httpPc = "accept" /\ wsPc = "none" /\ httpPc' = "recv"
      /\ UNCHANGED <<pending, left, wsPc, got, replies, storageVars, used,
                     answering, created>>
  BY DEF Accept
<1>3. /\ pending' = pending /\ left' = left /\ wsPc' = "none" /\ got' = got
      /\ replies' = replies /\ used' = used /\ answer' = answer
      /\ promised' = promised /\ served' = served /\ created' = created
      /\ fsPc' = fsPc /\ ret' = ret /\ storageVars' = storageVars
  BY <1>2 DEF answering, storageVars, stream
<1>4. uploads \in Nat /\ uploads' \in 0..MaxUploads /\ uploads <= uploads'
      /\ (r.line = "put" => uploads' >= 1)
  BY <1>1, UploadsNat, HttpServerAssumption
<1>5. /\ request = NoRequest /\ pending = <<>> /\ used = 0
      /\ replies = <<>> /\ got = <<>> /\ served = <<>> /\ answer # 201
      /\ fsPc = "idle" /\ ret = "ok"
  <2>1. PcInv /\ RequestInv /\ SessionInv /\ StreamInv
    BY DEF HttpInv, Talk, Session, Work
  <2>2. request = NoRequest /\ fsPc = "idle" /\ answer # 201
    BY <1>2, <2>1 DEF PcInv
  <2>3. ret = "ok"
    BY <2>1, <2>2 DEF PcInv
  <2> QED BY <1>2, <2>1, <2>2, <2>3 DEF RequestInv, SessionInv, StreamInv
<1>6. /\ r # NoRequest /\ r.header \in Nat \ {0} /\ r.frames \in Seq(FrameType)
      /\ r.sends \in 0..(r.header + Len(Payload(r, 0)))
  BY RequestFields
<1>7. /\ Stream(r, uploads') \in Seq(Pairs)
      /\ r.sends \in 0..Len(Stream(r, uploads'))
  <2>1. uploads' \in Nat
    BY <1>4
  <2>2. /\ Stream(r, uploads') \in Seq(Pairs)
        /\ Len(Stream(r, uploads')) = r.header + Len(Payload(r, uploads'))
    BY <2>1, StreamBytes
  <2>3. Len(Payload(r, uploads')) = Len(Payload(r, 0))
    BY <2>1, PayloadBytes
  <2> QED BY <1>6, <2>2, <2>3
<1>8. /\ socket' \in Seq(Pairs)
      /\ Behind(socket', 0, Stream(r, uploads'))
  <2> DEFINE w == Stream(r, uploads')
  <2>1. /\ Take(w, r.sends) \in Seq(Pairs) /\ Len(Take(w, r.sends)) = r.sends
        /\ \A i \in 1..r.sends : Take(w, r.sends)[i] = w[i]
    BY <1>7, TakeDrop
  <2>2. \A i \in 1..r.sends : 0 + i = i
    OBVIOUS
  <2>3. 0 + r.sends <= Len(w)
    BY <1>7
  <2> HIDE DEF w
  <2>4. Behind(Take(w, r.sends), 0, w)
    BY <2>1, <2>2, <2>3 DEF Behind
  <2> QED BY <1>1, <2>1, <2>4 DEF w
<1>9. Disk'
  <2>1. uploads' \in Nat
    BY <1>4
  <2> QED BY <1>3, <1>4, <2>1, DiskKept DEF HttpInv
<1>10. Session'
  <2>1. <<>> \in Seq(Pairs)
    OBVIOUS
  <2> QED BY <1>1, <1>3, <1>5, <1>6, <1>8, <2>1, NoSession
<1>11. HttpType'
  <2>1. request' \in Requests \cup {NoRequest}
    BY <1>1
  <2>2. httpPc' \in HttpPcs
    BY <1>2 DEF HttpPcs
  <2> QED BY <1>3, <1>4, <2>1, <2>2 DEF HttpInv, Talk, HttpType
<1>12. PcInv'
  BY <1>1, <1>2, <1>3, <1>5, <1>6 DEF PcInv
<1>13. RequestInv'
  <2>1. 0 < r.header /\ 0 < HTTP_REQUEST_MAX - 1
    BY <1>6, HttpServerAssumption
  <2> QED BY <1>1, <1>2, <1>3, <1>4, <1>5, <1>6, <1>8, <2>1 DEF RequestInv
<1>14. Work'
  BY <1>2, <1>3, <1>5, NoWork
<1> QED BY <1>9, <1>10, <1>11, <1>12, <1>13, <1>14 DEF HttpInv, Talk

LEMMA RecvStep ==
  ASSUME HttpInv, RecvRequest
  PROVE  HttpInv'
<1> DEFINE h == request.header
<1>1. PICK n \in 1..Smaller(Len(socket), HTTP_REQUEST_MAX - 1 - used) :
        /\ socket' = Drop(socket, n)
        /\ used' = used + n
        /\ IF used' >= h
             THEN /\ pending' = SubSeq(socket, h - used + 1, n)
                  /\ httpPc' = "route"
                  /\ answer' = answer
             ELSE /\ pending' = pending
                  /\ IF used' < HTTP_REQUEST_MAX - 1
                       THEN httpPc' = httpPc /\ answer' = answer
                       ELSE Finish(431)
  BY DEF RecvRequest
<1>2. /\ httpPc = "recv" /\ left' = left /\ wsVars' = wsVars
      /\ storageVars' = storageVars /\ request' = request
      /\ promised' = promised /\ served' = served /\ uploads' = uploads
      /\ created' = created
  BY DEF RecvRequest
<1>3. PcInv /\ RequestInv /\ SessionType /\ SessionInv /\ StreamInv /\ HttpType
      /\ Disk
  BY DEF HttpInv, Talk, Session, Work
<1>4. /\ pending = <<>> /\ used < h /\ used < HTTP_REQUEST_MAX - 1
      /\ Behind(socket, used, Stream(request, uploads))
  BY <1>2, <1>3 DEF RequestInv
<1>5. /\ wsPc = "none" /\ request # NoRequest /\ request \in Requests
      /\ fsPc = "idle" /\ ret = "ok" /\ answer # 201 /\ served = <<>>
  <2>1. wsPc = "none" /\ request # NoRequest /\ fsPc = "idle" /\ answer # 201
    BY <1>2, <1>3 DEF PcInv
  <2>2. ret = "ok"
    BY <2>1, <1>3 DEF PcInv
  <2> QED BY <1>2, <1>3, <2>1, <2>2 DEF HttpType, StreamInv
<1>6. h \in Nat \ {0} /\ used \in Nat /\ socket \in Seq(Pairs)
      /\ uploads \in Nat /\ HTTP_REQUEST_MAX \in Nat
  BY <1>3, <1>5, RequestFields, UploadsNat, HttpServerAssumption
     DEF HttpType, SessionType
<1>7. n \in 1..Len(socket) /\ used + n <= HTTP_REQUEST_MAX - 1
  BY <1>1, <1>6 DEF Smaller
<1>8. /\ wsPc' = "none" /\ frames' = frames /\ got' = <<>> /\ replies' = <<>>
      /\ fsPc' = fsPc /\ ret' = ret
  BY <1>2, <1>3, <1>5 DEF wsVars, storageVars, stream, SessionInv
<1>9. Disk'
  BY <1>2, <1>3, <1>6, DiskKept
<1>10. socket' \in Seq(Pairs) /\ n \in 0..Len(socket)
  BY <1>1, <1>6, <1>7, TakeDrop
<1>11. /\ Stream(request, uploads) \in Seq(Pairs)
       /\ Behind(socket', used + n, Stream(request, uploads))
  <2>1. Stream(request, uploads) \in Seq(Pairs)
    BY <1>5, <1>6, StreamBytes
  <2> QED BY <1>1, <1>4, <1>6, <1>10, <2>1, BehindRest
<1>12. /\ answer' \in Statuses /\ httpPc' \in {"recv", "route", "send"}
       /\ answer' # 201
  BY <1>1, <1>2, <1>3, <1>5 DEF Finish, Statuses, HttpType
<1>13. used' \in 0..(HTTP_REQUEST_MAX - 1)
  BY <1>1, <1>6, <1>7
<1>14. PcInv'
  BY <1>2, <1>3, <1>5, <1>8, <1>12 DEF PcInv
<1>15. Work'
  BY <1>2, <1>5, <1>12, NoWork
<1>18. used' = used + n
  BY <1>1
<1> HIDE DEF h
<1>16. CASE used' >= h
  <2>1. /\ pending' = SubSeq(socket, h - used + 1, n) /\ httpPc' = "route"
    BY <1>1, <1>16
  <2> DEFINE m == h - used
  <2>2. m \in 0..n /\ m \in 0..Len(socket) /\ m \in Nat /\ used + m = h
    BY <1>4, <1>6, <1>7, <1>16, <1>18
  <2> HIDE DEF m
  <2>12. h - used + 1 = m + 1
    BY <1>6 DEF m
  <2>3. /\ pending' \in Seq(Pairs) /\ Len(pending') = n - m
        /\ \A i \in 1..(n - m) : pending'[i] = socket[m + i]
    BY <1>6, <1>7, <2>1, <2>2, <2>12
  <2>4. /\ Drop(socket, m) \in Seq(Pairs)
        /\ Len(Drop(socket, m)) = Len(socket) - m
        /\ \A i \in 1..(Len(socket) - m) : Drop(socket, m)[i] = socket[m + i]
    BY <1>6, <2>2, TakeDrop
  <2>5. /\ Len(socket') = Len(socket) - n
        /\ \A i \in 1..(Len(socket) - n) : socket'[i] = socket[n + i]
    BY <1>1, <1>6, <1>10, TakeDrop
  <2>6. Inbox' = Drop(socket, m)
    <3>1. /\ Inbox' \in Seq(Pairs) /\ Len(Inbox') = Len(pending') + Len(socket')
          /\ \A i \in 1..(Len(pending') + Len(socket')) :
               Inbox'[i] = IF i <= Len(pending')
                             THEN pending'[i] ELSE socket'[i - Len(pending')]
      BY <1>10, <2>3, ConcatProperties DEF Inbox
    <3>2. Len(Inbox') = Len(socket) - m
      BY <1>6, <1>7, <2>2, <2>3, <2>5, <3>1
    <3>3. ASSUME NEW i \in 1..(Len(socket) - m)
          PROVE  Inbox'[i] = socket[m + i]
      <4>1. CASE i <= n - m
        BY <4>1, <3>1, <3>2, <2>2, <2>3
      <4>2. CASE ~(i <= n - m)
        <5>1. /\ i - (n - m) \in 1..(Len(socket) - n)
              /\ n + (i - (n - m)) = m + i
          BY <4>2, <1>6, <1>7, <2>2
        <5> QED BY <4>2, <5>1, <3>1, <3>2, <2>3, <2>5
      <4> QED BY <4>1, <4>2
    <3> QED BY <3>1, <3>2, <3>3, <2>4, SameSequence
  <2>7. Behind(Inbox', h, Stream(request, uploads))
    BY <1>4, <1>6, <1>11, <2>2, <2>6, BehindRest
  <2>8. Behind(Inbox', 0, Payload(request, uploads))
    <3>1. Inbox' \in Seq(Pairs)
      BY <2>4, <2>6
    <3> QED BY <1>5, <1>6, <2>7, <3>1, BehindHeader DEF h
  <2>9. Session'
    BY <1>3, <1>8, <1>10, <2>3, NoSession DEF SessionType
  <2>10. HttpType'
    <3>1. Len(pending') <= used'
      BY <1>1, <1>6, <1>7, <2>2, <2>3
    <3>2. httpPc' \in HttpPcs
      BY <2>1 DEF HttpPcs
    <3> QED BY <1>2, <1>3, <1>12, <1>13, <3>1, <3>2 DEF HttpType
  <2>11. RequestInv'
    BY <1>2, <1>3, <1>5, <1>8, <2>1, <2>8 DEF RequestInv
  <2> QED BY <1>9, <1>14, <1>15, <2>9, <2>10, <2>11 DEF HttpInv, Talk
<1>17. CASE ~(used' >= h)
  <2>1. pending' = <<>>
    BY <1>1, <1>4, <1>17
  <2>2. \/ httpPc' = "recv" /\ used' < HTTP_REQUEST_MAX - 1
        \/ httpPc' = "send"
    BY <1>1, <1>2, <1>17 DEF Finish
  <2>3. Session'
    <3>1. <<>> \in Seq(Pairs)
      OBVIOUS
    <3> QED BY <1>3, <1>8, <1>10, <2>1, <3>1, NoSession DEF SessionType
  <2>4. HttpType'
    <3>1. Len(pending') <= used'
      BY <1>1, <1>6, <2>1
    <3>2. httpPc' \in HttpPcs
      BY <2>2 DEF HttpPcs
    <3> QED BY <1>2, <1>3, <1>12, <1>13, <3>1, <3>2 DEF HttpType
  <2>5. used' < h
    BY <1>1, <1>6, <1>17
  <2>6. Behind(socket', used', Stream(request', uploads'))
    BY <1>1, <1>2, <1>11
  <2>7. RequestInv'
    BY <1>2, <1>3, <1>5, <1>8, <2>1, <2>2, <2>5, <2>6 DEF RequestInv, h
  <2> QED BY <1>9, <1>14, <1>15, <2>3, <2>4, <2>7 DEF HttpInv, Talk
<1> QED BY <1>16, <1>17

\* Nothing of what the parts speak of changes but that the connection is to
\* be closed.
LEMMA LetGoStep ==
  ASSUME HttpInv, RecvRequestFails \/ SendAnswer
  PROVE  HttpInv'
<1>1. /\ httpPc \in {"recv", "send"} /\ httpPc' = "close"
      /\ UNCHANGED <<connection, wsVars, storageVars, request, used, answering,
                     uploads, created>>
  BY DEF RecvRequestFails, SendAnswer
<1>2. /\ request' = request /\ used' = used /\ answer' = answer
      /\ promised' = promised /\ served' = served /\ uploads' = uploads
      /\ created' = created /\ pending' = pending /\ left' = left
      /\ frames' = frames /\ wsPc' = wsPc /\ page' = page /\ fsPc' = fsPc
      /\ ret' = ret
  BY <1>1 DEF connection, wsVars, answering, storageVars, flash, stream
<1>3. PcInv /\ RequestInv /\ HttpType /\ CreatedWhole
  BY DEF HttpInv, Talk, Work
<1>4. Disk'
  BY <1>1, UploadsNat, DiskKept DEF HttpInv
<1>5. Session'
  BY <1>1, SessionKept DEF HttpInv
<1>6. HttpType'
  BY <1>1, <1>2, <1>3 DEF HttpType, HttpPcs
<1>7. PcInv'
  BY <1>1, <1>2, <1>3 DEF PcInv
<1>8. RequestInv'
  BY <1>1, <1>2, <1>3 DEF RequestInv
<1>9. Work'
  <2>1. CreatedWhole'
    BY <1>2, <1>3 DEF CreatedWhole
  <2> QED BY <1>1, <2>1, NoWork
<1> QED BY <1>4, <1>5, <1>6, <1>7, <1>8, <1>9 DEF HttpInv, Talk

\* A client that leaves.
LEMMA LeaveStep ==
  ASSUME HttpInv, Leave
  PROVE  HttpInv'
<1>1. /\ request # NoRequest /\ ClientLeaves
      /\ UNCHANGED <<wsVars, storageVars, httpVars>>
  BY DEF Leave
<1>2. /\ frames' = frames /\ wsPc' = wsPc /\ got' = got /\ replies' = replies
      /\ httpPc' = httpPc /\ request' = request /\ used' = used
      /\ answer' = answer /\ promised' = promised /\ served' = served
      /\ uploads' = uploads /\ created' = created
      /\ page' = page /\ file' = file /\ fsPc' = fsPc /\ remaining' = remaining
      /\ buf' = buf /\ ret' = ret
  BY <1>1 DEF wsVars, httpVars, answering, storageVars, flash, stream
<1>3. /\ left' = TRUE /\ pending' = pending /\ socket' \in {socket, <<>>}
  BY <1>1 DEF ClientLeaves
<1>4. /\ SessionType /\ SessionInv /\ HttpType /\ PcInv /\ RequestInv
      /\ WriteInv /\ StreamInv /\ CreatedWhole /\ ServedAsPromised
  BY DEF HttpInv, Session, Talk, Work
<1>5. /\ pending \in Seq(Pairs) /\ socket \in Seq(Pairs)
      /\ request \in Requests /\ uploads \in Nat
      /\ frames \in Seq(FrameType)
  BY <1>1, <1>4, UploadsNat DEF SessionType, HttpType
<1>6. socket' \in Seq(Pairs)
  <2>1. <<>> \in Seq(Pairs)
    OBVIOUS
  <2> QED BY <1>3, <1>5, <2>1
<1>7. \A d \in Nat, w \in Seq(Pairs) :
        Behind(Inbox, d, w) => Behind(Inbox', d, w)
  BY <1>1, <1>5, Leaving
<1>8. Payload(request, uploads) \in Seq(Pairs)
  BY <1>5, PayloadBytes
<1>9. Disk'
  BY <1>1, <1>2, <1>5, DiskKept DEF HttpInv
<1>10. Session'
  <2>1. SessionType'
    BY <1>2, <1>3, <1>4, <1>6 DEF SessionType
  <2>2. ASSUME AtFrame PROVE AtFrame'
    <3> DEFINE k == Len(replies)
               w == SentOf(frames, Len(frames))
               d == Len(SentOf(frames, k)) + ReadOf
    <3>1. k \in 0..Len(frames) /\ Behind(Inbox, d, w)
      BY <1>4, <2>2 DEF AtFrame, SessionType
    <3>2. SentOf(frames, k) \in Seq(Pairs) /\ w \in Seq(Pairs)
      <4>1. Len(frames) \in 0..Len(frames)
        BY <1>5
      <4> QED BY <1>5, <3>1, <4>1, SentIsSequence
    <3>3. ReadOf \in Nat
      BY <1>4 DEF ReadOf, SessionType
    <3>4. d \in Nat
      BY <3>2, <3>3
    <3> HIDE DEF d, w
    <3>5. Behind(Inbox', d, w)
      BY <1>7, <3>1, <3>2, <3>4
    <3>6. ReadOf' = ReadOf
      BY <1>2 DEF ReadOf
    <3> QED BY <1>2, <2>2, <3>5, <3>6 DEF AtFrame, d, w
  <2>3. AtPart'
    <3>1. InFrame' <=> InFrame
      BY <1>2 DEF InFrame, Wire
    <3> QED BY <1>2, <1>4, <3>1 DEF SessionInv, AtPart
  <2>4. OneAnswerEach'
    BY <1>2, <1>4 DEF SessionInv, OneAnswerEach
  <2>5. SessionInv'
    BY <1>2, <1>4, <2>2, <2>3, <2>4 DEF SessionInv
  <2> QED BY <2>1, <2>5 DEF Session
<1>11. HttpType' /\ PcInv'
  BY <1>2, <1>3, <1>4 DEF HttpType, PcInv
<1>12. RequestInv'
  <2>1. httpPc = "recv" => Behind(socket', used, Stream(request, uploads))
    <3> SUFFICES ASSUME httpPc = "recv"
                 PROVE  Behind(socket', used, Stream(request, uploads))
      OBVIOUS
    <3>1. pending = <<>> /\ Behind(socket, used, Stream(request, uploads))
      BY <1>4 DEF RequestInv
    <3>2. Inbox = socket /\ Inbox' = socket'
      BY <1>3, <1>5, <1>6, <3>1 DEF Inbox
    <3>3. used \in Nat /\ Stream(request, uploads) \in Seq(Pairs)
      BY <1>4, <1>5, StreamBytes, HttpServerAssumption DEF HttpType
    <3> QED BY <1>7, <3>1, <3>2, <3>3
  <2>2. httpPc = "route" => Behind(Inbox', 0, Payload(request, uploads))
    BY <1>4, <1>7, <1>8 DEF RequestInv
  <2> QED BY <1>2, <1>3, <1>4, <2>1, <2>2 DEF RequestInv
<1>13. WriteInv'
  <2>1. httpPc = "writing" /\ fsPc \in {"dir", "open", "body", "write"} =>
          Behind(Inbox', file.pos + Len(buf), Payload(request, uploads))
    <3> SUFFICES ASSUME httpPc = "writing",
                        fsPc \in {"dir", "open", "body", "write"}
                 PROVE  Behind(Inbox', file.pos + Len(buf),
                               Payload(request, uploads))
      OBVIOUS
    <3>1. Behind(Inbox, file.pos + Len(buf), Payload(request, uploads))
      BY <1>4 DEF WriteInv, WriteProgress
    <3>2. file \in FileType /\ buf \in Seq(Bytes)
      BY DEF HttpInv, Disk, StorageType
    <3>3. file.pos + Len(buf) \in Nat
      BY <3>2, UserStorageAssumption DEF FileType
    <3> QED BY <1>7, <1>8, <3>1, <3>3
  <2>2. Announced' = Announced /\ LengthDigits(request)' = LengthDigits(request)
    BY <1>2 DEF Announced
  <2> QED BY <1>2, <1>4, <2>1, <2>2 DEF WriteInv, WriteProgress
<1>14. StreamInv' /\ ServedAsPromised'
  BY <1>2, <1>4 DEF StreamInv, StreamProgress, ServedAsPromised
<1>15. CreatedWhole'
  BY <1>2, <1>4 DEF CreatedWhole
<1> QED BY <1>9, <1>10, <1>11, <1>12, <1>13, <1>14, <1>15
       DEF HttpInv, Talk, Work

-----------------------------------------------------------------------------
(* The WebSocket session.                                                  *)

\* What its steps do not touch.
LEMMA EchoFrame ==
  ASSUME SessionType, SessionInv, websocket_echo_loop \/ PollFails
  PROVE  /\ wsPc # "none" /\ wsPc' # "none" /\ left' = left /\ frames' = frames
         /\ Len(pending') <= Len(pending)
<1>0. pending \in Seq(Pairs) /\ socket \in Seq(Pairs)
  BY DEF SessionType
<1>1. ASSUME NEW n \in Nat, Read(n)
      PROVE  left' = left /\ Len(pending') <= Len(pending)
  <2>1. ws_recv_exact(n)
    BY <1>1 DEF Read
  <2>2. left' = left
    BY <2>1 DEF ws_recv_exact
  <2> QED BY <1>0, <2>1, <2>2, ExactRead
<1>2. CASE ReadHead \/ ReadExt \/ ReadMask
  <2>1. /\ Read(1) /\ frames' = frames /\ wsPc # "none" /\ wsPc' # "none"
    BY <1>2, Zenon DEF ReadHead, ReadExt, ReadMask, CheckFrame, Refuse, Step
  <2> QED BY <1>1, <2>1
<1>3. CASE ReadPayload
  <2>1. /\ wsPc = "payload" /\ wsPc' = "dispatch" /\ frames' = frames
        /\ Read(Current.len)
    BY <1>3 DEF ReadPayload, Step
  <2>2. InFrame /\ Len(got) = HeadLen(frames[Len(replies) + 1]) + 1
    BY <2>1 DEF SessionInv, AtPart
  <2>3. HeadLen(frames[Len(replies) + 1]) \in {1, 2}
    BY <2>2, NextLength DEF InFrame
  <2>4. got # <<>>
    BY <2>2, <2>3
  <2>5. Current \in FrameType
    BY <2>2, <2>4, CurrentIsNext
  <2>6. Current.len \in Nat
    BY <2>5 DEF FrameType
  <2> QED BY <1>1, <2>1, <2>6
<1>4. CASE HandleClose \/ HandlePing \/ HandleOther \/ HandleText
  BY <1>0, <1>4 DEF HandleClose, HandlePing, HandleOther, HandleText,
                    Dispatching, Refuse, connection
<1>5. CASE PollClient \/ PollFails \/ ReadFails
  BY <1>0, <1>5 DEF PollClient, PollFails, ReadFails, Step, connection
<1> QED BY <1>2, <1>3, <1>4, <1>5 DEF websocket_echo_loop

LEMMA EchoStep ==
  ASSUME HttpInv, EchoLoop \/ PollBreaks
  PROVE  HttpInv'
<1>1. /\ websocket_echo_loop \/ PollFails
      /\ UNCHANGED <<storageVars, httpVars>>
  BY DEF EchoLoop, PollBreaks
<1>2. SessionType /\ SessionInv
  BY DEF HttpInv, Session
<1>3. /\ wsPc # "none" /\ wsPc' # "none" /\ left' = left /\ frames' = frames
      /\ Len(pending') <= Len(pending)
  BY <1>1, <1>2, EchoFrame
<1>4. Session'
  BY <1>1, <1>2, SessionStep DEF Session
<1>5. /\ httpPc' = httpPc /\ request' = request /\ used' = used
      /\ answer' = answer /\ promised' = promised /\ served' = served
      /\ uploads' = uploads /\ created' = created
      /\ fsPc' = fsPc /\ ret' = ret
  BY <1>1 DEF httpVars, answering, storageVars, stream
<1>6. HttpType /\ PcInv /\ RequestInv /\ StreamInv
  BY DEF HttpInv, Talk, Work
<1>7. /\ httpPc = "accept" /\ request # NoRequest /\ served = <<>>
      /\ answer # 201
  BY <1>3, <1>6 DEF PcInv, StreamInv
<1>8. Disk'
  BY <1>1, <1>5, UploadsNat, DiskKept DEF HttpInv
<1>9. HttpType'
  <2>1. Len(pending') <= used'
    <3>1. /\ Len(pending) \in Nat /\ Len(pending') \in Nat /\ used \in Nat
          /\ Len(pending) <= used
      BY <1>2, <1>4, <1>6, HttpServerAssumption DEF HttpType, Session, SessionType
    <3> QED BY <1>3, <1>5, <3>1
  <2> QED BY <1>3, <1>5, <1>6, <2>1 DEF HttpType
<1>10. PcInv'
  BY <1>3, <1>5, <1>6, <1>7 DEF PcInv
<1>11. RequestInv'
  BY <1>3, <1>5, <1>6, <1>7 DEF RequestInv
<1>12. Work'
  BY <1>5, <1>7, NoWork
<1> QED BY <1>4, <1>8, <1>9, <1>10, <1>11, <1>12 DEF HttpInv, Talk

-----------------------------------------------------------------------------
(* The routes.                                                             *)

\* Of no frame at all, nothing is sent.
LEMMA SentNothing == ASSUME NEW fs PROVE SentOf(fs, 0) = <<>>
<1> DEFINE f == [n \in 1..0 |-> WireOf(fs, n)]
           g == [i \in 1..0 |-> <<>>]
<1>1. 0 \in Nat /\ \A i \in 1..0 : f[i] \in Seq(Pairs)
  OBVIOUS
<1>2. g \in [1..0 -> Seq(Pairs)] /\ Flattens(g, f, 0)
  BY DEF Flattens
<1>3. [n \in 1..0 |-> f[n]] = [n \in 1..0 |-> WireOf(fs, n)]
  OBVIOUS
<1> HIDE DEF f, g
<1>4. FlattenFirst(f, 0) = <<>>
  BY <1>1, <1>2, FlattenIs
<1> QED BY <1>3, <1>4 DEF FlattenFirst, SentOf

\* The HTTP thread at a route: nothing is under way.
LEMMA AtRoute ==
  ASSUME HttpInv, NEW lines, Route(lines)
  PROVE  /\ request \in Requests /\ request # NoRequest /\ request.line \in lines
         /\ wsPc = "none" /\ replies = <<>> /\ got = <<>>
         /\ fsPc = "idle" /\ ret = "ok" /\ served = <<>> /\ answer # 201
         /\ uploads' = uploads /\ uploads \in Nat /\ request' = request
         /\ pending' = pending /\ socket' = socket /\ left' = left
         /\ used' = used /\ created' = created
         /\ Behind(Inbox, 0, Payload(request, uploads))
<1>1. /\ httpPc = "route" /\ request.line \in lines
      /\ UNCHANGED <<connection, request, used, uploads, created>>
  BY DEF Route
<1>2. PcInv /\ RequestInv /\ HttpType /\ SessionInv /\ StreamInv
  BY DEF HttpInv, Talk, Session, Work
<1>3. wsPc = "none" /\ request # NoRequest /\ fsPc = "idle" /\ answer # 201
  BY <1>1, <1>2 DEF PcInv
<1>4. ret = "ok" /\ served = <<>> /\ request \in Requests
  BY <1>1, <1>2, <1>3 DEF PcInv, StreamInv, HttpType
<1>5. replies = <<>> /\ got = <<>>
  BY <1>2, <1>3 DEF SessionInv
<1>6. Behind(Inbox, 0, Payload(request, uploads))
  BY <1>1, <1>2 DEF RequestInv
<1> QED BY <1>1, <1>3, <1>4, <1>5, <1>6, UploadsNat DEF connection

\* The request goes to one of its routes other than a session.
LEMMA Routed ==
  ASSUME HttpInv, NEW lines, Route(lines), UNCHANGED <<wsVars, served>>,
         httpPc' \in {"send", "close", "writing", "send_header"},
         answer' \in Statuses, answer' # 201, promised' \in 0..Capacity,
         httpPc' # "writing" => fsPc' = "idle" /\ ret' = "ok",
         httpPc' = "writing" =>
           (fsPc' = "dir" /\ ret' = "ok") \/ fsPc' = "return"
  PROVE  Session' /\ Talk' /\ served' = <<>>
<1>1. /\ request \in Requests /\ request # NoRequest
      /\ wsPc = "none" /\ served = <<>>
      /\ uploads' = uploads /\ request' = request
      /\ pending' = pending /\ socket' = socket /\ left' = left
      /\ used' = used /\ created' = created
  BY AtRoute
<1>2. Session'
  <2>1. UNCHANGED <<connection, wsVars>>
    BY DEF Route
  <2> QED BY <2>1, SessionKept DEF HttpInv
<1>3. HttpType /\ RequestInv
  BY DEF HttpInv, Talk
<1>4. frames' = frames /\ wsPc' = "none" /\ served' = <<>>
  BY <1>1 DEF wsVars
<1>5. HttpType'
  <2>1. <<>> \in Seq(Bytes) /\ httpPc' \in HttpPcs
    BY DEF HttpPcs
  <2> QED BY <1>1, <1>3, <1>4, <2>1 DEF HttpType
<1>6. PcInv'
  BY <1>1, <1>4 DEF PcInv, WritePcs
<1>7. RequestInv'
  BY <1>1, <1>3, <1>4 DEF RequestInv
<1> QED BY <1>2, <1>4, <1>5, <1>6, <1>7 DEF Talk

\* Routes whose answer nothing hangs on but the status.
LEMMA PlainStep ==
  ASSUME HttpInv, GetIcon \/ GetIndex \/ NotFound
  PROVE  HttpInv'
<1>1. PICK lines : Route(lines)
  BY DEF GetIcon, GetIndex, NotFound
<1>2. /\ UNCHANGED <<wsVars, storageVars, promised, served>>
      /\ answer' \in {204, 200, 404} /\ httpPc' = "send"
  BY DEF GetIcon, GetIndex, NotFound, Finish
<1>3. fsPc = "idle" /\ ret = "ok" /\ uploads' = uploads /\ uploads \in Nat
  BY <1>1, AtRoute
<1>4. fsPc' = "idle" /\ ret' = "ok"
  BY <1>2, <1>3 DEF storageVars, stream
<1>5. Disk'
  BY <1>2, <1>3, DiskKept DEF HttpInv
<1>6. answer' \in Statuses /\ answer' # 201 /\ promised' \in 0..Capacity
  BY <1>2 DEF Statuses, HttpInv, Talk, HttpType
<1>7. Session' /\ Talk' /\ served' = <<>>
  BY <1>1, <1>2, <1>4, <1>6, Routed
<1>8. Work'
  BY <1>2, <1>6, <1>7, NoWork
<1> QED BY <1>5, <1>7, <1>8 DEF HttpInv

\* An upgrade: the session begins at the first frame, in what is pending.
LEMMA UpgradeStep ==
  ASSUME HttpInv, Upgrade
  PROVE  HttpInv'
<1>1. /\ Route({"can"})
      /\ UNCHANGED <<frames, got, replies, storageVars, answering>>
      /\ \/ httpPc' = "close" /\ wsPc' = wsPc
         \/ wsPc' = "poll" /\ httpPc' = "accept"
  BY DEF Upgrade
<1>2. /\ request \in Requests /\ request # NoRequest /\ request.line = "can"
      /\ wsPc = "none" /\ replies = <<>> /\ got = <<>>
      /\ fsPc = "idle" /\ ret = "ok" /\ served = <<>> /\ answer # 201
      /\ uploads' = uploads /\ uploads \in Nat /\ request' = request
      /\ pending' = pending /\ socket' = socket /\ left' = left
      /\ used' = used /\ created' = created
      /\ Behind(Inbox, 0, Payload(request, uploads))
  BY <1>1, AtRoute
<1>3. /\ frames' = frames /\ got' = <<>> /\ replies' = <<>>
      /\ answer' = answer /\ promised' = promised /\ served' = served
      /\ fsPc' = fsPc /\ ret' = ret
  BY <1>1, <1>2 DEF answering, storageVars, stream
<1>4. HttpType /\ RequestInv /\ SessionType
  BY DEF HttpInv, Talk, Session
<1>5. Disk'
  BY <1>1, <1>2, DiskKept DEF HttpInv
<1>6. HttpType'
  <2>1. httpPc' \in HttpPcs
    BY <1>1 DEF HttpPcs
  <2> QED BY <1>2, <1>3, <1>4, <2>1 DEF HttpType
<1>7. PcInv'
  BY <1>1, <1>2, <1>3 DEF PcInv
<1>8. RequestInv'
  BY <1>1, <1>2, <1>3, <1>4 DEF RequestInv
<1>9. Work'
  BY <1>1, <1>2, <1>3, NoWork
<1>10. Session'
  <2>1. CASE wsPc' = wsPc
    BY <1>2, <1>3, <1>4, <2>1, NoSession DEF SessionType
  <2>2. CASE wsPc' = "poll"
    <3>1. frames = request.frames
      BY <1>2, <1>4 DEF RequestInv
    <3>2. Payload(request, uploads) = SentOf(frames, Len(frames))
      BY <1>2, <3>1, PayloadBytes
    <3>3. Inbox' = Inbox
      BY <1>2 DEF Inbox
    <3>4. Len(SentOf(frames, 0)) + 0 = 0
      BY SentNothing
    <3>5. Len(replies') = 0 /\ ReadOf' = 0
      BY <1>3, <2>2 DEF ReadOf, Reading
    <3>6. AtFrame'
      <4>1. Behind(Inbox', Len(SentOf(frames, 0)) + 0,
                   SentOf(frames, Len(frames)))
        BY <1>2, <3>2, <3>3, <3>4
      <4>2. 0 <= Len(frames) /\ \A n \in 1..0 : FALSE
        BY <1>4 DEF SessionType
      <4> QED BY <1>3, <3>5, <4>1, <4>2 DEF AtFrame
    <3>7. AtPart' /\ OneAnswerEach'
      BY <1>3, <2>2 DEF AtPart, OneAnswerEach
    <3>8. SessionInv'
      BY <2>2, <3>6, <3>7 DEF SessionInv
    <3>9. SessionType'
      <4>1. <<>> \in Seq(Pairs) /\ <<>> \in Seq(ReplyType)
        OBVIOUS
      <4> QED BY <1>2, <1>3, <1>4, <2>2, <4>1 DEF SessionType
    <3> QED BY <3>8, <3>9 DEF Session
  <2> QED BY <1>1, <2>1, <2>2
<1> QED BY <1>5, <1>6, <1>7, <1>8, <1>9, <1>10 DEF HttpInv, Talk

\* A step that changes nothing.
LEMMA StutterStep ==
  ASSUME HttpInv, UNCHANGED vars
  PROVE  HttpInv'
<1>1. /\ UNCHANGED <<connection, wsVars>> /\ UNCHANGED storageVars
      /\ UNCHANGED httpVars
  BY DEF vars
<1>2. /\ httpPc' = httpPc /\ request' = request /\ used' = used
      /\ answer' = answer /\ promised' = promised /\ served' = served
      /\ uploads' = uploads /\ created' = created
      /\ pending' = pending /\ socket' = socket /\ left' = left
      /\ frames' = frames /\ wsPc' = wsPc
      /\ page' = page /\ file' = file /\ fsPc' = fsPc
      /\ remaining' = remaining /\ buf' = buf /\ ret' = ret
  BY <1>1 DEF httpVars, answering, connection, wsVars, storageVars, flash, stream
<1>3. Disk'
  BY <1>1, <1>2, UploadsNat, DiskKept DEF HttpInv
<1>4. Session'
  BY <1>1, SessionKept DEF HttpInv
<1>5. HttpType' /\ PcInv'
  BY <1>2 DEF HttpInv, Talk, HttpType, PcInv
<1>6. RequestInv'
  BY <1>2 DEF HttpInv, Talk, RequestInv, Inbox
<1>7. WriteInv'
  BY <1>2 DEF HttpInv, Work, WriteInv, WriteProgress, Inbox, Announced
<1>8. StreamInv' /\ ServedAsPromised' /\ CreatedWhole'
  BY <1>2 DEF HttpInv, Work, StreamInv, StreamProgress, ServedAsPromised,
              CreatedWhole
<1> QED BY <1>3, <1>4, <1>5, <1>6, <1>7, <1>8 DEF HttpInv, Talk, Work

-----------------------------------------------------------------------------
(* The routes that use the file system.                                    *)

\* storage_mount_once, with or without a look at the space: mounted is what
\* it says, and nothing else is touched.
LEMMA DiskMounted ==
  ASSUME HttpInv, fsPc = "idle", NEW r, MountOnce(r),
         update_space_locked(PageBytes) \/ UNCHANGED space,
         UNCHANGED <<flash, file, buf, uploads>>,
         remaining' \in 0..USER_INDEX_MAX, ret' \in {"ok", "error"},
         \/ fsPc' \in {"idle", "return"}
         \/ r = "ok" /\ fsPc' \in {"stream_open", "dir"}
  PROVE  Disk'
<1>1. StorageType /\ FileInv /\ MountInv /\ PageSound
  BY DEF HttpInv, Disk
<1>2. /\ user_dir' = user_dir /\ page' = page /\ file' = file /\ buf' = buf
      /\ uploads' = uploads
  BY DEF flash
<1>3. mount_attempted' = TRUE /\ mounted' \in BOOLEAN
      /\ mount_ret' \in {"ENODEV", "ok", "error"}
  <2>1. CASE mount_attempted
    BY <1>1, <2>1 DEF MountOnce, StorageType
  <2>2. CASE ~mount_attempted
    BY <2>2 DEF MountOnce
  <2> QED BY <2>1, <2>2
<1>4. (mount_ret' = "ok" => mounted') /\ (r = "ok" => mounted')
  <2>1. CASE mount_attempted
    BY <1>1, <2>1 DEF MountOnce, MountInv, RememberedRet
  <2>2. CASE ~mount_attempted
    BY <2>2 DEF MountOnce
  <2> QED BY <2>1, <2>2
<1>5. total_kib' \in {0, Capacity} /\ free_kib' \in 0..Capacity
  <2>1. Len(PageBytes) \in 0..Capacity
    <3>1. CASE page = NoPage
      BY <3>1, UserStorageAssumption DEF PageBytes
    <3>2. CASE page # NoPage
      BY <3>2, <1>1, UserStorageAssumption DEF PageBytes, StorageType, FileInv
    <3> QED BY <3>1, <3>2
  <2>2. Capacity - Len(PageBytes) \in 0..Capacity /\ 0 \in 0..Capacity
    BY <2>1, UserStorageAssumption
  <2>3. CASE update_space_locked(PageBytes)
    BY <2>2, <2>3 DEF update_space_locked
  <2>4. CASE UNCHANGED space
    BY <1>1, <2>4 DEF space, StorageType
  <2> QED BY <2>3, <2>4
<1>6. fsPc' \in {"idle", "return", "stream_open", "dir"}
  OBVIOUS
<1>7. StorageType'
  <2>1. fsPc' \in FsPcs
    BY <1>6 DEF FsPcs
  <2> QED BY <1>1, <1>2, <1>3, <1>5, <2>1 DEF StorageType
<1>8. FileInv'
  BY <1>1, <1>2, <1>6 DEF FileInv
<1>9. MountInv'
  BY <1>4 DEF MountInv, MountedFirst
<1>10. PageSound'
  BY <1>1, <1>2 DEF PageSound
<1> QED BY <1>7, <1>8, <1>9, <1>10 DEF Disk

LEMMA StatusStep ==
  ASSUME HttpInv, GetFsStatus
  PROVE  HttpInv'
<1>1. /\ Route({"status"}) /\ UNCHANGED <<wsVars, promised, served>>
      /\ answer' = 200 /\ httpPc' = "send"
  BY DEF GetFsStatus, Finish
<1>2. PICK r \in {"ok", "error"} : MountOnce(r)
  BY DEF GetFsStatus, storage_format_status_json
<1>3. update_space_locked(PageBytes) /\ UNCHANGED <<flash, stream>>
  BY DEF GetFsStatus, storage_format_status_json
<1>4. fsPc = "idle" /\ ret = "ok" /\ uploads' = uploads
  BY <1>1, AtRoute
<1>5. /\ fsPc' = "idle" /\ ret' = "ok" /\ file' = file /\ buf' = buf
      /\ remaining' = remaining /\ flash' = flash
  BY <1>3, <1>4 DEF stream
<1>6. Disk'
  <2>1. remaining' \in 0..USER_INDEX_MAX
    BY <1>5 DEF HttpInv, Disk, StorageType
  <2> QED BY <1>2, <1>3, <1>4, <1>5, <2>1, DiskMounted
<1>7. answer' \in Statuses /\ answer' # 201 /\ promised' \in 0..Capacity
  BY <1>1 DEF Statuses, HttpInv, Talk, HttpType
<1>8. Session' /\ Talk' /\ served' = <<>>
  BY <1>1, <1>5, <1>7, Routed
<1>9. Work'
  BY <1>1, <1>7, <1>8, NoWork
<1> QED BY <1>6, <1>8, <1>9 DEF HttpInv

\* The size that was looked up is what the answer promises.
LEMMA UserPageStep ==
  ASSUME HttpInv, GetUserPage
  PROVE  HttpInv'
<1>1. PICK size \in {NoSize} \cup 0..Capacity :
        /\ storage_user_index_size(size)
        /\ promised' = IF size = NoSize THEN 0 ELSE size
        /\ IF size = NoSize THEN Finish(404)
           ELSE IF TooLarge(size) THEN Finish(413)
           ELSE answer' = 200 /\ httpPc' = "send_header"
  BY DEF GetUserPage
<1>2. Route({"user"}) /\ UNCHANGED <<wsVars, served>>
  BY DEF GetUserPage
<1>3. PICK r \in {"ok", "error"} :
        /\ storage_mount_once(r)
        /\ size \in {NoSize} \cup
             (IF r = "ok" /\ page # NoPage THEN {Len(page)} ELSE {})
  BY <1>1 DEF storage_user_index_size
<1>4. UNCHANGED <<flash, stream>>
  BY <1>1 DEF storage_user_index_size
<1>5. fsPc = "idle" /\ ret = "ok" /\ uploads' = uploads
  BY <1>2, AtRoute
<1>6. /\ fsPc' = "idle" /\ ret' = "ok" /\ file' = file /\ buf' = buf
      /\ remaining' = remaining /\ flash' = flash /\ page' = page
  BY <1>4, <1>5 DEF stream, flash
<1>7. Disk'
  <2>1. remaining' \in 0..USER_INDEX_MAX
    BY <1>6 DEF HttpInv, Disk, StorageType
  <2>2. MountOnce(r) /\ (update_space_locked(PageBytes) \/ UNCHANGED space)
    BY <1>3 DEF storage_mount_once
  <2> QED BY <1>4, <1>5, <1>6, <2>1, <2>2, DiskMounted
<1>8. /\ answer' \in {404, 413, 200} /\ httpPc' \in {"send", "send_header"}
      /\ promised' \in 0..Capacity
  BY <1>1, UserStorageAssumption DEF Finish
<1>9. httpPc' = "send_header" => page' # NoPage /\ promised' = Len(page')
  BY <1>1, <1>3, <1>6 DEF Finish
<1>10. answer' \in Statuses /\ answer' # 201
  BY <1>8 DEF Statuses
<1>11. Session' /\ Talk' /\ served' = <<>>
  BY <1>2, <1>6, <1>8, <1>10, Routed
<1>12. Work'
  BY <1>8, <1>9, <1>10, <1>11
     DEF Work, WriteInv, StreamInv, CreatedWhole, ServedAsPromised
<1> QED BY <1>7, <1>11, <1>12 DEF HttpInv

\* An upload that is refused, or begins.
LEMMA PutStep ==
  ASSUME HttpInv, PutUserPage
  PROVE  HttpInv'
<1>1. Route({"put"}) /\ UNCHANGED <<wsVars, promised, served>>
  BY DEF PutUserPage
<1>2. /\ request \in Requests /\ request.line = "put" /\ request' = request
      /\ fsPc = "idle" /\ ret = "ok" /\ answer # 201
      /\ uploads' = uploads /\ uploads \in Nat
      /\ pending' = pending /\ socket' = socket
      /\ Behind(Inbox, 0, Payload(request, uploads))
  BY <1>1, AtRoute
<1>3. promised' \in 0..Capacity
  BY <1>1 DEF HttpInv, Talk, HttpType
<1>4. CASE Refusal(request) # NoAnswer
  <2>1. Finish(Refusal(request)) /\ UNCHANGED storageVars
    BY <1>4 DEF PutUserPage
  <2>2. Refusal(request) \in {400, 411, 413}
    BY <1>4 DEF Refusal
  <2>3. answer' \in {400, 411, 413} /\ httpPc' = "send"
    BY <2>1, <2>2 DEF Finish
  <2>4. answer' \in Statuses /\ answer' # 201
    BY <2>3 DEF Statuses
  <2>5. fsPc' = "idle" /\ ret' = "ok"
    BY <1>2, <2>1 DEF storageVars, stream
  <2>6. Disk'
    BY <1>2, <2>1, DiskKept DEF HttpInv
  <2>7. Session' /\ Talk' /\ served' = <<>>
    BY <1>1, <1>3, <2>3, <2>4, <2>5, Routed
  <2>8. Work'
    BY <2>3, <2>4, <2>7, NoWork
  <2> QED BY <2>6, <2>7, <2>8 DEF HttpInv
<1>5. CASE Refusal(request) = NoAnswer
  <2>1. /\ WriteStart(Announced) /\ httpPc' = "writing" /\ answer' = answer
    BY <1>5 DEF PutUserPage, Announced
  <2>2. /\ LengthDigits(request) \in Seq(Digits)
        /\ Announced \in 0..USER_INDEX_MAX
    BY <1>2, <1>5, NotRefused DEF Announced
  <2>3. PICK r \in {"ok", "error"} :
          /\ storage_mount_once(r)
          /\ IF r = "ok" THEN fsPc' = "dir" /\ ret' = ret
                         ELSE fsPc' = "return" /\ ret' = r
    BY <2>1 DEF WriteStart, Goto, Return
  <2>4. remaining' = Announced /\ UNCHANGED <<flash, file, buf>>
    BY <2>1 DEF WriteStart
  <2>5. Disk'
    <3>1. MountOnce(r) /\ (update_space_locked(PageBytes) \/ UNCHANGED space)
      BY <2>3 DEF storage_mount_once
    <3>2. \/ fsPc' = "return" /\ ret' = "error"
          \/ r = "ok" /\ fsPc' = "dir" /\ ret' = "ok"
      BY <1>2, <2>3
    <3> QED BY <1>2, <2>2, <2>4, <3>1, <3>2, DiskMounted
  <2>6. \/ fsPc' = "dir" /\ ret' = "ok"
        \/ fsPc' = "return" /\ ret' = "error"
    BY <1>2, <2>3
  <2>7. Session' /\ Talk' /\ served' = <<>>
    <3>1. answer' \in Statuses /\ answer' # 201
      BY <1>2, <2>1 DEF HttpInv, Talk, HttpType
    <3> QED BY <1>1, <1>3, <2>1, <2>6, <3>1, Routed
  <2>8. file = NoFile /\ buf = <<>>
    BY <1>2 DEF HttpInv, Disk, FileInv
  <2>9. file'.pos + Len(buf') = 0
    BY <2>4, <2>8 DEF NoFile
  <2>10. Inbox' = Inbox /\ Announced' = Announced
         /\ LengthDigits(request)' = LengthDigits(request)
    BY <1>2 DEF Inbox, Announced
  <2>11. WriteInv'
    <3>1. Announced <= USER_INDEX_MAX /\ 0 + remaining' = Announced
      BY <2>2, <2>4, HttpServerAssumption
    <3> QED BY <1>2, <2>2, <2>6, <2>9, <2>10, <3>1 DEF WriteInv, WriteProgress
  <2>12. StreamInv' /\ ServedAsPromised'
    BY <2>1, <2>7 DEF StreamInv, ServedAsPromised
  <2>13. CreatedWhole'
    BY <1>2, <2>1 DEF CreatedWhole
  <2> QED BY <2>5, <2>7, <2>11, <2>12, <2>13 DEF HttpInv, Work
<1> QED BY <1>4, <1>5

LEMMA RouteStep == ASSUME HttpInv, handle_client PROVE HttpInv'
BY PlainStep, UpgradeStep, StatusStep, UserPageStep, PutStep DEF handle_client

-----------------------------------------------------------------------------
(* An upload.                                                              *)

\* The HTTP thread inside storage.c, with a client that may have more to send.
LEMMA TalkKept ==
  ASSUME HttpInv, httpPc \in {"writing", "streaming"}, httpPc' = httpPc,
         UNCHANGED <<wsVars, left, request, used, answer, promised, uploads,
                     created>>,
         served' \in Seq(Bytes),
         pending' \in Seq(Pairs), socket' \in Seq(Pairs),
         Len(pending') <= Len(pending),
         httpPc = "writing" => fsPc' \in WritePcs \cup {"return"},
         httpPc = "streaming" => fsPc' \in StreamPcs \cup {"return"},
         fsPc' \notin {"close", "stream_close", "return"} => ret' = "ok"
  PROVE  Session' /\ Talk'
<1>1. HttpType /\ PcInv /\ RequestInv /\ SessionType /\ SessionInv
  BY DEF HttpInv, Talk, Session
<1>2. /\ wsPc = "none" /\ request # NoRequest /\ answer # 201
  BY <1>1 DEF PcInv
<1>3. /\ wsPc' = "none" /\ frames' = frames /\ got' = <<>> /\ replies' = <<>>
  BY <1>1, <1>2 DEF wsVars, SessionInv
<1>4. Session'
  BY <1>1, <1>3, NoSession DEF SessionType
<1>5. HttpType'
  <2>1. Len(pending') <= used'
    <3>1. /\ Len(pending) \in Nat /\ Len(pending') \in Nat /\ used \in Nat
          /\ Len(pending) <= used
      BY <1>1, HttpServerAssumption DEF HttpType, SessionType
    <3> QED BY <3>1
  <2> QED BY <1>1, <2>1 DEF HttpType
<1>6. PcInv'
  BY <1>2, <1>3 DEF PcInv, WritePcs, StreamPcs
<1>7. RequestInv'
  BY <1>1, <1>2, <1>3 DEF RequestInv
<1> QED BY <1>4, <1>5, <1>6, <1>7 DEF Talk

\* A step of storage.c while mounted: what is on flash stays, or becomes the
\* beginning of the upload under way.
LEMMA DiskStep ==
  ASSUME HttpInv, fsPc \notin {"idle", "return"}, fsPc' \in FsPcs,
         UNCHANGED <<mount, uploads>>,
         total_kib' \in {0, Capacity}, free_kib' \in 0..Capacity,
         user_dir' \in BOOLEAN,
         NEW m \in Nat, m <= USER_INDEX_MAX, m <= Capacity,
         page' = page \/ (page' = Upload(uploads, m) /\ uploads >= 1),
         file' \in FileType, remaining' \in 0..USER_INDEX_MAX,
         buf' \in Seq(Bytes), Len(buf') <= STORAGE_IO_CHUNK,
         ret' \in {"ok", "error"},
         fsPc' \notin {"write", "writer"} => buf' = <<>>,
         fsPc' \in {"idle", "dir", "open", "stream_open", "return"} =>
           file' = NoFile
  PROVE  Disk'
<1>1. StorageType /\ FileInv /\ MountInv /\ PageSound /\ uploads \in Nat
  BY UploadsNat DEF HttpInv, Disk
<1>2. /\ mount_attempted' = mount_attempted /\ mounted' = mounted
      /\ mount_ret' = mount_ret /\ uploads' = uploads
  BY DEF mount
<1>3. MountInv'
  BY <1>1, <1>2 DEF MountInv, MountedFirst
<1>4. /\ page' \in Seq(Bytes) \cup {NoPage}
      /\ page' # NoPage => Len(page') <= Capacity
      /\ PageSound'
  <2>1. CASE page' = page
    BY <1>1, <1>2, <2>1 DEF StorageType, FileInv, PageSound
  <2>2. CASE page' = Upload(uploads, m) /\ uploads >= 1
    <3>1. Upload(uploads, m) \in Seq(Pairs) /\ Len(Upload(uploads, m)) = m
      BY <1>1, UploadBytes
    <3>2. Pairs = Bytes
      BY DEF Pairs, Bytes
    <3>3. uploads \in 1..uploads
      BY <1>1, <2>2
    <3>4. PageSound'
      BY <1>2, <2>2, <3>1, <3>3 DEF PageSound
    <3> QED BY <2>2, <3>1, <3>2, <3>4
  <2> QED BY <2>1, <2>2
<1>5. StorageType'
  BY <1>1, <1>2, <1>4 DEF StorageType
<1>6. FileInv'
  BY <1>4 DEF FileInv
<1> QED BY <1>3, <1>4, <1>5, <1>6 DEF Disk

\* What is so whenever an upload is under way.
LEMMA AtWriting ==
  ASSUME HttpInv, httpPc = "writing"
  PROVE  /\ request \in Requests /\ request.line = "put"
         /\ uploads \in Nat /\ uploads >= 1
         /\ LengthDigits(request) \in Seq(Digits)
         /\ Announced \in 0..USER_INDEX_MAX /\ Announced \in Nat
         /\ answer # 201 /\ served = <<>>
         /\ pending \in Seq(Pairs) /\ socket \in Seq(Pairs)
         /\ Inbox \in Seq(Pairs)
         /\ file.pos \in Nat /\ file.pos <= Capacity /\ remaining \in Nat
         /\ buf \in Seq(Pairs) /\ Len(buf) <= STORAGE_IO_CHUNK
         /\ WriteProgress
<1>1. HttpType /\ PcInv /\ RequestInv /\ SessionType /\ WriteInv /\ StreamInv
      /\ StorageType
  BY DEF HttpInv, Talk, Session, Work, Disk
<1>2. request # NoRequest /\ answer # 201
  BY <1>1 DEF PcInv
<1>3. /\ request \in Requests /\ request.line = "put" /\ uploads >= 1
      /\ served = <<>> /\ LengthDigits(request) \in Seq(Digits)
      /\ Announced <= USER_INDEX_MAX /\ WriteProgress
  BY <1>1, <1>2 DEF HttpType, WriteInv, RequestInv, StreamInv
<1>4. Announced \in Nat
  BY <1>3, BodyLenDeclared DEF Announced
<1>5. Announced \in 0..USER_INDEX_MAX
  BY <1>3, <1>4, HttpServerAssumption
<1>6. pending \in Seq(Pairs) /\ socket \in Seq(Pairs)
  BY <1>1 DEF SessionType
<1>7. Inbox \in Seq(Pairs)
  BY <1>6 DEF Inbox
<1>8. file.pos \in Nat /\ file.pos <= Capacity
  <2>1. file.pos \in 0..Capacity
    BY <1>1 DEF StorageType, FileType
  <2> QED BY <2>1, UserStorageAssumption
<1>9. remaining \in Nat /\ buf \in Seq(Pairs) /\ Len(buf) <= STORAGE_IO_CHUNK
  BY <1>1, HttpServerAssumption DEF StorageType, Bytes, Pairs
<1> QED BY <1>2, <1>3, <1>4, <1>5, <1>6, <1>7, <1>8, <1>9, UploadsNat

\* A step of an upload is one of storage.c that keeps to the page.
LEMMA WriteStep ==
  ASSUME HttpInv, httpPc = "writing", UNCHANGED <<wsVars, httpVars, left>>,
         pending' \in Seq(Pairs), socket' \in Seq(Pairs),
         Len(pending') <= Len(pending),
         fsPc' \in WritePcs \cup {"return"},
         fsPc' \notin {"close", "return"} => ret' = "ok",
         Disk', WriteProgress'
  PROVE  HttpInv'
<1>1. /\ httpPc' = httpPc /\ request' = request /\ used' = used
      /\ answer' = answer /\ promised' = promised /\ served' = served
      /\ uploads' = uploads /\ created' = created /\ left' = left
      /\ wsVars' = wsVars
  BY DEF httpVars, answering
<1>2. /\ request.line = "put" /\ LengthDigits(request) \in Seq(Digits)
      /\ Announced \in 0..USER_INDEX_MAX /\ answer # 201 /\ served = <<>>
  BY AtWriting
<1>3. Session' /\ Talk'
  <2>1. <<>> \in Seq(Bytes)
    OBVIOUS
  <2> QED BY <1>1, <1>2, <2>1, TalkKept
<1>4. WriteInv'
  <2>1. Announced' = Announced /\ LengthDigits(request)' = LengthDigits(request)
    BY <1>1 DEF Announced
  <2>2. Announced <= USER_INDEX_MAX
    BY <1>2, HttpServerAssumption
  <2> QED BY <1>1, <1>2, <2>1, <2>2 DEF WriteInv
<1>5. StreamInv' /\ ServedAsPromised' /\ CreatedWhole'
  BY <1>1, <1>2 DEF StreamInv, ServedAsPromised, CreatedWhole
<1> QED BY <1>3, <1>4, <1>5 DEF HttpInv, Work

\* A step of storage.c alone, in an upload.
LEMMA WriteAlone ==
  ASSUME HttpInv, httpPc = "writing", UNCHANGED <<connection, wsVars, httpVars>>,
         fsPc' \in WritePcs \cup {"return"},
         fsPc' \notin {"close", "return"} => ret' = "ok",
         Disk', WriteProgress'
  PROVE  HttpInv'
<1>1. pending \in Seq(Pairs) /\ socket \in Seq(Pairs)
  BY AtWriting
<1>2. /\ pending' = pending /\ socket' = socket
      /\ UNCHANGED <<wsVars, httpVars, left>>
  BY DEF connection
<1>3. Len(pending') <= Len(pending)
  BY <1>1, <1>2
<1> QED BY <1>1, <1>2, <1>3, WriteStep

\* What of it a step leaves as it is.
LEMMA AloneKeeps ==
  ASSUME HttpInv, httpPc = "writing", UNCHANGED <<connection, wsVars, httpVars>>
  PROVE  /\ Inbox' = Inbox /\ Announced' = Announced /\ uploads' = uploads
         /\ Payload(request, uploads)' = Payload(request, uploads)
BY DEF Inbox, Announced, connection, httpVars

\* While it writes, the HTTP thread is in an upload.
LEMMA InUpload ==
  ASSUME HttpInv, fsPc \in WritePcs
  PROVE  httpPc = "writing"
<1>1. PcInv
  BY DEF HttpInv, Talk
<1> QED BY <1>1 DEF PcInv, WritePcs, StreamPcs

\* The types of storage.c, for DiskStep.
LEMMA DiskTypes ==
  ASSUME HttpInv
  PROVE  /\ total_kib \in {0, Capacity} /\ free_kib \in 0..Capacity
         /\ user_dir \in BOOLEAN /\ page \in Seq(Bytes) \cup {NoPage}
         /\ file \in FileType /\ remaining \in 0..USER_INDEX_MAX
         /\ buf \in Seq(Bytes) /\ Len(buf) <= STORAGE_IO_CHUNK
         /\ ret \in {"ok", "error"} /\ NoFile \in FileType
         /\ fsPc \notin {"write", "writer"} => buf = <<>>
         /\ fsPc \in {"idle", "dir", "open", "stream_open", "return"} =>
              file = NoFile
         /\ 0 \in Nat /\ 0 <= USER_INDEX_MAX /\ 0 <= Capacity
<1>1. StorageType /\ FileInv
  BY DEF HttpInv, Disk
<1>2. 0 <= USER_INDEX_MAX /\ 0 <= Capacity /\ 0 \in 0..Capacity
  BY HttpServerAssumption, UserStorageAssumption
<1>3. NoFile \in FileType
  <2>1. <<>> \in Seq(Bytes)
    OBVIOUS
  <2> QED BY <1>2, <2>1 DEF NoFile, FileType
<1> QED BY <1>1, <1>2, <1>3 DEF StorageType, FileInv

\* No byte of it yet.
LEMMA NoUpload == ASSUME NEW u \in Nat PROVE Upload(u, 0) = <<>>
BY DEF Upload

LEMMA DirStep ==
  ASSUME HttpInv, WriteDir, UNCHANGED <<connection, wsVars, httpVars>>
  PROVE  HttpInv'
<1>1. /\ fsPc = "dir" /\ UNCHANGED <<page, mount, space, file, remaining, buf>>
      /\ \/ user_dir' = TRUE /\ fsPc' = "open" /\ ret' = ret
         \/ user_dir' = user_dir /\ ret' = "error" /\ fsPc' = "return"
  BY DEF WriteDir, Goto, Return
<1>2. httpPc = "writing"
  BY <1>1, InUpload DEF WritePcs
<1>3. ret = "ok"
  BY <1>1 DEF HttpInv, Talk, PcInv
<1>4. fsPc' \in {"open", "return"} /\ (fsPc' = "return" => ret' = "error")
      /\ ret' \in {"ok", "error"} /\ (fsPc' = "open" => ret' = "ok")
  BY <1>1, <1>3
<1>5. Disk'
  <2>1. total_kib' = total_kib /\ free_kib' = free_kib /\ uploads' = uploads
    BY <1>1 DEF space, httpVars
  <2>2. buf = <<>> /\ file = NoFile
    BY <1>1, DiskTypes
  <2>3. fsPc' \in FsPcs /\ fsPc \notin {"idle", "return"}
    BY <1>1, <1>4 DEF FsPcs
  <2>4. user_dir' \in BOOLEAN
    BY <1>1, DiskTypes
  <2> QED BY <1>1, <1>4, <2>1, <2>2, <2>3, <2>4, DiskTypes, DiskStep
<1>6. WriteProgress'
  <2>1. WriteProgress
    BY <1>2, AtWriting
  <2>2. /\ Inbox' = Inbox /\ Announced' = Announced /\ uploads' = uploads
        /\ Payload(request, uploads)' = Payload(request, uploads)
    BY <1>2, AloneKeeps
  <2> QED BY <1>1, <1>4, <2>1, <2>2 DEF WriteProgress
<1> QED BY <1>2, <1>4, <1>5, <1>6, WriteAlone DEF WritePcs

\* A file that is created is empty: none of the page is there yet.
LEMMA OpenStep ==
  ASSUME HttpInv, WriteOpen, UNCHANGED <<connection, wsVars, httpVars>>
  PROVE  HttpInv'
<1>1. /\ fsPc = "open" /\ UNCHANGED <<user_dir, mount, space, remaining, buf>>
      /\ \/ /\ file' = [NoFile EXCEPT !.open = TRUE, !.bytes = <<>>]
            /\ page' = PageBytes
            /\ fsPc' = IF remaining = 0 THEN "sync" ELSE "body"
            /\ ret' = ret
         \/ file' = file /\ page' = page /\ ret' = "error" /\ fsPc' = "return"
  BY DEF WriteOpen, Goto, Return, OpenedContent
<1>2. httpPc = "writing"
  BY <1>1, InUpload DEF WritePcs
<1>3. ret = "ok"
  BY <1>1 DEF HttpInv, Talk, PcInv
<1>4. /\ fsPc' \in {"sync", "body", "return"} /\ ret' \in {"ok", "error"}
      /\ (fsPc' = "return" => ret' = "error" /\ file' = file)
      /\ (fsPc' # "return" => ret' = "ok")
  BY <1>1, <1>3
<1>5. /\ uploads \in Nat /\ uploads >= 1 /\ remaining \in Nat /\ WriteProgress
      /\ Announced \in Nat
  BY <1>2, AtWriting
<1>6. buf = <<>> /\ file = NoFile
  BY <1>1, DiskTypes
<1>7. Disk'
  <2>1. total_kib' = total_kib /\ free_kib' = free_kib /\ uploads' = uploads
    BY <1>1 DEF space, httpVars
  <2>2. file' \in FileType
    <3>1. [NoFile EXCEPT !.open = TRUE, !.bytes = <<>>] \in FileType
      <4>1. NoFile \in FileType
        BY DiskTypes
      <4>2. <<>> \in Seq(Bytes)
        OBVIOUS
      <4> QED BY <4>1, <4>2 DEF FileType
    <3> QED BY <1>1, <3>1, DiskTypes
  <2>3. fsPc' \in FsPcs /\ fsPc \notin {"idle", "return"}
    BY <1>1, <1>4 DEF FsPcs
  <2>4. page' = page \/ (page' = Upload(uploads, 0) /\ uploads >= 1)
    <3>1. PageBytes = page \/ PageBytes = Upload(uploads, 0)
      BY <1>5, NoUpload DEF PageBytes
    <3> QED BY <1>1, <1>5, <3>1
  <2>5. buf' \in Seq(Bytes) /\ Len(buf') <= STORAGE_IO_CHUNK /\ buf' = <<>>
        /\ remaining' \in 0..USER_INDEX_MAX /\ user_dir' \in BOOLEAN
    BY <1>1, <1>6, DiskTypes
  <2> QED BY <1>1, <1>4, <1>6, <2>1, <2>2, <2>3, <2>4, <2>5, DiskTypes, DiskStep
<1>8. WriteProgress'
  <2>1. /\ Inbox' = Inbox /\ Announced' = Announced /\ uploads' = uploads
        /\ Payload(request, uploads)' = Payload(request, uploads)
    BY <1>2, AloneKeeps
  <2>2. file.pos = 0 /\ Len(buf) = 0
    BY <1>6 DEF NoFile
  <2>3. CASE fsPc' = "return"
    BY <1>4, <2>3 DEF WriteProgress
  <2>4. CASE fsPc' # "return"
    <3>1. file'.pos = 0 /\ file'.bytes = <<>>
      BY <1>1, <2>4 DEF NoFile
    <3>2. /\ fsPc' = (IF remaining = 0 THEN "sync" ELSE "body")
          /\ remaining' = remaining /\ buf' = buf
      BY <1>1, <2>4
    <3>3. /\ 0 + 0 + remaining = Announced
          /\ Behind(Inbox, 0 + 0, Payload(request, uploads))
      BY <1>1, <1>5, <2>2 DEF WriteProgress
    <3>4. file'.bytes = Upload(uploads, 0)
      BY <1>5, <3>1, NoUpload
    <3>5. CASE remaining = 0
      <4>1. fsPc' = "sync" /\ Announced = 0
        BY <3>2, <3>3, <3>5
      <4> QED BY <2>1, <3>1, <3>4, <4>1 DEF WriteProgress
    <3>6. CASE remaining # 0
      <4>1. fsPc' = "body" /\ remaining > 0 /\ 0 <= Announced
        BY <1>5, <3>2, <3>6
      <4> QED BY <1>5, <2>1, <2>2, <3>1, <3>2, <3>3, <3>4, <4>1
             DEF WriteProgress
    <3> QED BY <3>5, <3>6
  <2> QED BY <2>3, <2>4
<1> QED BY <1>2, <1>4, <1>7, <1>8, WriteAlone DEF WritePcs

\* The next chunk is the next of the page.
LEMMA BodyStep ==
  ASSUME HttpInv, ReadBody
  PROVE  HttpInv'
<1>1. PICK n \in 1..Requested :
        request_body_read(Requested, n) /\ WriteBody("ok", BodyData(n))
  BY DEF ReadBody
<1>2. UNCHANGED <<wsVars, httpVars>>
  BY DEF ReadBody
<1>3. fsPc = "body" /\ UNCHANGED <<flash, mount, space, file>>
  BY <1>1 DEF WriteBody
<1>4. httpPc = "writing"
  BY <1>3, InUpload DEF WritePcs
<1>5. /\ request \in Requests /\ request.line = "put"
      /\ uploads \in Nat /\ uploads >= 1
      /\ Announced \in Nat /\ Announced <= USER_INDEX_MAX
      /\ pending \in Seq(Pairs) /\ socket \in Seq(Pairs) /\ Inbox \in Seq(Pairs)
      /\ file.pos \in Nat /\ remaining \in Nat /\ WriteProgress
  BY <1>4, AtWriting, HttpServerAssumption
<1>6. /\ buf = <<>> /\ remaining > 0 /\ ret = "ok"
      /\ file.pos + remaining = Announced
      /\ file.bytes = Upload(uploads, file.pos)
      /\ Behind(Inbox, file.pos, Payload(request, uploads))
  <2>1. buf = <<>> /\ ret = "ok"
    BY <1>3, DiskTypes DEF HttpInv, Talk, PcInv
  <2>2. Len(buf) = 0
    BY <2>1
  <2>3. /\ file.pos + 0 + remaining = Announced
        /\ Behind(Inbox, file.pos + 0, Payload(request, uploads))
        /\ remaining > 0 /\ file.bytes = Upload(uploads, file.pos)
    BY <1>3, <1>5, <2>2 DEF WriteProgress
  <2>4. file.pos + 0 = file.pos
    BY <1>5
  <2> QED BY <2>1, <2>3, <2>4
<1>7. Requested \in Nat \ {0} /\ Requested <= remaining
      /\ Requested <= STORAGE_IO_CHUNK
  BY <1>5, <1>6, UserStorageAssumption DEF Requested, Smaller
<1>8. /\ pending' \in Seq(Pairs) /\ socket' \in Seq(Pairs)
      /\ Len(pending') <= Len(pending) /\ n <= Len(Inbox)
      /\ BodyData(n) = Take(Inbox, n) /\ Inbox' = Drop(Inbox, n)
  <2>1. n \in Nat
    BY <1>7
  <2> QED BY <1>1, <1>5, <1>7, <2>1, BodyRead
<1>9. n \in 0..Len(Inbox) /\ n \in Nat /\ n >= 1 /\ n <= Requested
  BY <1>5, <1>7, <1>8
<1> DEFINE data == Take(Inbox, n)
           w == Payload(request, uploads)
<1>10. /\ data \in Seq(Pairs) /\ Len(data) = n
       /\ \A i \in 1..n : data[i] = Inbox[i]
  BY <1>5, <1>9, TakeDrop
<1>11. w \in Seq(Pairs) /\ Len(w) = request.body
       /\ \A i \in 1..request.body : w[i] = <<uploads, i>>
  BY <1>5, PayloadBytes
<1>12. Behind(Inbox', file.pos + n, w)
  BY <1>5, <1>6, <1>8, <1>9, <1>11, BehindRest
<1>13. request.body \in Nat
  BY <1>5, RequestFields
<1> HIDE DEF data, w
<1>14. ASSUME NEW i \in 1..n PROVE data[i] = <<uploads, file.pos + i>>
  <2>1. i \in 1..Len(Inbox)
    BY <1>5, <1>9
  <2>2. file.pos + Len(Inbox) <= Len(w) /\ Inbox[i] = w[file.pos + i]
    BY <1>6, <2>1 DEF Behind, w
  <2>3. file.pos + i \in 1..request.body
    <3>1. file.pos \in Nat /\ Len(Inbox) \in Nat /\ Len(w) = request.body
      BY <1>5, <1>11
    <3>2. file.pos + Len(Inbox) <= request.body
      BY <2>2, <3>1
    <3>3. i \in Nat /\ i >= 1 /\ i <= Len(Inbox)
      BY <2>1, <3>1
    <3> QED BY <1>13, <3>1, <3>2, <3>3
  <2> QED BY <1>10, <1>11, <2>2, <2>3
<1>15. /\ buf' = data /\ remaining' = remaining - n /\ fsPc' = "write"
       /\ ret' = "ok"
  <2>1. WriteBody("ok", data)
    BY <1>1, <1>8 DEF data
  <2>2. Len(data) \in 1..Requested
    BY <1>10
  <2> QED BY <1>6, <1>10, <2>1, <2>2 DEF WriteBody, ReadLen, Goto
<1>16. remaining' \in Nat /\ remaining' <= remaining
  BY <1>5, <1>7, <1>9, <1>15
<1>17. /\ uploads' = uploads /\ request' = request /\ file' = file
       /\ page' = page /\ user_dir' = user_dir /\ total_kib' = total_kib
       /\ free_kib' = free_kib /\ httpPc' = httpPc
  BY <1>2, <1>3 DEF httpVars, flash, space
<1>18. Disk'
  <2>1. remaining' \in 0..USER_INDEX_MAX
    <3>1. remaining \in 0..USER_INDEX_MAX
      BY DiskTypes
    <3> QED BY <3>1, <1>16, HttpServerAssumption
  <2>2. buf' \in Seq(Bytes) /\ Len(buf') <= STORAGE_IO_CHUNK
    <3>1. Bytes = Pairs
      BY DEF Bytes, Pairs
    <3> QED BY <3>1, <1>7, <1>9, <1>10, <1>15, UserStorageAssumption
  <2>3. fsPc' \in FsPcs /\ fsPc \notin {"idle", "return"}
    BY <1>3, <1>15 DEF FsPcs
  <2> QED BY <1>3, <1>15, <1>17, <2>1, <2>2, <2>3, DiskTypes, DiskStep
<1>19. WriteProgress'
  <2>1. Announced' = Announced /\ Payload(request, uploads)' = w
    BY <1>17 DEF Announced, w
  <2>2. file.pos + n + remaining' = Announced /\ file.pos <= Announced
    BY <1>5, <1>6, <1>9, <1>15
  <2>3. buf' # <<>> /\ Len(buf') = n
    BY <1>9, <1>10, <1>15
  <2> QED BY <1>6, <1>12, <1>14, <1>15, <1>17, <2>1, <2>2, <2>3
         DEF WriteProgress
<1>20. left' = left
  BY <1>1 DEF request_body_read
<1> QED BY <1>2, <1>4, <1>8, <1>15, <1>18, <1>19, <1>20, WriteStep DEF WritePcs

LEMMA BodyFailsStep ==
  ASSUME HttpInv, ReadBodyFails
  PROVE  HttpInv'
<1>1. /\ fsPc = "body" /\ ret' = "error" /\ fsPc' = "close"
      /\ UNCHANGED <<buf, remaining>> /\ UNCHANGED <<flash, mount, space, file>>
      /\ UNCHANGED <<connection, wsVars, httpVars>>
  BY DEF ReadBodyFails, WriteBody, Goto
<1>2. httpPc = "writing"
  BY <1>1, InUpload DEF WritePcs
<1>3. /\ uploads' = uploads /\ file' = file /\ page' = page /\ buf' = buf
      /\ user_dir' = user_dir /\ total_kib' = total_kib /\ free_kib' = free_kib
      /\ remaining' = remaining /\ mount' = mount
  BY <1>1 DEF httpVars, flash, space
<1>4. Disk'
  <2>1. buf' = <<>>
    BY <1>1, <1>3, DiskTypes
  <2>2. fsPc' \in FsPcs /\ fsPc \notin {"idle", "return"}
    BY <1>1 DEF FsPcs
  <2> QED BY <1>1, <1>3, <2>1, <2>2, DiskTypes, DiskStep
<1>5. WriteProgress'
  <2>1. WriteProgress
    BY <1>2, AtWriting
  <2>2. Announced' = Announced
    BY <1>1, <1>2, AloneKeeps
  <2> QED BY <1>1, <1>3, <2>1, <2>2 DEF WriteProgress
<1> QED BY <1>1, <1>2, <1>4, <1>5, WriteAlone DEF WritePcs

\* To write at the end of a file appends to it.
LEMMA OverwriteEnd ==
  ASSUME NEW S, NEW s \in Seq(S), NEW data \in Seq(S)
  PROVE  Overwrite(s, Len(s), data) = s \o data
<1>1. Take(s, Len(s)) = s
  BY DEF Take
<1>2. Drop(s, Len(s) + Len(data)) = <<>>
  BY DEF Drop
<1>3. s \o data \in Seq(S) /\ (s \o data) \o <<>> = s \o data
  OBVIOUS
<1> QED BY <1>1, <1>2, <1>3 DEF Overwrite

\* What fs_write took of the chunk is the next of the page.
LEMMA ChunkWritten ==
  ASSUME HttpInv, UNCHANGED <<connection, wsVars, httpVars>>,
         fsPc = "write", UNCHANGED <<flash, mount, space, remaining>>,
         NEW n \in 1..Len(buf),
         file.pos + n <= Capacity,
         file' = [file EXCEPT
                    !.bytes = Overwrite(@, file.pos, Take(buf, n)),
                    !.pos = @ + n],
         buf' = Drop(buf, n),
         fsPc' = IF n < Len(buf) THEN "write"
                 ELSE IF remaining > 0 THEN "body" ELSE "sync",
         UNCHANGED ret
  PROVE  HttpInv'
<1>1. httpPc = "writing"
  BY InUpload DEF WritePcs
<1>2. /\ uploads \in Nat /\ Announced \in Nat
      /\ file.pos \in Nat /\ file.pos <= Capacity /\ remaining \in Nat
      /\ buf \in Seq(Pairs) /\ Len(buf) <= STORAGE_IO_CHUNK
      /\ WriteProgress
  BY <1>1, AtWriting
<1>3. /\ file.pos + Len(buf) + remaining = Announced
      /\ Behind(Inbox, file.pos + Len(buf), Payload(request, uploads))
      /\ file.bytes = Upload(uploads, file.pos)
      /\ \A i \in 1..Len(buf) : buf[i] = <<uploads, file.pos + i>>
  BY <1>2 DEF WriteProgress
<1>4. ret = "ok" /\ file \in FileType
  BY DiskTypes DEF HttpInv, Talk, PcInv
<1> DEFINE p == file.pos
           l == Len(buf)
           data == Take(buf, n)
           rest == Drop(buf, n)
<1>5. l \in Nat /\ n \in Nat /\ n >= 1 /\ n <= l /\ n \in 0..Len(buf)
  BY <1>2
<1>6. /\ data \in Seq(Pairs) /\ Len(data) = n
      /\ \A i \in 1..n : data[i] = buf[i]
      /\ rest \in Seq(Pairs) /\ Len(rest) = l - n
      /\ \A i \in 1..(l - n) : rest[i] = buf[n + i]
  BY <1>2, <1>5, TakeDrop
<1> HIDE DEF p, l, data, rest
<1>7. \A i \in 1..n : data[i] = <<uploads, p + i>>
  <2>1. \A i \in 1..n : i \in 1..Len(buf)
    BY <1>5
  <2> QED BY <1>3, <1>6, <2>1 DEF p
<1>8. \A i \in 1..(l - n) : rest[i] = <<uploads, (p + n) + i>>
  <2> SUFFICES ASSUME NEW i \in 1..(l - n)
               PROVE  rest[i] = <<uploads, (p + n) + i>>
    OBVIOUS
  <2>1. n + i \in 1..l
    BY <1>5
  <2>2. buf[n + i] = <<uploads, p + (n + i)>>
    BY <1>3, <2>1 DEF p, l
  <2>3. p + (n + i) = (p + n) + i
    BY <1>2, <1>5 DEF p
  <2> QED BY <1>6, <2>2, <2>3
<1>9. /\ Upload(uploads, p) \in Seq(Pairs) /\ Len(Upload(uploads, p)) = p
      /\ Upload(uploads, p) \o data = Upload(uploads, p + n)
      /\ p \in Nat /\ p + n \in Nat
  <2>1. p \in Nat
    BY <1>2 DEF p
  <2>2. uploads \in Nat /\ p + n \in Nat
    BY <1>2, <1>5, <2>1
  <2>3. data \in Seq(Pairs) /\ Len(data) = n
    BY <1>6
  <2>4. \A i \in 1..Len(data) : data[i] = <<uploads, p + i>>
    BY <1>7, <2>3
  <2>5. Upload(uploads, p) \o data = Upload(uploads, p + Len(data))
    BY <2>1, <2>2, <2>3, <2>4, UploadMore
  <2> QED BY <2>1, <2>2, <2>3, <2>5, UploadBytes
<1>10. Overwrite(file.bytes, p, data) = Upload(uploads, p + n)
  BY <1>3, <1>6, <1>9, OverwriteEnd DEF p
<1>11. Upload(uploads, p + n) \in Seq(Bytes)
  <2>1. Bytes = Pairs
    BY DEF Bytes, Pairs
  <2> QED BY <1>2, <1>9, <2>1, UploadBytes
<1>12. /\ file'.bytes = Upload(uploads, p + n) /\ file'.pos = p + n
       /\ file' \in FileType
  <2>1. p + n \in 0..Capacity
    BY <1>9, UserStorageAssumption DEF p
  <2>2. file' = [file EXCEPT !.bytes = Upload(uploads, p + n), !.pos = p + n]
    BY <1>4, <1>10 DEF p, data, FileType
  <2> QED BY <1>4, <1>11, <2>1, <2>2 DEF FileType
<1>13. /\ page' = page /\ user_dir' = user_dir /\ total_kib' = total_kib
       /\ free_kib' = free_kib /\ remaining' = remaining /\ ret' = "ok"
       /\ mount' = mount /\ buf' = rest /\ uploads' = uploads
  BY <1>4 DEF flash, space, httpVars, rest
<1>14. fsPc' \in {"write", "body", "sync"} /\ (fsPc' # "write" => n = l)
       /\ (fsPc' = "write" => n < l)
       /\ (fsPc' = "body" => remaining > 0)
       /\ (fsPc' = "sync" => remaining = 0)
  BY <1>2, <1>5 DEF l
<1>15. fsPc' # "write" => rest = <<>>
  BY <1>6, <1>14
<1>16. Disk'
  <2>1. buf' \in Seq(Bytes) /\ Len(buf') <= STORAGE_IO_CHUNK
    <3>1. Bytes = Pairs
      BY DEF Bytes, Pairs
    <3>2. Len(buf') <= STORAGE_IO_CHUNK
      BY <1>2, <1>5, <1>6, <1>13, UserStorageAssumption DEF l
    <3> QED BY <1>6, <1>13, <3>1, <3>2
  <2>2. fsPc' \in FsPcs /\ fsPc \notin {"idle", "return"}
    BY <1>14 DEF FsPcs
  <2>3. fsPc' \notin {"write", "writer"} => buf' = <<>>
    BY <1>13, <1>14, <1>15
  <2>4. fsPc' \notin {"idle", "dir", "open", "stream_open", "return"}
    BY <1>14
  <2> QED BY <1>12, <1>13, <2>1, <2>2, <2>3, <2>4, DiskTypes, DiskStep
<1>17. WriteProgress'
  <2>1. /\ Inbox' = Inbox /\ Announced' = Announced
        /\ Payload(request, uploads)' = Payload(request, uploads)
    BY <1>1, AloneKeeps
  <2>2. file'.pos + Len(buf') = p + l
    BY <1>2, <1>5, <1>6, <1>9, <1>12, <1>13
  <2>3. p + l + remaining = Announced /\ p + n <= Announced
    BY <1>2, <1>3, <1>5, <1>9 DEF p, l
  <2>4. fsPc' = "sync" => p + n = Announced
    BY <1>2, <1>5, <1>9, <1>14, <2>3
  <2>5. fsPc' = "write" => rest # <<>>
    BY <1>5, <1>6, <1>14
  <2>6. Behind(Inbox, p + l, Payload(request, uploads))
    BY <1>3 DEF p, l
  <2>7. /\ file'.pos + Len(buf') + remaining' = Announced'
        /\ Behind(Inbox', file'.pos + Len(buf'), Payload(request, uploads)')
    BY <1>13, <2>1, <2>2, <2>3, <2>6
  <2>8. /\ file'.bytes = Upload(uploads', file'.pos) /\ file'.pos <= Announced'
        /\ fsPc' = "sync" => file'.pos = Announced'
    BY <1>12, <1>13, <2>1, <2>3, <2>4
  <2>9. fsPc' = "write" =>
          /\ buf' # <<>>
          /\ \A i \in 1..Len(buf') : buf'[i] = <<uploads', file'.pos + i>>
    BY <1>6, <1>8, <1>12, <1>13, <2>5
  <2>10. fsPc' = "body" => remaining' > 0
    BY <1>13, <1>14
  <2> QED BY <1>14, <2>7, <2>8, <2>9, <2>10 DEF WriteProgress
<1>18. fsPc' \in WritePcs \cup {"return"}
  BY <1>14 DEF WritePcs
<1> QED BY <1>1, <1>13, <1>16, <1>17, <1>18, WriteAlone

LEMMA ChunkStep ==
  ASSUME HttpInv, WriteChunk, UNCHANGED <<connection, wsVars, httpVars>>
  PROVE  HttpInv'
<1>1. fsPc = "write" /\ UNCHANGED <<flash, mount, space, remaining>>
  BY DEF WriteChunk
<1>2. CASE \E n \in 1..Len(buf) :
             /\ file.pos + n <= Capacity
             /\ file' = [file EXCEPT
                           !.bytes = Overwrite(@, file.pos, Take(buf, n)),
                           !.pos = @ + n]
             /\ buf' = Drop(buf, n)
             /\ Goto(IF n < Len(buf) THEN "write"
                     ELSE IF remaining > 0 THEN "body" ELSE "sync")
             /\ UNCHANGED ret
  BY <1>1, <1>2, ChunkWritten DEF Goto
<1>3. CASE /\ \E lost \in BOOLEAN : file' = [file EXCEPT !.erred = lost]
           /\ ret' = "error"
           /\ Goto("close")
           /\ buf' = <<>>
  <2>1. httpPc = "writing"
    BY <1>1, InUpload DEF WritePcs
  <2>2. /\ fsPc' = "close" /\ ret' = "error" /\ buf' = <<>> /\ file \in FileType
        /\ uploads' = uploads /\ page' = page /\ user_dir' = user_dir
        /\ total_kib' = total_kib /\ free_kib' = free_kib
        /\ remaining' = remaining /\ mount' = mount
    BY <1>1, <1>3, DiskTypes DEF Goto, httpVars, flash, space
  <2>3. /\ file' \in FileType /\ file'.bytes = file.bytes
        /\ file'.pos = file.pos
    BY <1>3, <2>2 DEF FileType
  <2>4. Disk'
    <3>1. <<>> \in Seq(Bytes) /\ Len(<<>>) <= STORAGE_IO_CHUNK
      BY UserStorageAssumption
    <3>2. fsPc' \in FsPcs /\ fsPc \notin {"idle", "return"}
      BY <1>1, <2>2 DEF FsPcs
    <3> QED BY <2>2, <2>3, <3>1, <3>2, DiskTypes, DiskStep
  <2>5. WriteProgress'
    <3>1. WriteProgress
      BY <2>1, AtWriting
    <3>2. Announced' = Announced
      BY <2>1, AloneKeeps
    <3> QED BY <1>1, <2>2, <2>3, <3>1, <3>2 DEF WriteProgress
  <2> QED BY <2>1, <2>2, <2>4, <2>5, WriteAlone DEF WritePcs
<1> QED BY <1>2, <1>3 DEF WriteChunk

LEMMA SyncStep ==
  ASSUME HttpInv, WriteSync, UNCHANGED <<connection, wsVars, httpVars>>
  PROVE  HttpInv'
<1>1. /\ fsPc = "sync" /\ fsPc' = "close"
      /\ UNCHANGED <<user_dir, mount, space, remaining, buf>>
      /\ \/ page' = file.bytes /\ file' = file /\ ret' = ret
         \/ /\ file' = [file EXCEPT !.erred = TRUE]
            /\ ret' = "error" /\ page' = page
  BY DEF WriteSync, Goto
<1>2. httpPc = "writing"
  BY <1>1, InUpload DEF WritePcs
<1>3. /\ uploads \in Nat /\ uploads >= 1 /\ WriteProgress
      /\ file.pos \in Nat /\ file.pos <= Capacity
      /\ Announced \in Nat /\ Announced <= USER_INDEX_MAX
  BY <1>2, AtWriting, HttpServerAssumption
<1>4. file.bytes = Upload(uploads, file.pos) /\ file.pos = Announced
  BY <1>1, <1>3 DEF WriteProgress
<1>5. /\ uploads' = uploads /\ user_dir' = user_dir /\ buf' = <<>>
      /\ total_kib' = total_kib /\ free_kib' = free_kib
      /\ remaining' = remaining /\ mount' = mount
  BY <1>1, DiskTypes DEF httpVars, space
<1>6. /\ file' \in FileType /\ file'.bytes = file.bytes
      /\ file'.pos = file.pos /\ ret' \in {"ok", "error"}
  <2>1. file \in FileType /\ ret \in {"ok", "error"}
    BY DiskTypes
  <2> QED BY <1>1, <2>1 DEF FileType
<1>7. Disk'
  <2>1. page' = page \/ (page' = Upload(uploads, file.pos) /\ uploads >= 1)
    BY <1>1, <1>3, <1>4
  <2>2. fsPc' \in FsPcs /\ fsPc \notin {"idle", "return"}
    BY <1>1 DEF FsPcs
  <2>3. <<>> \in Seq(Bytes) /\ Len(<<>>) <= STORAGE_IO_CHUNK
    BY UserStorageAssumption
  <2>4. file.pos <= USER_INDEX_MAX
    BY <1>3, <1>4
  <2> QED BY <1>1, <1>3, <1>5, <1>6, <2>1, <2>2, <2>3, <2>4, DiskTypes, DiskStep
<1>8. WriteProgress'
  <2>1. Announced' = Announced
    BY <1>1, <1>2, AloneKeeps
  <2>2. ret' = "ok" => page' = file.bytes
    BY <1>1
  <2>3. file.pos <= Announced
    BY <1>3, <1>4
  <2> QED BY <1>1, <1>4, <1>5, <1>6, <2>1, <2>2, <2>3 DEF WriteProgress
<1> QED BY <1>1, <1>2, <1>7, <1>8, WriteAlone DEF WritePcs

\* What a file still holds is a beginning of the page as well.
LEMMA CloseFileStep ==
  ASSUME HttpInv, WriteClose, UNCHANGED <<connection, wsVars, httpVars>>
  PROVE  HttpInv'
<1>1. /\ fsPc = "close" /\ fsPc' = "return" /\ file' = NoFile /\ remaining' = 0
      /\ page' = page \/ page' = file.bytes
      /\ UNCHANGED <<user_dir, mount, buf, ret>>
      /\ update_space_locked(file.bytes) \/ UNCHANGED space
  BY DEF WriteClose, Goto
<1>2. httpPc = "writing"
  BY <1>1, InUpload DEF WritePcs
<1>3. /\ uploads \in Nat /\ uploads >= 1 /\ WriteProgress
      /\ file.pos \in Nat /\ file.pos <= Capacity
      /\ Announced \in Nat /\ Announced <= USER_INDEX_MAX
  BY <1>2, AtWriting, HttpServerAssumption
<1>4. /\ file.bytes = Upload(uploads, file.pos) /\ file.pos <= Announced
      /\ ret = "ok" => page = file.bytes /\ file.pos = Announced
  BY <1>1, <1>3 DEF WriteProgress
<1>5. uploads' = uploads /\ user_dir' = user_dir /\ buf' = <<>> /\ ret' = ret
      /\ mount' = mount
  BY <1>1, DiskTypes DEF httpVars
<1>6. total_kib' \in {0, Capacity} /\ free_kib' \in 0..Capacity
  <2>1. CASE update_space_locked(file.bytes)
    <3>1. Len(file.bytes) = file.pos
      BY <1>3, <1>4, UploadBytes
    <3>2. Capacity - Len(file.bytes) \in 0..Capacity /\ 0 \in 0..Capacity
      BY <1>3, <3>1, UserStorageAssumption
    <3> QED BY <2>1, <3>2 DEF update_space_locked
  <2>2. CASE UNCHANGED space
    BY <2>2, DiskTypes DEF space
  <2> QED BY <1>1, <2>1, <2>2
<1>7. Disk'
  <2>1. page' = page \/ (page' = Upload(uploads, file.pos) /\ uploads >= 1)
    BY <1>1, <1>3, <1>4
  <2>2. fsPc' \in FsPcs /\ fsPc \notin {"idle", "return"}
    BY <1>1 DEF FsPcs
  <2>3. <<>> \in Seq(Bytes) /\ Len(<<>>) <= STORAGE_IO_CHUNK
    BY UserStorageAssumption
  <2>4. file.pos <= USER_INDEX_MAX
    BY <1>3, <1>4, HttpServerAssumption
  <2>5. remaining' \in 0..USER_INDEX_MAX
    BY <1>1, HttpServerAssumption
  <2> QED BY <1>1, <1>3, <1>5, <1>6, <2>1, <2>2, <2>3, <2>4, <2>5, DiskTypes,
             DiskStep
<1>8. WriteProgress'
  <2>1. Announced' = Announced
    BY <1>1, <1>2, AloneKeeps
  <2>2. ret' = "ok" => page' = Upload(uploads, Announced)
    BY <1>1, <1>4, <1>5
  <2> QED BY <1>1, <1>5, <2>1, <2>2 DEF WriteProgress
<1> QED BY <1>1, <1>2, <1>7, <1>8, WriteAlone DEF WritePcs

\* storage.c is done, whether it wrote or read.
LEMMA DiskDone ==
  ASSUME HttpInv, fsPc = "return", fsPc' = "idle", ret' = "ok",
         remaining' \in {0, remaining},
         UNCHANGED <<flash, mount, space, file, buf, uploads>>
  PROVE  Disk'
<1>1. /\ user_dir' = user_dir /\ page' = page
      /\ mount_attempted' = mount_attempted /\ mounted' = mounted
      /\ mount_ret' = mount_ret
      /\ total_kib' = total_kib /\ free_kib' = free_kib
      /\ file' = file /\ buf' = buf /\ uploads' = uploads
  BY DEF flash, mount, space
<1>2. StorageType /\ FileInv /\ MountInv /\ PageSound
  BY DEF HttpInv, Disk
<1>3. remaining' \in 0..USER_INDEX_MAX
  BY DiskTypes, HttpServerAssumption
<1>4. StorageType'
  BY <1>1, <1>2, <1>3 DEF StorageType, FsPcs
<1>5. FileInv'
  BY <1>1, <1>2 DEF FileInv
<1>6. MountInv' /\ PageSound'
  BY <1>1, <1>2 DEF MountInv, MountedFirst, PageSound
<1> QED BY <1>4, <1>5, <1>6 DEF Disk

\* A 201 is said only when the page is whole.
LEMMA PutDoneStep ==
  ASSUME HttpInv, PutDone
  PROVE  HttpInv'
<1>1. /\ httpPc = "writing" /\ fsPc = "return" /\ httpPc' = "send"
      /\ answer' = IF ret = "ok" THEN 201 ELSE 500
      /\ created' = (created \/ ret = "ok")
      /\ fsPc' = "idle" /\ ret' = "ok" /\ remaining' = 0
      /\ UNCHANGED <<connection, wsVars, flash, mount, space, file, buf,
                     request, used, promised, served, uploads>>
  BY DEF PutDone, Finish, Goto
<1>2. /\ LengthDigits(request) \in Seq(Digits) /\ served = <<>>
      /\ uploads \in Nat /\ Announced \in Nat /\ WriteProgress
  BY <1>1, AtWriting
<1>3. HttpType /\ PcInv /\ RequestInv
  BY DEF HttpInv, Talk
<1>4. wsPc = "none" /\ request # NoRequest
  BY <1>1, <1>3 DEF PcInv
<1>5. /\ frames' = frames /\ wsPc' = wsPc /\ pending' = pending /\ left' = left
      /\ page' = page /\ request' = request /\ uploads' = uploads
      /\ served' = served /\ used' = used /\ promised' = promised
  BY <1>1 DEF wsVars, connection, flash
<1>6. Disk'
  BY <1>1, DiskDone
<1>7. Session'
  BY <1>1, SessionKept DEF HttpInv
<1>8. HttpType'
  <2>1. answer' \in Statuses /\ httpPc' \in HttpPcs
    BY <1>1 DEF Statuses, HttpPcs
  <2>2. created' \in BOOLEAN
    BY <1>1, <1>3 DEF HttpType
  <2> QED BY <1>3, <1>5, <2>1, <2>2 DEF HttpType
<1>9. PcInv'
  BY <1>1, <1>4, <1>5 DEF PcInv
<1>10. RequestInv'
  BY <1>1, <1>3, <1>4, <1>5 DEF RequestInv
<1>11. answer' = 201 => CreatedWhole'
  <2> SUFFICES ASSUME answer' = 201 PROVE CreatedWhole'
    OBVIOUS
  <2>1. page = Upload(uploads, Announced)
    BY <1>1, <1>2 DEF WriteProgress
  <2>2. Len(page) = Announced
    BY <1>2, <2>1, UploadBytes
  <2>3. Declared(LengthDigits(request)) < SizeMod
          => Announced = Declared(LengthDigits(request))
    BY <1>2, BodyLenDeclared DEF Announced
  <2>4. LengthDigits(request)' = LengthDigits(request)
    BY <1>5
  <2> QED BY <1>5, <2>1, <2>2, <2>3, <2>4 DEF CreatedWhole
<1>12. Work'
  BY <1>1, <1>2, <1>5, <1>11, NoWork
<1> QED BY <1>6, <1>7, <1>8, <1>9, <1>10, <1>12 DEF HttpInv, Talk

-----------------------------------------------------------------------------
(* A user page on its way out.                                             *)

\* What the beginning of a sequence is.
LEMMA Beginnings ==
  ASSUME NEW S, NEW t \in Seq(S), NEW p \in 0..Len(t)
  PROVE  /\ IsPrefix(Take(t, p), t) /\ Len(Take(t, p)) = p
         /\ Take(t, 0) = <<>> /\ Take(t, Len(t)) = t
<1>1. /\ Take(t, p) \in Seq(S) /\ Len(Take(t, p)) = p
      /\ \A i \in 1..p : Take(t, p)[i] = t[i]
      /\ Drop(t, p) \in Seq(S) /\ Len(Drop(t, p)) = Len(t) - p
      /\ \A i \in 1..(Len(t) - p) : Drop(t, p)[i] = t[p + i]
  BY TakeDrop
<1>2. IsPrefix(Take(t, p), t)
  <2>1. SubSeq(Take(t, p), 1, p) = SubSeq(t, 1, p)
    <3>1. Take(Take(t, p), p) \in Seq(S) /\ Len(Take(Take(t, p), p)) = p
          /\ \A i \in 1..p : Take(Take(t, p), p)[i] = Take(t, p)[i]
      <4>1. p \in 0..Len(Take(t, p))
        BY <1>1
      <4> QED BY <1>1, <4>1, TakeDrop
    <3>2. Take(Take(t, p), p) = Take(t, p)
      BY <1>1, <3>1, SameSequence
    <3> QED BY <3>2 DEF Take
  <2>2. p <= Len(t)
    OBVIOUS
  <2> QED BY <1>1, <2>1, <2>2 DEF IsPrefix
<1>3. Take(t, 0) = <<>> /\ Take(t, Len(t)) = t
  BY DEF Take
<1> QED BY <1>1, <1>2, <1>3

\* A beginning, and the beginning of what follows it, make a beginning.
LEMMA BeginningsMeet ==
  ASSUME NEW S, NEW t \in Seq(S), NEW p \in 0..Len(t),
         NEW n \in 0..(Len(t) - p)
  PROVE  Take(t, p) \o Take(Drop(t, p), n) = Take(t, p + n)
<1>0. /\ Take(t, p) \in Seq(S) /\ Len(Take(t, p)) = p
      /\ \A i \in 1..p : Take(t, p)[i] = t[i]
      /\ Drop(t, p) \in Seq(S) /\ Len(Drop(t, p)) = Len(t) - p
      /\ \A i \in 1..(Len(t) - p) : Drop(t, p)[i] = t[p + i]
  BY TakeDrop
<1> DEFINE a == Take(t, p)
           b == Take(Drop(t, p), n)
           c == Take(t, p + n)
<1>1. n \in 0..Len(Drop(t, p)) /\ p + n \in 0..Len(t) /\ p \in Nat /\ n \in Nat
  BY <1>0
<1>2. /\ b \in Seq(S) /\ Len(b) = n
      /\ \A i \in 1..n : b[i] = Drop(t, p)[i]
  BY <1>0, <1>1, TakeDrop
<1>3. /\ c \in Seq(S) /\ Len(c) = p + n /\ \A i \in 1..(p + n) : c[i] = t[i]
  BY <1>1, TakeDrop
<1>4. \A i \in 1..n : b[i] = t[p + i]
  <2>1. \A i \in 1..n : i \in 1..(Len(t) - p)
    BY <1>1
  <2> QED BY <1>0, <1>2, <2>1
<1>5. a \in Seq(S) /\ Len(a) = p /\ \A i \in 1..p : a[i] = t[i]
  BY <1>0
<1> HIDE DEF a, b, c
<1>6. /\ a \o b \in Seq(S) /\ Len(a \o b) = p + n
      /\ \A i \in 1..(p + n) :
           (a \o b)[i] = IF i <= p THEN a[i] ELSE b[i - p]
  BY <1>2, <1>5, ConcatProperties
<1>7. ASSUME NEW i \in 1..(p + n) PROVE (a \o b)[i] = c[i]
  <2>1. CASE i <= p
    <3>1. i \in 1..p
      BY <2>1
    <3> QED BY <2>1, <3>1, <1>3, <1>5, <1>6
  <2>2. CASE ~(i <= p)
    <3>1. i - p \in 1..n /\ p + (i - p) = i
      BY <2>2, <1>1
    <3> QED BY <2>2, <3>1, <1>3, <1>4, <1>6
  <2> QED BY <2>1, <2>2
<1>8. a \o b = c
  BY <1>3, <1>6, <1>7, SameSequence
<1> QED BY <1>8 DEF a, b, c

\* Part of a chunk leads to a beginning as well.
LEMMA PartOfChunk ==
  ASSUME NEW S, NEW s \in Seq(S), NEW b \in Seq(S), NEW t \in Seq(S),
         NEW p \in 0..Len(t), s \o b = Take(t, p), NEW n \in 0..Len(b)
  PROVE  /\ s \o Take(b, n) \in Seq(S) /\ IsPrefix(s \o Take(b, n), t)
         /\ Len(s \o Take(b, n)) <= Len(t)
<1> DEFINE a == s \o Take(b, n)
           m == Len(s) + n
<1>1. /\ Take(b, n) \in Seq(S) /\ Len(Take(b, n)) = n
      /\ \A i \in 1..n : Take(b, n)[i] = b[i]
  BY TakeDrop
<1>2. /\ Len(Take(t, p)) = p /\ \A i \in 1..p : Take(t, p)[i] = t[i]
  BY TakeDrop
<1>3. /\ s \o b \in Seq(S) /\ Len(s \o b) = Len(s) + Len(b)
      /\ \A i \in 1..(Len(s) + Len(b)) :
           (s \o b)[i] = IF i <= Len(s) THEN s[i] ELSE b[i - Len(s)]
  BY ConcatProperties
<1>4. /\ a \in Seq(S) /\ Len(a) = m
      /\ \A i \in 1..m :
           a[i] = IF i <= Len(s) THEN s[i] ELSE Take(b, n)[i - Len(s)]
  BY <1>1, ConcatProperties
<1>5. Len(s) + Len(b) = p /\ m \in 0..p /\ m \in 0..Len(t)
  <2>1. Len(s) + Len(b) = p
    BY <1>2, <1>3
  <2>2. Len(s) \in Nat /\ Len(b) \in Nat /\ Len(t) \in Nat /\ p <= Len(t)
    OBVIOUS
  <2> QED BY <2>1, <2>2
<1>6. /\ Take(t, m) \in Seq(S) /\ Len(Take(t, m)) = m
      /\ \A i \in 1..m : Take(t, m)[i] = t[i]
  BY <1>5, TakeDrop
<1> HIDE DEF a, m
<1>7. ASSUME NEW i \in 1..m PROVE a[i] = Take(t, m)[i]
  <2>1. i \in 1..p /\ i \in 1..(Len(s) + Len(b))
    BY <1>5
  <2>2. (s \o b)[i] = t[i]
    BY <1>2, <2>1
  <2>3. CASE i <= Len(s)
    BY <2>1, <2>2, <2>3, <1>3, <1>4, <1>6
  <2>4. CASE ~(i <= Len(s))
    <3>1. i - Len(s) \in 1..n
      BY <2>4 DEF m
    <3> QED BY <2>1, <2>2, <2>4, <3>1, <1>1, <1>3, <1>4, <1>6
  <2> QED BY <2>3, <2>4
<1>8. a = Take(t, m)
  BY <1>4, <1>6, <1>7, SameSequence
<1>9. IsPrefix(Take(t, m), t)
  BY <1>5, Beginnings
<1>10. m <= Len(t)
  BY <1>5
<1> QED BY <1>4, <1>8, <1>9, <1>10 DEF a

\* While it streams, the HTTP thread answers with a page.
LEMMA InPage ==
  ASSUME HttpInv, fsPc \in StreamPcs
  PROVE  httpPc = "streaming"
<1>1. PcInv
  BY DEF HttpInv, Talk
<1> QED BY <1>1 DEF PcInv, WritePcs, StreamPcs

\* What is so whenever a page is under way.
LEMMA AtStreaming ==
  ASSUME HttpInv, httpPc = "streaming"
  PROVE  /\ page # NoPage /\ page \in Seq(Bytes) /\ promised = Len(page)
         /\ Len(page) \in Nat /\ Len(page) <= Capacity
         /\ served \in Seq(Bytes) /\ buf \in Seq(Bytes)
         /\ file \in FileType /\ file.pos \in Nat
         /\ answer # 201
         /\ pending \in Seq(Pairs) /\ socket \in Seq(Pairs)
         /\ StreamProgress
         /\ IsPrefix(served, page) /\ Len(served) <= promised
<1>1. HttpType /\ PcInv /\ SessionType /\ StreamInv /\ ServedAsPromised
      /\ StorageType /\ FileInv
  BY DEF HttpInv, Talk, Session, Work, Disk
<1>2. page # NoPage /\ promised = Len(page) /\ StreamProgress
  BY <1>1 DEF StreamInv
<1>3. page \in Seq(Bytes) /\ Len(page) <= Capacity
  BY <1>1, <1>2 DEF StorageType, FileInv
<1>4. served \in Seq(Bytes) /\ buf \in Seq(Bytes) /\ file \in FileType
  BY <1>1 DEF HttpType, StorageType
<1>5. file.pos \in Nat
  BY <1>4, UserStorageAssumption DEF FileType
<1>6. answer # 201 /\ pending \in Seq(Pairs) /\ socket \in Seq(Pairs)
  BY <1>1 DEF PcInv, SessionType
<1>7. IsPrefix(served, page) /\ Len(served) <= promised
  BY <1>1 DEF ServedAsPromised
<1> QED BY <1>2, <1>3, <1>4, <1>5, <1>6, <1>7

\* A step of storage.c, or of its writer, that keeps to the page.
LEMMA StreamStep ==
  ASSUME HttpInv, httpPc = "streaming", httpPc' = httpPc,
         UNCHANGED <<connection, wsVars, request, used, answer, promised,
                     uploads, created, page>>,
         served' \in Seq(Bytes),
         IsPrefix(served', page), Len(served') <= promised,
         fsPc' \in StreamPcs \cup {"return"},
         fsPc' \notin {"stream_close", "return"} => ret' = "ok",
         Disk', StreamProgress'
  PROVE  HttpInv'
<1>1. /\ pending \in Seq(Pairs) /\ socket \in Seq(Pairs) /\ answer # 201
      /\ page # NoPage /\ promised = Len(page)
  BY AtStreaming
<1>2. pending' = pending /\ socket' = socket /\ left' = left
  BY DEF connection
<1>3. Session' /\ Talk'
  <2>1. Len(pending') <= Len(pending)
    BY <1>1, <1>2
  <2> QED BY <1>1, <1>2, <2>1, TalkKept
<1>4. WriteInv' /\ CreatedWhole'
  BY <1>1 DEF WriteInv, CreatedWhole
<1>5. StreamInv' /\ ServedAsPromised'
  BY <1>1 DEF StreamInv, ServedAsPromised
<1> QED BY <1>3, <1>4, <1>5 DEF HttpInv, Work

\* The header of a page, and the way into storage.c.
LEMMA HeaderStep ==
  ASSUME HttpInv, SendHeader
  PROVE  HttpInv'
<1>1. /\ httpPc = "send_header"
      /\ \/ httpPc' = "streaming" /\ StreamStart
         \/ httpPc' = "close" /\ UNCHANGED storageVars
      /\ UNCHANGED <<connection, wsVars, request, used, answering, uploads,
                     created>>
  BY DEF SendHeader
<1>2. /\ request' = request /\ used' = used /\ answer' = answer
      /\ promised' = promised /\ served' = served /\ uploads' = uploads
      /\ created' = created /\ pending' = pending /\ left' = left
      /\ frames' = frames /\ wsPc' = wsPc
  BY <1>1 DEF connection, wsVars, answering
<1>3. HttpType /\ PcInv /\ RequestInv /\ StreamInv
  BY DEF HttpInv, Talk, Work
<1>4. /\ wsPc = "none" /\ request # NoRequest /\ fsPc = "idle" /\ answer # 201
      /\ served = <<>> /\ page # NoPage /\ promised = Len(page)
  BY <1>1, <1>3 DEF PcInv, StreamInv
<1>5. ret = "ok"
  BY <1>3, <1>4 DEF PcInv
<1>6. Session'
  BY <1>1, SessionKept DEF HttpInv
<1>7. HttpType'
  <2>1. httpPc' \in HttpPcs
    BY <1>1 DEF HttpPcs
  <2> QED BY <1>2, <1>3, <2>1 DEF HttpType
<1>8. RequestInv'
  BY <1>1, <1>2, <1>3, <1>4 DEF RequestInv
<1>9. CASE httpPc' = "close" /\ UNCHANGED storageVars
  <2>1. fsPc' = fsPc /\ ret' = ret
    BY <1>9 DEF storageVars, stream
  <2>2. Disk'
    BY <1>2, <1>9, UploadsNat, DiskKept DEF HttpInv
  <2>3. PcInv'
    BY <1>2, <1>4, <1>5, <1>9, <2>1 DEF PcInv
  <2>4. Work'
    BY <1>2, <1>4, <1>9, NoWork
  <2> QED BY <1>6, <1>7, <1>8, <2>2, <2>3, <2>4 DEF HttpInv, Talk
<1>10. CASE httpPc' = "streaming" /\ StreamStart
  <2>1. PICK r \in {"ok", "error"} :
          /\ storage_mount_once(r)
          /\ IF r = "ok" THEN fsPc' = "stream_open" /\ ret' = ret
                         ELSE fsPc' = "return" /\ ret' = r
    BY <1>10 DEF StreamStart, Goto, Return
  <2>2. /\ UNCHANGED <<flash, file, buf>> /\ remaining' = remaining
        /\ page' = page
    BY <1>10 DEF StreamStart, flash
  <2>3. \/ r = "ok" /\ fsPc' = "stream_open" /\ ret' = "ok"
        \/ fsPc' = "return" /\ ret' = "error"
    BY <1>5, <2>1
  <2>4. Disk'
    <3>1. MountOnce(r) /\ (update_space_locked(PageBytes) \/ UNCHANGED space)
      BY <2>1 DEF storage_mount_once
    <3>2. remaining' \in 0..USER_INDEX_MAX /\ ret' \in {"ok", "error"}
      BY <2>2, <2>3, DiskTypes
    <3> QED BY <1>2, <1>4, <2>2, <2>3, <3>1, <3>2, DiskMounted
  <2>5. PcInv'
    BY <1>2, <1>4, <1>10, <2>3 DEF PcInv, StreamPcs
  <2>6. StreamInv'
    BY <1>2, <1>4, <1>10, <2>2, <2>3 DEF StreamInv, StreamProgress
  <2>7. WriteInv' /\ CreatedWhole'
    BY <1>2, <1>4, <1>10 DEF WriteInv, CreatedWhole
  <2>8. ServedAsPromised'
    <3>1. page \in Seq(Bytes) /\ Len(page) \in Nat
      BY <1>4, DiskTypes
    <3>2. IsPrefix(<<>>, page)
      <4>1. 0 \in 0..Len(page)
        BY <3>1
      <4> QED BY <3>1, <4>1, Beginnings
    <3>3. Len(<<>>) <= promised
      BY <1>4, <3>1
    <3>4. served' = <<>> /\ page' = page /\ promised' = promised
      BY <1>2, <1>4, <2>2
    <3>5. httpPc' # "sent"
      BY <1>10
    <3>6. IsPrefix(served', page') /\ Len(served') <= promised'
      BY <3>2, <3>3, <3>4
    <3> QED BY <3>5, <3>6 DEF ServedAsPromised
  <2> QED BY <1>6, <1>7, <1>8, <2>4, <2>5, <2>6, <2>7, <2>8
         DEF HttpInv, Talk, Work
<1> QED BY <1>1, <1>9, <1>10

LEMMA OpenPageStep ==
  ASSUME HttpInv, StreamOpen, UNCHANGED <<connection, wsVars, httpVars>>
  PROVE  HttpInv'
<1>1. /\ fsPc = "stream_open" /\ UNCHANGED <<flash, mount, space, remaining, buf>>
      /\ \/ /\ file' = [NoFile EXCEPT !.open = TRUE, !.bytes = page]
            /\ fsPc' = "stream_read" /\ ret' = ret
         \/ file' = file /\ ret' = "error" /\ fsPc' = "return"
  BY DEF StreamOpen, Goto, Return
<1>2. httpPc = "streaming"
  BY <1>1, InPage DEF StreamPcs
<1>3. /\ page # NoPage /\ page \in Seq(Bytes) /\ served \in Seq(Bytes)
      /\ Len(page) \in Nat /\ StreamProgress
      /\ IsPrefix(served, page) /\ Len(served) <= promised
  BY <1>2, AtStreaming
<1>4. ret = "ok" /\ buf = <<>> /\ file = NoFile
  BY <1>1, DiskTypes DEF HttpInv, Talk, PcInv
<1>5. /\ page' = page /\ user_dir' = user_dir /\ total_kib' = total_kib
      /\ free_kib' = free_kib /\ remaining' = remaining /\ buf' = buf
      /\ mount' = mount /\ uploads' = uploads /\ served' = served
      /\ httpPc' = httpPc
  BY <1>1 DEF flash, space, httpVars, answering
<1>6. UNCHANGED <<connection, wsVars, request, used, answer, promised, uploads,
                  created, page>>
  BY <1>5 DEF httpVars, answering
<1>7. /\ fsPc' \in {"stream_read", "return"}
      /\ ret' \in {"ok", "error"} /\ (fsPc' # "return" => ret' = "ok")
      /\ (fsPc' = "return" => ret' = "error" /\ file' = NoFile)
  BY <1>1, <1>4
<1>8. fsPc' = "stream_read" => file'.bytes = page /\ file'.pos = 0
  BY <1>1 DEF NoFile
<1>9. file' \in FileType
  <2>1. [NoFile EXCEPT !.open = TRUE, !.bytes = page] \in FileType
    BY <1>3, DiskTypes DEF FileType
  <2> QED BY <1>1, <2>1, DiskTypes
<1>10. Disk'
  <2>1. fsPc' \in FsPcs /\ fsPc \notin {"idle", "return"}
    BY <1>1, <1>7 DEF FsPcs
  <2>2. fsPc' \in {"idle", "dir", "open", "stream_open", "return"}
          => file' = NoFile
    BY <1>7
  <2> QED BY <1>4, <1>5, <1>7, <1>9, <2>1, <2>2, DiskTypes, DiskStep
<1>11. StreamProgress'
  <2>1. served = <<>>
    BY <1>1, <1>3 DEF StreamProgress
  <2>2. <<>> \o <<>> = Take(page, 0) /\ 0 <= Len(page)
    <3>1. 0 \in 0..Len(page)
      BY <1>3
    <3>2. Take(page, 0) = <<>>
      BY <1>3, <3>1, Beginnings
    <3> QED BY <1>3, <3>2
  <2> QED BY <1>4, <1>5, <1>7, <1>8, <2>1, <2>2 DEF StreamProgress
<1>12. fsPc' \in StreamPcs \cup {"return"}
  BY <1>7 DEF StreamPcs
<1> QED BY <1>2, <1>3, <1>5, <1>6, <1>7, <1>10, <1>11, <1>12, StreamStep

\* The next chunk of the file, or its end.
LEMMA ReadPageStep ==
  ASSUME HttpInv, StreamRead, UNCHANGED <<connection, wsVars, httpVars>>
  PROVE  HttpInv'
<1> DEFINE rest == Drop(file.bytes, file.pos)
           n == Smaller(STORAGE_IO_CHUNK, Len(rest))
           chunk == Take(rest, n)
<1>1. /\ fsPc = "stream_read" /\ UNCHANGED <<flash, mount, space, remaining>>
      /\ IF Len(chunk) = 0
           THEN ret' = "ok" /\ fsPc' = "stream_close" /\ file' = file /\ buf' = buf
           ELSE \/ /\ buf' = chunk
                   /\ file' = [file EXCEPT !.pos = @ + Len(chunk)]
                   /\ fsPc' = "writer" /\ ret' = ret
                \/ /\ ret' = "error" /\ fsPc' = "stream_close"
                   /\ file' = file /\ buf' = buf
  BY DEF StreamRead, IsEnd, Goto
<1>2. httpPc = "streaming"
  BY <1>1, InPage DEF StreamPcs
<1>3. /\ page # NoPage /\ page \in Seq(Bytes) /\ served \in Seq(Bytes)
      /\ Len(page) \in Nat /\ Len(page) <= Capacity /\ StreamProgress
      /\ IsPrefix(served, page) /\ Len(served) <= promised
      /\ file \in FileType /\ file.pos \in Nat
  BY <1>2, AtStreaming
<1>4. ret = "ok" /\ buf = <<>>
  BY <1>1, DiskTypes DEF HttpInv, Talk, PcInv
<1>5. file.bytes = page /\ file.pos \in 0..Len(page)
      /\ served = Take(page, file.pos)
  <2>1. file.bytes = page /\ file.pos <= Len(page)
        /\ served \o buf = Take(page, file.pos)
    BY <1>1, <1>3 DEF StreamProgress
  <2>2. served \o <<>> = served
    BY <1>3
  <2> QED BY <1>3, <1>4, <2>1, <2>2
<1>6. rest \in Seq(Bytes) /\ Len(rest) = Len(page) - file.pos
  BY <1>3, <1>5, TakeDrop
<1>7. /\ n \in 0..Len(rest) /\ n <= STORAGE_IO_CHUNK
      /\ n = 0 => Len(rest) = 0
  BY <1>6, UserStorageAssumption DEF Smaller
<1>8. chunk \in Seq(Bytes) /\ Len(chunk) = n
  BY <1>6, <1>7, TakeDrop
<1>9. served \o chunk = Take(page, file.pos + n)
  <2>1. n \in 0..(Len(page) - file.pos)
    BY <1>6, <1>7
  <2>2. chunk = Take(Drop(page, file.pos), n)
    BY <1>5
  <2>3. Take(page, file.pos) \o Take(Drop(page, file.pos), n)
          = Take(page, file.pos + n)
    <3> HIDE DEF n
    <3>1. page \in Seq(Bytes) /\ file.pos \in 0..Len(page)
      BY <1>3, <1>5
    <3> QED BY <2>1, <3>1, BeginningsMeet
  <2> QED BY <1>5, <2>2, <2>3
<1>10. file.pos + n \in Nat /\ file.pos + n <= Len(page)
  BY <1>3, <1>6, <1>7
<1>11. n = 0 => served = page
  <2> SUFFICES ASSUME n = 0 PROVE served = page
    OBVIOUS
  <2>1. file.pos = Len(page)
    BY <1>3, <1>6, <1>7
  <2>2. Take(page, Len(page)) = page
    BY <1>3, <1>5, Beginnings
  <2> QED BY <1>5, <2>1, <2>2
<1> HIDE DEF rest, chunk, n
<1>12. /\ page' = page /\ user_dir' = user_dir /\ total_kib' = total_kib
       /\ free_kib' = free_kib /\ remaining' = remaining
       /\ mount' = mount /\ uploads' = uploads /\ served' = served
       /\ httpPc' = httpPc
  BY <1>1 DEF flash, space, httpVars, answering
<1>13. UNCHANGED <<connection, wsVars, request, used, answer, promised, uploads,
                   created, page>>
  BY <1>12 DEF httpVars, answering
<1>14. CASE fsPc' = "writer"
  <2>1. /\ buf' = chunk /\ ret' = "ok"
        /\ file' = [file EXCEPT !.pos = @ + n]
    BY <1>1, <1>4, <1>8, <1>14
  <2>2. file' \in FileType /\ file'.bytes = page /\ file'.pos = file.pos + n
    <3>1. file.pos + n \in 0..Capacity
      BY <1>3, <1>10, UserStorageAssumption
    <3> QED BY <1>3, <1>5, <2>1, <3>1 DEF FileType
  <2>3. Disk'
    <3>1. fsPc' \in FsPcs /\ fsPc \notin {"idle", "return"}
      BY <1>1, <1>14 DEF FsPcs
    <3>2. Len(buf') <= STORAGE_IO_CHUNK /\ buf' \in Seq(Bytes)
      BY <1>7, <1>8, <2>1
    <3>3. fsPc' \notin {"idle", "dir", "open", "stream_open", "return"}
          /\ ret' \in {"ok", "error"} /\ fsPc' = "writer"
      BY <1>14, <2>1
    <3> QED BY <1>12, <2>2, <3>1, <3>2, <3>3, DiskTypes, DiskStep
  <2>4. StreamProgress'
    BY <1>9, <1>10, <1>12, <1>14, <2>1, <2>2 DEF StreamProgress
  <2> QED BY <1>2, <1>3, <1>12, <1>13, <1>14, <2>1, <2>3, <2>4, StreamStep
         DEF StreamPcs
<1>15. CASE fsPc' # "writer"
  <2>1. /\ fsPc' = "stream_close" /\ file' = file /\ buf' = buf
        /\ ret' \in {"ok", "error"} /\ (ret' = "ok" => n = 0)
    BY <1>1, <1>8, <1>15
  <2>2. Disk'
    <3>1. fsPc' \in FsPcs /\ fsPc \notin {"idle", "return"}
      BY <1>1, <2>1 DEF FsPcs
    <3> QED BY <1>4, <1>12, <2>1, <3>1, DiskTypes, DiskStep
  <2>3. StreamProgress'
    BY <1>11, <1>12, <2>1 DEF StreamProgress
  <2>4. fsPc' \in StreamPcs
    BY <2>1 DEF StreamPcs
  <2> QED BY <1>2, <1>3, <1>12, <1>13, <2>1, <2>2, <2>3, <2>4, StreamStep
<1> QED BY <1>14, <1>15

\* A chunk goes out in whole, or part of it before the client is gone.
LEMMA WriterStep ==
  ASSUME HttpInv, socket_write
  PROVE  HttpInv'
<1>1. /\ \/ served' = served \o buf /\ StreamWritten("ok")
         \/ /\ \E n \in 0..(Len(buf) - 1) : served' = served \o Take(buf, n)
            /\ StreamWritten("error")
      /\ UNCHANGED <<connection, wsVars, httpPc, request, used, answer, promised,
                     uploads, created>>
  BY DEF socket_write
<1>2. /\ fsPc = "writer" /\ buf' = <<>>
      /\ UNCHANGED <<flash, mount, space, file, remaining>>
  BY <1>1 DEF StreamWritten
<1>3. httpPc = "streaming"
  BY <1>2, InPage DEF StreamPcs
<1>4. /\ page # NoPage /\ page \in Seq(Bytes) /\ promised = Len(page)
      /\ served \in Seq(Bytes) /\ buf \in Seq(Bytes)
      /\ Len(page) \in Nat /\ StreamProgress /\ file \in FileType
      /\ file.pos \in Nat
  BY <1>3, AtStreaming
<1>5. /\ file.bytes = page /\ file.pos \in 0..Len(page)
      /\ served \o buf = Take(page, file.pos)
  BY <1>2, <1>4 DEF StreamProgress
<1>6. \/ served' = served \o buf /\ ret' = "ok" /\ fsPc' = "stream_read"
      \/ /\ \E n \in 0..Len(buf) : served' = served \o Take(buf, n)
         /\ ret' = "error" /\ fsPc' = "stream_close"
  <2>1. \A n \in 0..(Len(buf) - 1) : n \in 0..Len(buf)
    BY <1>4
  <2> QED BY <1>1, <2>1 DEF StreamWritten, Goto
<1>7. \E n \in 0..Len(buf) : served' = served \o Take(buf, n)
  <2>1. Len(buf) \in 0..Len(buf)
    BY <1>4
  <2>2. Take(buf, Len(buf)) = buf
    BY <1>4, <2>1, Beginnings
  <2> QED BY <1>6, <2>1, <2>2
<1>8. /\ served' \in Seq(Bytes) /\ IsPrefix(served', page)
      /\ Len(served') <= promised
  BY <1>4, <1>5, <1>7, PartOfChunk
<1>9. /\ page' = page /\ user_dir' = user_dir /\ total_kib' = total_kib
      /\ free_kib' = free_kib /\ remaining' = remaining /\ file' = file
      /\ mount' = mount /\ uploads' = uploads
  BY <1>1, <1>2 DEF flash, space
<1>10. Disk'
  <2>1. fsPc' \in FsPcs /\ fsPc \notin {"idle", "return"}
    BY <1>2, <1>6 DEF FsPcs
  <2>2. <<>> \in Seq(Bytes) /\ Len(<<>>) <= STORAGE_IO_CHUNK
    BY UserStorageAssumption
  <2> QED BY <1>2, <1>6, <1>9, <2>1, <2>2, DiskTypes, DiskStep
<1>11. StreamProgress'
  <2>1. CASE fsPc' = "stream_read"
    <3>1. served' = Take(page, file.pos) /\ file.pos <= Len(page)
      BY <1>4, <1>5, <1>6, <2>1
    <3>2. served' \o <<>> = served'
      BY <1>8
    <3> QED BY <1>2, <1>5, <1>9, <2>1, <3>1, <3>2 DEF StreamProgress
  <2>2. CASE fsPc' = "stream_close"
    BY <1>6, <2>2 DEF StreamProgress
  <2> QED BY <1>6, <2>1, <2>2
<1>12. fsPc' \in StreamPcs \cup {"return"}
  BY <1>6 DEF StreamPcs
<1>13. fsPc' \notin {"stream_close", "return"} => ret' = "ok"
  BY <1>6
<1> QED BY <1>1, <1>3, <1>8, <1>9, <1>10, <1>11, <1>12, <1>13, StreamStep

LEMMA ClosePageStep ==
  ASSUME HttpInv, StreamClose, UNCHANGED <<connection, wsVars, httpVars>>
  PROVE  HttpInv'
<1>1. /\ fsPc = "stream_close" /\ file' = NoFile /\ fsPc' = "return"
      /\ UNCHANGED <<flash, mount, space, remaining, buf, ret>>
  BY DEF StreamClose, Goto
<1>2. httpPc = "streaming"
  BY <1>1, InPage DEF StreamPcs
<1>3. /\ served \in Seq(Bytes) /\ StreamProgress
      /\ IsPrefix(served, page) /\ Len(served) <= promised
  BY <1>2, AtStreaming
<1>4. /\ page' = page /\ user_dir' = user_dir /\ total_kib' = total_kib
      /\ free_kib' = free_kib /\ remaining' = remaining /\ buf' = buf
      /\ ret' = ret /\ mount' = mount /\ uploads' = uploads
      /\ served' = served /\ httpPc' = httpPc
  BY <1>1 DEF flash, space, httpVars, answering
<1>5. UNCHANGED <<connection, wsVars, request, used, answer, promised, uploads,
                  created, page>>
  BY <1>4 DEF httpVars, answering
<1>6. Disk'
  <2>1. fsPc' \in FsPcs /\ fsPc \notin {"idle", "return"}
    BY <1>1 DEF FsPcs
  <2>2. buf' = <<>>
    BY <1>1, <1>4, DiskTypes
  <2> QED BY <1>1, <1>4, <2>1, <2>2, DiskTypes, DiskStep
<1>7. StreamProgress'
  BY <1>1, <1>3, <1>4 DEF StreamProgress
<1> QED BY <1>1, <1>2, <1>3, <1>4, <1>5, <1>6, <1>7, StreamStep

\* A page that went out in whole, or one that broke off.
LEMMA PageDoneStep ==
  ASSUME HttpInv, StreamDone
  PROVE  HttpInv'
<1>1. /\ httpPc = "streaming" /\ fsPc = "return"
      /\ httpPc' = IF ret = "ok" THEN "sent" ELSE "close"
      /\ fsPc' = "idle" /\ ret' = "ok"
      /\ UNCHANGED <<connection, wsVars, flash, mount, space, file, buf,
                     remaining, request, used, answering, uploads, created>>
  BY DEF StreamDone, Goto
<1>2. /\ page # NoPage /\ promised = Len(page) /\ answer # 201 /\ StreamProgress
      /\ IsPrefix(served, page) /\ Len(served) <= promised
  BY <1>1, AtStreaming
<1>3. HttpType /\ PcInv /\ RequestInv
  BY DEF HttpInv, Talk
<1>4. wsPc = "none" /\ request # NoRequest
  BY <1>1, <1>3 DEF PcInv
<1>5. /\ request' = request /\ used' = used /\ answer' = answer
      /\ promised' = promised /\ served' = served /\ uploads' = uploads
      /\ created' = created /\ pending' = pending /\ left' = left
      /\ frames' = frames /\ wsPc' = wsPc /\ page' = page
      /\ remaining' = remaining
  BY <1>1 DEF connection, wsVars, answering, flash
<1>6. httpPc' \in {"sent", "close"} /\ (httpPc' = "sent" => served = page)
  <2>1. ret = "ok" => served = page
    BY <1>1, <1>2 DEF StreamProgress
  <2> QED BY <1>1, <2>1
<1>7. Disk'
  BY <1>1, <1>5, DiskDone
<1>8. Session'
  BY <1>1, SessionKept DEF HttpInv
<1>9. HttpType'
  <2>1. httpPc' \in HttpPcs
    BY <1>6 DEF HttpPcs
  <2> QED BY <1>3, <1>5, <2>1 DEF HttpType
<1>10. PcInv'
  BY <1>1, <1>2, <1>4, <1>5, <1>6 DEF PcInv
<1>11. RequestInv'
  BY <1>3, <1>4, <1>5, <1>6 DEF RequestInv
<1>12. WriteInv' /\ StreamInv' /\ CreatedWhole'
  BY <1>2, <1>5, <1>6 DEF WriteInv, StreamInv, CreatedWhole
<1>13. ServedAsPromised'
  BY <1>2, <1>5, <1>6 DEF ServedAsPromised
<1> QED BY <1>7, <1>8, <1>9, <1>10, <1>11, <1>12, <1>13 DEF HttpInv, Talk, Work

-----------------------------------------------------------------------------
(* The theorems.                                                           *)

LEMMA InitInv == Init => HttpInv
<1> SUFFICES ASSUME Init PROVE HttpInv
  OBVIOUS
<1>1. /\ user_dir = FALSE /\ page = NoPage
      /\ mount_attempted = FALSE /\ mounted = FALSE /\ mount_ret = "ENODEV"
      /\ total_kib = 0 /\ free_kib = 0
      /\ file = NoFile /\ fsPc = "idle" /\ remaining = 0 /\ buf = <<>>
      /\ ret = "ok"
  BY DEF Init, StorageInit
<1>2. /\ socket = <<>> /\ pending = <<>> /\ left = FALSE
      /\ frames = <<>> /\ wsPc = "none" /\ got = <<>> /\ replies = <<>>
      /\ httpPc = "accept" /\ request = NoRequest /\ used = 0
      /\ answer = NoAnswer /\ promised = 0 /\ served = <<>>
      /\ uploads = 0 /\ created = FALSE
  BY DEF Init
<1>3. /\ 0 \in 0..Capacity /\ 0 \in 0..USER_INDEX_MAX /\ 0 \in 0..MaxUploads
      /\ 0 \in 0..(HTTP_REQUEST_MAX - 1)
      /\ Len(<<>>) <= STORAGE_IO_CHUNK /\ Len(<<>>) <= 0
  BY HttpServerAssumption, UserStorageAssumption
<1>4. /\ <<>> \in Seq(Bytes) /\ <<>> \in Seq(Pairs) /\ <<>> \in Seq(FrameType)
      /\ <<>> \in Seq(ReplyType)
  OBVIOUS
<1>5. Disk
  <2>1. NoFile \in FileType
    BY <1>3, <1>4 DEF NoFile, FileType
  <2>2. StorageType
    BY <1>1, <1>3, <1>4, <2>1 DEF StorageType, FsPcs
  <2>3. FileInv
    BY <1>1 DEF FileInv
  <2>4. MountInv /\ PageSound
    BY <1>1 DEF MountInv, MountedFirst, PageSound
  <2> QED BY <2>2, <2>3, <2>4 DEF Disk
<1>6. Session
  <2>1. SessionType
    BY <1>2, <1>4 DEF SessionType
  <2>2. AtPart /\ OneAnswerEach
    BY <1>2 DEF AtPart, OneAnswerEach
  <2>3. SessionInv
    BY <1>2, <2>2 DEF SessionInv, Reading
  <2> QED BY <2>1, <2>3 DEF Session
<1>7. HttpType
  BY <1>2, <1>3, <1>4 DEF HttpType, HttpPcs, Statuses
<1>8. PcInv
  BY <1>1, <1>2 DEF PcInv, NoAnswer
<1>9. RequestInv
  BY <1>2 DEF RequestInv
<1>10. Work
  BY <1>2 DEF Work, WriteInv, StreamInv, CreatedWhole, ServedAsPromised,
              NoAnswer
<1> QED BY <1>5, <1>6, <1>7, <1>8, <1>9, <1>10 DEF HttpInv, Talk

LEMMA ServerStep == ASSUME HttpInv, http_thread PROVE HttpInv'
<1>1. CASE StorageStep /\ UNCHANGED <<connection, wsVars, httpVars>>
  BY <1>1, OpenPageStep, ReadPageStep, ClosePageStep, DirStep, OpenStep,
     ChunkStep, SyncStep, CloseFileStep DEF StorageStep
<1>2. CASE RecvRequest \/ RecvRequestFails \/ handle_client \/ SendAnswer
           \/ CloseClient \/ CloseServed
  BY <1>2, RecvStep, LetGoStep, RouteStep, CloseStep
<1>3. CASE ReadBody \/ ReadBodyFails \/ PutDone
  BY <1>3, BodyStep, BodyFailsStep, PutDoneStep
<1>4. CASE SendHeader \/ socket_write \/ StreamDone
  BY <1>4, HeaderStep, WriterStep, PageDoneStep
<1> QED BY <1>1, <1>2, <1>3, <1>4 DEF http_thread

\* Whatever the constants are: whatever clients send, in whatever pieces it
\* is received, whatever fails and whenever the power does.
THEOREM Invariant == Spec => []HttpInv
<1>1. Init => HttpInv
  BY InitInv
<1>2. HttpInv /\ [Next]_vars => HttpInv'
  <2> SUFFICES ASSUME HttpInv, [Next]_vars PROVE HttpInv'
    OBVIOUS
  <2>1. CASE Next
    BY <2>1, AcceptStep, ServerStep, EchoStep, CloseStep, LeaveStep, PowerStep
       DEF Next
  <2>2. CASE UNCHANGED vars
    BY <2>2, StutterStep
  <2> QED BY <2>1, <2>2
<1> QED BY <1>1, <1>2, PTL DEF Spec

\* Every variable keeps its type, a chunk fits its buffer (storage.c:149,
\* 195) and a request its own (http_server.c:1072).
THEOREM TypeCorrect == Spec => []TypeOK
<1>1. HttpInv => TypeOK
  BY TypeParts
<1> QED BY <1>1, Invariant, PTL

\* The file system is used only while it is mounted (storage.c:65).
THEOREM MountedFirstHolds == Spec => []MountedFirst
<1>1. HttpInv => MountedFirst
  BY DEF HttpInv, Disk, MountInv
<1> QED BY <1>1, Invariant, PTL

\* What is on flash is the beginning of one upload, whatever broke off and
\* whenever (storage.c:221).
THEOREM PageSoundHolds == Spec => []PageSound
<1>1. HttpInv => PageSound
  BY DEF HttpInv, Disk
<1> QED BY <1>1, Invariant, PTL

\* A 201 is said of a page that is on flash from its first to its last byte
\* (http_server.c:1197).
THEOREM CreatedWholeHolds == Spec => []CreatedWhole
<1>1. HttpInv => CreatedWhole
  BY DEF HttpInv, Work
<1> QED BY <1>1, Invariant, PTL

\* A page that is sent is the one whose length was promised, and never more
\* of it (http_server.c:1258, 1296).
THEOREM ServedAsPromisedHolds == Spec => []ServedAsPromised
<1>1. HttpInv => ServedAsPromised
  BY DEF HttpInv, Work
<1> QED BY <1>1, Invariant, PTL

\* What a session has read of a frame is the beginning of the next one the
\* client sent (ws_recv_exact, http_server.c:660).
THEOREM FramesInStepHolds == Spec => []FramesInStep
<1>1. HttpInv => FramesInStep
  BY SessionInStep DEF HttpInv, Session
<1> QED BY <1>1, Invariant, PTL

\* Each frame of a client has its one answer, in their order
\* (websocket_echo_loop, http_server.c:682).
THEOREM OneAnswerEachHolds == Spec => []OneAnswerEach
<1>1. HttpInv => OneAnswerEach
  BY DEF HttpInv, Session, SessionInv
<1> QED BY <1>1, Invariant, PTL
=============================================================================
