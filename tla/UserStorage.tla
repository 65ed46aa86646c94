----------------------------- MODULE UserStorage -----------------------------
(***************************************************************************)
(* src/storage.c: the LittleFS volume that holds the one user page.        *)
(*                                                                         *)
(* All calls come from the HTTP thread, so this module has the state, the  *)
(* entry points and the steps of that thread inside storage.c; HttpServer  *)
(* supplies the callbacks (the reader of a body, the writer of a page).    *)
(* storage_lock is left out: it is never contended.  A byte of the model   *)
(* is a pair, of the upload it came with and its place there.              *)
(*                                                                         *)
(* The file system is LittleFS as this code uses it: opening to write      *)
(* creates an empty file at once but truncates an old one only with the    *)
(* next sync or close; both commit what was written, all of it or nothing; *)
(* after a failed write or sync the file is not committed any more; every  *)
(* call may fail.                                                          *)
(***************************************************************************)
EXTENDS Integers, Sequences, Buffers

CONSTANTS STORAGE_IO_CHUNK,  \* bytes read and written at a time
          Capacity,          \* size of the volume, in bytes of the model
          NoPage             \* marks a page that was never created

ASSUME UserStorageAssumption ==
  /\ STORAGE_IO_CHUNK \in Nat \ {0}
  /\ Capacity \in Nat

VARIABLES
  user_dir,         \* flash: the directory /lfs/user is there
  page,             \* flash: the content of index.html, as committed
  mount_attempted, mounted, mount_ret,
  total_kib, free_kib,
  file,             \* the open struct fs_file_t
  fsPc,             \* the HTTP thread inside storage.c
  remaining, buf,   \* locals of the two streaming functions
  ret               \* what the function returns

flash == <<user_dir, page>>
mount == <<mount_attempted, mounted, mount_ret>>
space == <<total_kib, free_kib>>
stream == <<file, fsPc, remaining, buf, ret>>
storageVars == <<flash, mount, space, stream>>

NoFile == [open |-> FALSE, bytes |-> <<>>, pos |-> 0, erred |-> FALSE]

\* What a start of the board sets: everything that is not on flash.
StorageReset ==
  /\ mount_attempted' = FALSE /\ mounted' = FALSE /\ mount_ret' = "ENODEV"
  /\ total_kib' = 0 /\ free_kib' = 0
  /\ file' = NoFile /\ fsPc' = "idle" /\ remaining' = 0 /\ buf' = <<>>
  /\ ret' = "ok"

StorageInit ==
  /\ user_dir = FALSE /\ page = NoPage
  /\ mount_attempted = FALSE /\ mounted = FALSE /\ mount_ret = "ENODEV"
  /\ total_kib = 0 /\ free_kib = 0
  /\ file = NoFile /\ fsPc = "idle" /\ remaining = 0 /\ buf = <<>>
  /\ ret = "ok"

PageBytes == IF page = NoPage THEN <<>> ELSE page

-----------------------------------------------------------------------------
(* Mounting and free space.                                                *)

\* Zero when the volume is not mounted or does not say.
update_space_locked(used) ==
  \/ total_kib' = 0 /\ free_kib' = 0
  \/ /\ mounted'
     /\ total_kib' = Capacity
     /\ free_kib' = Capacity - Len(used)

\* fault: the failure of the first attempt is forgotten
RetryOk == "ok"
RememberedRet == mount_ret

\* storage_mount_once but for the space: there is one attempt per start.
MountOnce(r) ==
  /\ mount_attempted' = TRUE
  /\ IF mount_attempted
       THEN r = RememberedRet /\ UNCHANGED <<mounted, mount_ret>>
       ELSE /\ r \in {"ok", "error"}
            /\ mount_ret' = r
            /\ mounted' = (r = "ok")

storage_mount_once(r) ==
  /\ MountOnce(r)
  /\ IF mounted' /\ ~mounted THEN update_space_locked(PageBytes)
                           ELSE UNCHANGED space

\* storage_format_status_json with storage_get_status.
storage_format_status_json ==
  /\ \E r \in {"ok", "error"} : MountOnce(r)
  /\ update_space_locked(PageBytes)
  /\ UNCHANGED <<flash, stream>>

NoSize == -1

\* storage_user_index_size: size is NoSize for every failure.
storage_user_index_size(size) ==
  /\ \E r \in {"ok", "error"} :
       /\ storage_mount_once(r)
       /\ size \in {NoSize} \cup
            (IF r = "ok" /\ page # NoPage THEN {Len(page)} ELSE {})
  /\ UNCHANGED <<flash, stream>>

-----------------------------------------------------------------------------
(* storage_stream_user_index.                                              *)

Goto(pc) == fsPc' = pc
Return(r) == ret' = r /\ Goto("return")

StreamStart ==
  /\ fsPc = "idle"
  /\ \E r \in {"ok", "error"} :
       /\ storage_mount_once(r)
       /\ IF r = "ok" THEN Goto("stream_open") /\ UNCHANGED ret ELSE Return(r)
  /\ UNCHANGED <<flash, file, remaining, buf>>

StreamOpen ==
  /\ fsPc = "stream_open"
  /\ \/ /\ page # NoPage
        /\ file' = [NoFile EXCEPT !.open = TRUE, !.bytes = page]
        /\ Goto("stream_read")
        /\ UNCHANGED ret
     \/ UNCHANGED file /\ Return("error")
  /\ UNCHANGED <<flash, mount, space, remaining, buf>>

\* fault: takes a short chunk for the end and leaves it out
IsEndShort(n) == n < STORAGE_IO_CHUNK
IsEnd(n) == n = 0

StreamRead ==
  /\ fsPc = "stream_read"
  /\ LET rest  == Drop(file.bytes, file.pos)
         chunk == Take(rest, Smaller(STORAGE_IO_CHUNK, Len(rest)))
     IN  IF IsEnd(Len(chunk))
           THEN ret' = "ok" /\ Goto("stream_close") /\ UNCHANGED <<file, buf>>
           ELSE \/ /\ buf' = chunk
                   /\ file' = [file EXCEPT !.pos = @ + Len(chunk)]
                   /\ Goto("writer")
                   /\ UNCHANGED ret
                \/ /\ ret' = "error"
                   /\ Goto("stream_close")
                   /\ UNCHANGED <<file, buf>>
  /\ UNCHANGED <<flash, mount, space, remaining>>

\* The writer has returned r.
StreamWritten(r) ==
  /\ fsPc = "writer"
  /\ buf' = <<>>
  /\ ret' = r
  /\ Goto(IF r = "ok" THEN "stream_read" ELSE "stream_close")
  /\ UNCHANGED <<flash, mount, space, file, remaining>>

StreamClose ==
  /\ fsPc = "stream_close"
  /\ file' = NoFile
  /\ Goto("return")
  /\ UNCHANGED <<flash, mount, space, remaining, buf, ret>>

-----------------------------------------------------------------------------
(* storage_write_user_index_stream.                                        *)

WriteStart(len) ==
  /\ fsPc = "idle"
  /\ remaining' = len
  /\ \E r \in {"ok", "error"} :
       /\ storage_mount_once(r)
       /\ IF r = "ok" THEN Goto("dir") /\ UNCHANGED ret ELSE Return(r)
  /\ UNCHANGED <<flash, file, buf>>

\* fs_stat, and fs_mkdir when there is no directory.
WriteDir ==
  /\ fsPc = "dir"
  /\ \/ user_dir' = TRUE /\ Goto("open") /\ UNCHANGED ret
     \/ UNCHANGED user_dir /\ Return("error")
  /\ UNCHANGED <<page, mount, space, file, remaining, buf>>

\* fault: without FS_O_TRUNC
OpenedAsItWas == PageBytes
OpenedContent == <<>>

WriteOpen ==
  /\ fsPc = "open"
  /\ \/ /\ file' = [NoFile EXCEPT !.open = TRUE, !.bytes = OpenedContent]
        /\ page' = PageBytes
        /\ Goto(IF remaining = 0 THEN "sync" ELSE "body")
        /\ UNCHANGED ret
     \/ UNCHANGED <<file, page>> /\ Return("error")
  /\ UNCHANGED <<user_dir, mount, space, remaining, buf>>

Requested == Smaller(remaining, STORAGE_IO_CHUNK)

\* fault: counts what it asked for, not what it got
ReadLenRequested(data) == Requested
ReadLen(data) == Len(data)

\* The reader has returned r and data.
WriteBody(r, data) ==
  /\ fsPc = "body"
  /\ IF r = "error" \/ Len(data) \notin 1..Requested
       THEN /\ ret' = "error" /\ Goto("close")
            /\ UNCHANGED <<buf, remaining>>
       ELSE /\ buf' = data
            /\ remaining' = remaining - ReadLen(data)
            /\ Goto("write")
            /\ UNCHANGED ret
  /\ UNCHANGED <<flash, mount, space, file>>

Overwrite(s, pos, data) ==
  Take(s, pos) \o data \o Drop(s, pos + Len(data))

\* One fs_write of the inner loop: it may write less than it is given; no
\* byte at all counts as a failure.
WriteChunk ==
  /\ fsPc = "write"
  /\ \/ \E n \in 1..Len(buf) :
          /\ file.pos + n <= Capacity
          /\ file' = [file EXCEPT
                        !.bytes = Overwrite(@, file.pos, Take(buf, n)),
                        !.pos = @ + n]
          /\ buf' = Drop(buf, n)
          /\ Goto(IF n < Len(buf) THEN "write"
                  ELSE IF remaining > 0 THEN "body" ELSE "sync")
          /\ UNCHANGED ret
     \/ /\ \E lost \in BOOLEAN : file' = [file EXCEPT !.erred = lost]
        /\ ret' = "error"
        /\ Goto("close")
        /\ buf' = <<>>
  /\ UNCHANGED <<flash, mount, space, remaining>>

WriteSync ==
  /\ fsPc = "sync"
  /\ \/ page' = file.bytes /\ UNCHANGED <<file, ret>>
     \/ /\ file' = [file EXCEPT !.erred = TRUE]
        /\ ret' = "error"
        /\ UNCHANGED page
  /\ Goto("close")
  /\ UNCHANGED <<user_dir, mount, space, remaining, buf>>

\* fs_close commits what a file still holds, on the error path as well.
WriteClose ==
  /\ fsPc = "close"
  /\ page' \in (IF file.erred THEN {page} ELSE {page, file.bytes})
  /\ file' = NoFile
  /\ Goto("return")
  /\ remaining' = 0
  /\ UNCHANGED <<user_dir, mount, buf, ret>>
  /\ IF ret = "ok" THEN update_space_locked(file.bytes) ELSE UNCHANGED space

\* The steps that need nothing from a caller.
StorageStep == \/ StreamOpen \/ StreamRead \/ StreamClose
               \/ WriteDir \/ WriteOpen \/ WriteChunk \/ WriteSync
               \/ WriteClose
=============================================================================
