------------------------------ MODULE FuseFile ------------------------------
(***************************************************************************)
(* What the FUSE daemon does to one remote file (gvfsfusedaemon.c).  The   *)
(* kernel's reads, writes and truncations carry offsets; gvfs has streams. *)
(* All opens of the file share one FileHandle with at most one stream,     *)
(* which is closed and opened again when the direction changes.  Requests  *)
(* are serialised by fh->mutex (FuseHandles has the threads), so each is   *)
(* one action.  content is what the requests should have made of the file. *)
(***************************************************************************)
EXTENDS Integers, Sequences, SequencesExt

CONSTANTS Fd,           \* files the kernel has open at once
          OpenFlags,    \* "r" O_RDONLY, "w" O_RDWR, "t" with O_TRUNC, "a" with O_APPEND
          Byte,         \* what is written
          MaxSize,      \* bound: offsets and sizes
          MaxOps,       \* bound: requests
          CanSeek,      \* g_seekable_can_seek of the backend's streams
          CanTruncate,  \* g_seekable_can_truncate
          Staged,       \* replace and create write to a temporary file until closed
          Faults        \* TRUE: opening a stream may fail

FuseAssumption == /\ OpenFlags \subseteq {"r", "w", "t", "a"} /\ 0 \notin Byte
                  /\ {CanSeek, CanTruncate, Staged, Faults} \subseteq BOOLEAN

VARIABLES
    file,     \* [there, data] on the server
    content,  \* ghost: what the answered requests make of it
    handle,   \* the FileHandle exists: some file is open
    op,       \* fh->op
    stream,   \* fh->stream: its kind, position and staged data
    pos,      \* fh->pos
    size,     \* fh->size, -1 when it is not tracked
    fd,       \* the flags of every open file, "closed"
    answer,   \* the last read or stat: what was answered and what content says
    ops

fh == <<op, stream, pos, size>>
vars == <<file, content, handle, fh, fd, answer, ops>>

Zeros(n) == [i \in 1 .. n |-> 0]
Pad(d, n) == IF Len(d) < n THEN d \o Zeros(n - Len(d)) ELSE d
Cut(d, n) == SubSeq(Pad(d, n), 1, n)
Put(d, at, b) == [Pad(d, at + 1) EXCEPT ![at + 1] = b]
Slice(d, at, n) == SubSeq(d, at + 1, IF at + n > Len(d) THEN Len(d) ELSE at + n)

NoStream == [kind |-> "none", at |-> 0, data |-> <<>>]
Nothing == [op |-> "none", got |-> <<>>, right |-> <<>>]
There(d) == [there |-> TRUE, data |-> d]
Streaming == stream.kind /= "none"

Init == /\ file \in {There(<<>>), There([i \in 1 .. 2 |-> CHOOSE b \in Byte : TRUE]),
                     [there |-> FALSE, data |-> <<>>]}
        /\ content = file /\ handle = FALSE
        /\ op = "none" /\ stream = NoStream /\ pos = 0 /\ size = -1
        /\ fd = [f \in Fd |-> "closed"] /\ answer = Nothing /\ ops = 0
-----------------------------------------------------------------------------
\* The data a stream s writes is visible on the server at once, or when s is
\* closed if it is staged.
Data(s, f) == IF s.kind = "staged" THEN s.data ELSE f.data
Commit(s, f) == IF s.kind = "staged" THEN There(s.data) ELSE f
Store(s, f, d) == IF s.kind = "staged" THEN [s |-> [s EXCEPT !.data = d], f |-> f]
                  ELSE [s |-> s, f |-> There(d)]

\* The streams the backend opens: g_file_read, g_file_replace or g_file_create,
\* g_file_append_to, _g_file_edit.  Appending starts at the end.
Reader == [kind |-> "read", at |-> 0, data |-> <<>>]
Replacer == [kind |-> IF Staged THEN "staged" ELSE "edit", at |-> 0, data |-> <<>>]
Appender(f) == [kind |-> "append", at |-> Len(f.data), data |-> <<>>]
Editor == [kind |-> "edit", at |-> 0, data |-> <<>>]
Seekable(s) == CanSeek /\ s.kind /= "append"
\* What opening does to the file at once.
Opened(s, f, trunc) == IF s.kind = "staged" THEN f ELSE IF trunc THEN There(<<>>) ELSE There(f.data)

\* A state of the handle and the file, and the result of a call on it.
Here == [file |-> file, op |-> op, stream |-> stream, pos |-> pos, size |-> size,
         ok |-> TRUE, got |-> <<>>]
Into(h) == /\ file' = h.file /\ op' = h.op /\ stream' = h.stream /\ pos' = h.pos /\ size' = h.size

\* file_handle_close_stream.
CloseStream(h) ==
    IF h.stream.kind = "none" THEN h
    ELSE [h EXCEPT !.file = Commit(h.stream, h.file), !.stream = NoStream, !.op = "none", !.size = -1]

\* setup_input_stream: a write stream is closed first; fail is g_file_read's error.
SetupInput(h, fail) ==
    IF h.stream.kind = "read" THEN [h EXCEPT !.op = "read"]
    ELSE LET c == IF h.stream.kind = "none" THEN h
                  ELSE [h EXCEPT !.file = Commit(h.stream, h.file), !.size = -1]
         IN IF fail \/ ~c.file.there
            THEN [c EXCEPT !.stream = NoStream, !.op = "none", !.pos = 0, !.ok = FALSE]
            ELSE [c EXCEPT !.stream = Reader, !.op = "read", !.pos = 0]

\* setup_output_stream: an open write stream is kept whatever the flags say.
SetupOutput(h, flags, fail) ==
    IF h.stream.kind \in {"staged", "edit", "append"} THEN [h EXCEPT !.op = "write"]
    ELSE LET trunc == flags = "t"
             s == CASE trunc -> Replacer [] flags = "a" -> Appender(h.file) [] OTHER -> Editor
             c == [h EXCEPT !.size = IF trunc THEN 0 ELSE @]
         IN IF fail THEN [c EXCEPT !.stream = NoStream, !.op = "none", !.ok = FALSE]
            ELSE [c EXCEPT !.file = Opened(s, h.file, trunc), !.stream = s, !.op = "write", !.pos = s.at]

\* read_stream: seek, skip ahead, or fail; then read.
ReadStream(h, at, n) ==
    IF at < h.pos /\ ~CanSeek THEN [h EXCEPT !.ok = FALSE]
    ELSE LET real == IF at = h.pos THEN h.stream.at
                     ELSE IF CanSeek THEN at ELSE h.stream.at + (at - h.pos)
             got == Slice(h.file.data, real, n)
         IN IF at /= h.pos /\ ~CanSeek /\ real > Len(h.file.data)
            THEN LET skipped == Len(h.file.data) - h.stream.at
                 IN [h EXCEPT !.ok = FALSE, !.pos = @ + skipped, !.stream.at = @ + skipped]
            ELSE [h EXCEPT !.got = got, !.stream.at = real + Len(got), !.pos = at + Len(got)]

\* write_stream of one byte, with its flush; an appending stream writes at the end.
WriteStream(h, isAppend, at, b) ==
    LET seek == ~isAppend /\ at /= h.pos IN
    IF seek /\ ~Seekable(h.stream) THEN [h EXCEPT !.ok = FALSE]
    ELSE LET real == IF h.stream.kind = "append" THEN Len(h.file.data)
                     ELSE IF seek THEN at ELSE h.stream.at
             p == IF seek THEN at ELSE h.pos
             put == Store(h.stream, h.file, Put(Data(h.stream, h.file), real, b))
         IN [h EXCEPT !.stream = [put.s EXCEPT !.at = real + 1], !.file = put.f, !.pos = p + 1,
                      !.size = IF @ /= -1 /\ p + 1 > @ THEN p + 1 ELSE @]

\* pad_file: write_stream of zeros from the current end.
PadFile(h, from, to) ==
    LET put == Store(h.stream, h.file, Pad(Data(h.stream, h.file), to)) IN
    [h EXCEPT !.stream = [put.s EXCEPT !.at = to], !.file = put.f, !.pos = to,
              !.size = IF @ /= -1 /\ to > @ THEN to ELSE @]

\* truncate_stream: truncated, replaced by an empty file, or padded; the stream
\* is put back where it stood.
TruncateStream(h, n) ==
    LET now == Data(h.stream, h.file)
        done == IF CanTruncate
                THEN LET put == Store(h.stream, h.file, Cut(now, n))
                     IN [h EXCEPT !.stream = put.s, !.file = put.f]
                ELSE IF n = 0 THEN [h EXCEPT !.stream = NoStream, !.file = There(<<>>)]
                ELSE IF Len(now) < n /\ Seekable(h.stream)
                THEN [PadFile(h, Len(now), n) EXCEPT !.stream.at = h.stream.at]
                ELSE h
    IN [done EXCEPT !.size = IF @ /= -1 THEN n ELSE @]
-----------------------------------------------------------------------------
\* One request more; the sizes stay in the bound.
Request == ops < MaxOps /\ ops' = ops + 1
May(fail) == fail \in BOOLEAN /\ (fail => Faults)

\* vfs_open of a regular file that exists, with open_common.
VfsOpen(f, flags) ==
    /\ Request /\ fd[f] = "closed" /\ flags \in OpenFlags /\ file.there
    /\ \E fail \in BOOLEAN : /\ May(fail)
        /\ LET start == IF handle THEN Here ELSE [Here EXCEPT !.pos = 0]
               h == IF flags = "r" THEN SetupInput(start, fail) ELSE SetupOutput(start, flags, fail)
           IN /\ Into(IF h.ok \/ handle THEN h ELSE [CloseStream(h) EXCEPT !.size = -1])
              /\ handle' = (handle \/ h.ok)
              /\ fd' = IF h.ok THEN [fd EXCEPT ![f] = flags] ELSE fd
              /\ content' = IF h.ok /\ flags = "t" THEN There(<<>>) ELSE content
    /\ answer' = Nothing

\* vfs_create: the kernel asks for it when vfs_getattr told it that there is no
\* such file, so there is no handle either.
VfsCreate(f) ==
    /\ Request /\ fd[f] = "closed" /\ ~file.there /\ ~handle /\ "w" \in OpenFlags
    /\ LET h == CloseStream([Here EXCEPT !.pos = 0])
       IN Into([h EXCEPT !.file = Opened(Replacer, file, TRUE), !.stream = Replacer,
                         !.size = 0, !.op = "write"])
    /\ handle' = TRUE /\ fd' = [fd EXCEPT ![f] = "w"] /\ content' = There(<<>>)
    /\ answer' = Nothing

\* vfs_release closes the stream, whoever else has the file open.
VfsRelease(f) ==
    /\ Request /\ fd[f] /= "closed"
    /\ LET last == \A g \in Fd \ {f} : fd[g] = "closed" IN
        /\ Into(CloseStream(Here)) /\ handle' = ~last
    /\ fd' = [fd EXCEPT ![f] = "closed"]
    /\ UNCHANGED content /\ answer' = Nothing

\* vfs_read: a stream that cannot seek back is opened again.
VfsRead(f, at, n) ==
    /\ Request /\ fd[f] /= "closed"
    /\ \E fail \in BOOLEAN : /\ May(fail)
        /\ LET s == SetupInput(Here, fail)
               r == ReadStream(s, at, n)
               again == SetupInput(CloseStream([r EXCEPT !.ok = TRUE]), FALSE)
               h == IF ~s.ok THEN s
                    ELSE IF ~r.ok /\ at < r.pos THEN ReadStream(again, at, n)
                    ELSE r
           IN /\ Into(h)
              /\ answer' = IF h.ok THEN [op |-> "read", got |-> h.got, right |-> Slice(content.data, at, n)]
                           ELSE Nothing
    /\ UNCHANGED <<content, handle, fd>>

\* vfs_write; the kernel asks for the end of the file when O_APPEND is set.
VfsWrite(f, at, b) ==
    LET append == fd[f] = "a"
        where == IF append THEN Len(content.data) ELSE at
    IN
    /\ Request /\ fd[f] \in {"w", "t", "a"} /\ where < MaxSize
    /\ \E fail \in BOOLEAN : /\ May(fail)
        /\ LET s == SetupOutput(Here, IF append THEN "a" ELSE "w", fail)
               h == IF s.ok THEN WriteStream(s, append, where, b) ELSE s
           IN /\ Into(h)
              /\ content' = IF h.ok THEN There(Put(content.data, where, b)) ELSE content
    /\ answer' = Nothing /\ UNCHANGED <<handle, fd>>

\* vfs_ftruncate.  Only what truncate_stream can do counts: a backend that can
\* neither truncate nor shrink leaves the file as it is.
Truncated(n) == IF CanTruncate \/ n = 0 \/ n > Len(content.data) THEN There(Cut(content.data, n))
                ELSE content
VfsFtruncate(f, n) ==
    /\ Request /\ fd[f] \in {"w", "t"}
    /\ LET s == SetupOutput(Here, "w", FALSE) IN Into(TruncateStream(s, n))
    /\ content' = Truncated(n) /\ answer' = Nothing /\ UNCHANGED <<handle, fd>>

\* vfs_truncate by path: through the handle's write stream if there is one,
\* else with a stream of its own.
VfsTruncate(n) ==
    /\ Request /\ file.there /\ (n = 0 \/ CanTruncate)
    /\ IF Streaming /\ op = "write" THEN Into(TruncateStream(Here, n))
       ELSE file' = There(Cut(file.data, n)) /\ UNCHANGED fh
    /\ content' = There(Cut(content.data, n)) /\ answer' = Nothing /\ UNCHANGED <<handle, fd>>

\* vfs_getattr: the stream's size, or the file's unless the handle tracks one;
\* a handle without a file is pretended to be one.  "error" is -EIO.
GetattrOf(h) ==
    IF handle /\ h.op /= "none"
    THEN IF h.stream.kind = "none" THEN <<"error">> ELSE <<"size", Len(Data(h.stream, h.file))>>
    ELSE IF handle /\ h.size /= -1 THEN <<"size", h.size>>
    ELSE IF h.file.there THEN <<"size", Len(h.file.data)>>
    ELSE IF handle THEN <<"size", 0>> ELSE <<"missing">>
VfsGetattr ==
    /\ Request
    /\ answer' = [op |-> "getattr", got |-> GetattrOf(Here),
                  right |-> IF content.there THEN <<"size", Len(content.data)>> ELSE <<"missing">>]
    /\ UNCHANGED <<file, content, handle, fh, fd>>

\* vfs_access: an error counts for nothing while a handle exists.
VfsAccess ==
    /\ Request
    /\ answer' = [op |-> "access", got |-> <<file.there \/ handle>>, right |-> <<content.there>>]
    /\ UNCHANGED <<file, content, handle, fh, fd>>

\* vfs_unlink; libfuse renames a file that is open instead.
VfsUnlink ==
    /\ Request /\ ~handle /\ file.there
    /\ file' = [there |-> FALSE, data |-> <<>>] /\ content' = file' /\ answer' = Nothing
    /\ UNCHANGED <<handle, fh, fd>>

Next == \/ \E f \in Fd, flags \in OpenFlags : VfsOpen(f, flags)
        \/ \E f \in Fd : VfsCreate(f) \/ VfsRelease(f)
        \/ \E f \in Fd, at \in 0 .. MaxSize - 1, n \in 1 .. 2 : VfsRead(f, at, n)
        \/ \E f \in Fd, at \in 0 .. MaxSize - 1, b \in Byte : VfsWrite(f, at, b)
        \/ \E f \in Fd, n \in 0 .. MaxSize : VfsFtruncate(f, n)
        \/ \E n \in 0 .. MaxSize : VfsTruncate(n)
        \/ VfsGetattr \/ VfsAccess \/ VfsUnlink
Spec == Init /\ [][Next]_vars
-----------------------------------------------------------------------------
TypeOK == /\ op \in {"none", "read", "write"} /\ handle \in BOOLEAN
          /\ stream.kind \in {"none", "read", "staged", "edit", "append"}
          /\ pos \in Nat /\ size \in -1 .. MaxSize + 1 /\ ops \in 0 .. MaxOps
          /\ fd \in [Fd -> {"closed"} \cup OpenFlags \cup {"w"}]
          /\ file.there \in BOOLEAN /\ content.there \in BOOLEAN

\* Through reopened, replaced and closed streams nothing that a request was
\* told is done is lost: closing what is open leaves exactly that content.
NothingLost == Commit(stream, file) = content

\* A read answers what was written before, whichever stream it went through:
\* the write stream is closed, and committed, before the read stream is opened.
ReadsBack == answer.op = "read" => answer.got = answer.right

\* stat tells the size that was written, also while a temporary file holds it.
SizeTold == answer.op = "getattr" => answer.got = answer.right

\* access never denies a file the daemon created and the server lacks so far.
AccessTold == answer.op = "access" => answer.got = answer.right

\* Where the handle thinks the stream stands is where it stands: a write lands
\* at its offset ("write_stream: %zd bytes at offset %ju").
PositionTrue == Streaming /\ stream.kind /= "append" => pos = stream.at
=============================================================================
