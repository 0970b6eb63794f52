----------------------------- MODULE MtpHandles -----------------------------
(***************************************************************************)
(* The open files of the backend for phones and players                    *)
(* (daemon/gvfsbackendmtp.c).  A handle keeps the number of the object, an *)
(* offset, the size it believes the file to have and how it was opened;    *)
(* the object is edited in place.  What a device can do differs.  One      *)
(* file, one write handle, one read handle and one preview; each job is    *)
(* one step under the mutex, and each call of libmtp may fail.             *)
(***************************************************************************)
EXTENDS Integers, Sequences, SequencesExt

CONSTANTS MaxLen,      \* units in a file
          MaxJobs, MaxFaults,
          Devices,     \* the sets of capabilities: "get", "send", "edit", "android"
          Limit,       \* the largest offset a device without the android extension takes
          Ops
HandlesAssumption == MaxLen \in Nat /\ MaxJobs \in Nat /\ MaxFaults \in Nat /\ Limit \in Nat

VARIABLES
    caps, mounted,
    kind, data,     \* the object: "none", "file" or "folder", and its content
    w,              \* the write handle
    r,              \* the read handle
    out,            \* what the last read returned
    ans, did,
    want, pos,      \* ghost: the content and the offset a local file would have
    failed,         \* ghost: a call failed since the file was opened
    over,           \* a read went past the end of a preview
    jobs, faults
vars == <<caps, mounted, kind, data, w, r, out, ans, did, want, pos, failed, over, jobs, faults>>

Closed == [open |-> FALSE, mode |-> "none", off |-> 0, size |-> 0]
NoRead == [open |-> FALSE, type |-> "none", off |-> 0, size |-> 0, bytes |-> <<>>]
Init == /\ caps = {} /\ mounted = FALSE /\ kind \in {"none", "file", "folder"} /\ data = IF kind = "file" THEN <<"o", "o">> ELSE <<>>
        /\ w = Closed /\ r = NoRead /\ out = <<>> /\ ans = "none" /\ did = "none" /\ want = data /\ pos = 0 /\ failed = FALSE /\ over = FALSE
        /\ jobs = 0 /\ faults = 0

(* get_device: the device is found and opened, and what it can do is       *)
(* asked; one with all three calls counts as an Android device.            *)
GetDevice(d) == d \cup IF {"get", "send", "edit"} \subseteq d THEN {"android"} ELSE {}
Mount == /\ ~mounted /\ mounted' = TRUE /\ caps' \in {GetDevice(d) : d \in Devices}
         /\ UNCHANGED <<kind, data, w, r, out, ans, did, want, pos, failed, over, jobs, faults>>

Job(op) == /\ mounted /\ op \in Ops /\ jobs < MaxJobs /\ jobs' = jobs + 1 /\ did' = op /\ UNCHANGED <<caps, mounted>>
Calls == {"ok"} \cup IF faults < MaxFaults THEN {"failed"} ELSE {}
Count(rc) == faults' = faults + (IF rc = "failed" THEN 1 ELSE 0)
Min2(a, b) == IF a < b THEN a ELSE b
Zeros(n) == [i \in 1..n |-> 0]
Cut(d, n) == SubSeq(d, 1, Min2(n, Len(d))) \o Zeros(n - Min2(n, Len(d)))
\* LIBMTP_SendPartialObject: d with b written at offset o
Overlay(d, o, b) == LET base == IF o > Len(d) THEN Cut(d, o) ELSE d
                    IN SubSeq(base, 1, o) \o b \o SubSeq(base, o + Len(b) + 1, Len(base))

-----------------------------------------------------------------------------
(* Writing.                                                                *)
Answer(rc) == ans' = rc /\ UNCHANGED <<kind, data, w, want, pos, failed>>
\* open_for_write: create, append and edit; a missing file is made empty
\* first, then the object is edited in place
OpenForWrite(mode) ==
    /\ Job(mode) /\ ~w.open /\ UNCHANGED <<r, out, over>>
    /\ \/ /\ ~({"send", "edit"} \subseteq caps) /\ Answer("not supported") /\ Count("ok")
       \/ /\ {"send", "edit"} \subseteq caps
          /\ \/ mode = "create" /\ kind # "none" /\ Answer("exists") /\ Count("ok")
             \/ mode # "create" /\ kind = "folder" /\ Answer("is directory") /\ Count("ok")
             \/ /\ IF mode = "create" THEN kind = "none" ELSE kind # "folder"
                /\ \E made, begun \in Calls :
                      /\ Count(IF "failed" \in {made, begun} THEN "failed" ELSE "ok") /\ (kind # "none" => made = "ok") /\ (made = "failed" => begun = "ok")
                      /\ kind' = IF made = "ok" THEN "file" ELSE kind
                      /\ IF made = "ok" /\ begun = "ok"
                         THEN /\ ans' = "ok" /\ want' = data /\ failed' = FALSE /\ pos' = IF mode = "append" THEN Len(data) ELSE 0
                              /\ w' = [open |-> TRUE, mode |-> mode, off |-> IF mode = "append" THEN Len(data) ELSE 0, size |-> Len(data)]
                         ELSE ans' = "failed" /\ UNCHANGED <<w, want, pos, failed>>
                      /\ data' = data
\* do_replace: the object is emptied and written again
ReplaceExisting ==
    /\ Job("replace") /\ ~w.open /\ kind # "none" /\ UNCHANGED <<r, out, over>>
    /\ \/ "edit" \notin caps /\ Answer("not supported") /\ Count("ok")
       \/ "edit" \in caps /\ kind = "folder" /\ Answer("is directory") /\ Count("ok")
       \/ /\ "edit" \in caps /\ kind = "file"
          /\ \E rc \in Calls : /\ Count(rc) /\ ans' = rc /\ kind' = kind
                               /\ IF rc = "ok" THEN /\ data' = <<>> /\ want' = <<>> /\ pos' = 0 /\ failed' = FALSE
                                                    /\ w' = [open |-> TRUE, mode |-> "replace", off |-> 0, size |-> 0]
                                  ELSE UNCHANGED <<data, w, want, pos, failed>>
Replace == ReplaceExisting \/ (kind = "none" /\ "edit" \in caps /\ OpenForWrite("replace"))
\* do_write: at the end when appending; a gap is filled by pad_file first
WriteAt(x) == IF x.mode = "append" THEN x.size ELSE x.off
Pad(x, o) == IF o > x.size THEN Overlay(data, x.size, Zeros(o - x.size)) ELSE data

Write(b) ==
    /\ Job("write") /\ w.open /\ UNCHANGED <<r, out, over, kind>>
    /\ LET o == WriteAt(w)
           at == IF w.mode = "append" THEN Len(want) ELSE pos
       IN /\ o + Len(b) <= MaxLen /\ at + Len(b) <= MaxLen
          /\ \E padded, sent \in IF "send" \in caps THEN Calls ELSE {"failed"} :
                /\ (padded = "failed" => sent = "failed") /\ (o <= w.size => padded = "ok" \/ "send" \notin caps)
                /\ Count(IF "send" \in caps THEN sent ELSE "ok") /\ ans' = sent
                /\ data' = IF padded = "failed" THEN data ELSE IF sent = "failed" THEN Pad(w, o) ELSE Overlay(Pad(w, o), o, b)
                /\ IF sent = "ok" THEN /\ w' = [w EXCEPT !.off = o + Len(b), !.size = IF o + Len(b) > w.size THEN o + Len(b) ELSE @]
                                       /\ want' = Overlay(want, at, b) /\ pos' = at + Len(b) /\ failed' = failed
                   ELSE w' = w /\ want' = want /\ pos' = pos /\ failed' = TRUE
Target(h, type, n) == IF type = "end" THEN h.size + n ELSE IF type = "cur" THEN h.off + n ELSE n
Expected(type, n) == IF type = "end" THEN Len(want) + n ELSE IF type = "cur" THEN pos + n ELSE n
SeekOnWrite(type, n) ==
    /\ Job("seek") /\ w.open /\ Target(w, type, n) <= MaxLen /\ Count("ok") /\ UNCHANGED <<r, out, over, kind, data, want, failed>>
    /\ IF Target(w, type, n) < 0 THEN ans' = "invalid" /\ w' = w /\ pos' = pos
       ELSE ans' = "ok" /\ w' = [w EXCEPT !.off = Target(w, type, n)] /\ pos' = Expected(type, n)
Truncate(n) ==
    /\ Job("truncate") /\ w.open /\ UNCHANGED <<r, out, over, kind, pos>>
    /\ \E rc \in Calls : /\ Count(rc) /\ ans' = rc
                         /\ IF rc = "ok" THEN data' = Cut(data, n) /\ want' = Cut(want, n) /\ w' = [w EXCEPT !.size = n] /\ failed' = failed
                            ELSE failed' = TRUE /\ UNCHANGED <<data, want, w>>
\* do_close_write: the handle goes whatever the device says
CloseWrite == /\ Job("close") /\ w.open /\ w' = Closed /\ UNCHANGED <<r, out, over, kind, data, want, pos, failed>>
              /\ \E rc \in Calls : Count(rc) /\ ans' = rc

-----------------------------------------------------------------------------
(* Reading.                                                                *)
Reads == UNCHANGED <<kind, data, w, want, pos, failed>>
OpenForRead ==
    /\ Job("read") /\ ~r.open /\ Reads /\ UNCHANGED <<out, over>>
    /\ \/ "get" \notin caps /\ ans' = "not supported" /\ r' = r /\ Count("ok")
       \/ "get" \in caps /\ kind = "none" /\ ans' = "not found" /\ r' = r /\ Count("ok")
       \/ "get" \in caps /\ kind = "folder" /\ ans' = "is directory" /\ r' = r /\ Count("ok")
       \/ /\ "get" \in caps /\ kind = "file"
          /\ \E rc \in Calls : /\ Count(rc) /\ ans' = rc
                               /\ r' = IF rc = "ok" THEN [open |-> TRUE, type |-> "file", off |-> 0, size |-> Len(data), bytes |-> <<>>] ELSE r
\* do_open_icon_for_read: the thumbnail, or else the sample, or nothing
OpenIconForRead ==
    /\ Job("icon") /\ ~r.open /\ Reads /\ UNCHANGED <<out, over>> /\ Count("ok")
    /\ \/ ans' = "not found" /\ r' = r
       \/ kind = "file" /\ ans' = "ok" /\ r' = [open |-> TRUE, type |-> "preview", off |-> 0, size |-> 2, bytes |-> <<"p", "q">>]
SeekOnRead(type, n) ==
    /\ Job("readseek") /\ r.open /\ Target(r, type, n) <= MaxLen /\ Reads /\ Count("ok") /\ UNCHANGED <<out, over>>
    /\ IF Target(r, type, n) < 0 THEN ans' = "invalid" /\ r' = r
       ELSE ans' = "ok" /\ r' = [r EXCEPT !.off = Target(r, type, n)]
\* do_read: past the size there is nothing, and no more than it is asked for;
\* a preview has no such check: its length minus the offset wraps around
Slice(d, o, n) == SubSeq(d, o + 1, Min2(o + n, Len(d)))

Ask(n) == IF r.off + n > r.size THEN r.size - r.off ELSE n
ReadFile(n) ==
    /\ Job("read") /\ r.open /\ r.type = "file" /\ Reads /\ over' = over
    /\ \/ r.off > Limit /\ "android" \notin caps /\ ans' = "not supported" /\ UNCHANGED <<r, out>> /\ Count("ok")
       \/ /\ r.off <= Limit \/ "android" \in caps
          /\ \/ r.off >= r.size /\ ans' = "ok" /\ out' = <<>> /\ r' = r /\ Count("ok")
             \/ /\ r.off < r.size
                /\ \E rc \in Calls \cup {"invalid"} :
                      /\ Count(IF rc = "invalid" THEN "ok" ELSE rc) /\ ans' = rc
                      /\ IF rc = "ok" THEN out' = Slice(data, r.off, Ask(n)) /\ r' = [r EXCEPT !.off = @ + Len(Slice(data, r.off, Ask(n)))]
                         ELSE UNCHANGED <<out, r>>
ReadPreview(n) ==
    /\ Job("read") /\ r.open /\ r.type = "preview" /\ Reads /\ Count("ok") /\ ans' = "ok"
    /\ LET actual == IF r.off > Len(r.bytes) THEN n ELSE Min2(Len(r.bytes) - r.off, n)
       IN /\ over' = (over \/ r.off + actual > Len(r.bytes)) /\ out' = Slice(r.bytes, r.off, actual)
          /\ r.off + actual <= MaxLen /\ r' = [r EXCEPT !.off = @ + actual]
CloseRead == /\ Job("read") /\ r.open /\ r' = NoRead /\ ans' = "ok" /\ Reads /\ Count("ok") /\ UNCHANGED <<out, over>>

Next == \/ Mount \/ (\E m \in {"create", "append", "edit"} : OpenForWrite(m)) \/ Replace
        \/ (\E b \in {<<"x">>, <<"y", "y">>} : Write(b)) \/ (\E t \in {"set", "cur", "end"}, n \in -1..2 : SeekOnWrite(t, n))
        \/ (\E n \in 0..MaxLen : Truncate(n)) \/ CloseWrite
        \/ OpenForRead \/ OpenIconForRead \/ (\E t \in {"set", "cur", "end"}, n \in -1..2 : SeekOnRead(t, n))
        \/ (\E n \in 1..2 : ReadFile(n) \/ ReadPreview(n)) \/ CloseRead
Spec == Init /\ [][Next]_vars

-----------------------------------------------------------------------------
(* What holds.                                                             *)
TypeOK == /\ w.off \in 0..MaxLen /\ w.size \in 0..MaxLen /\ r.off \in 0..MaxLen /\ Len(data) <= MaxLen /\ (w.open => kind = "file")
          /\ faults <= MaxFaults /\ jobs <= MaxJobs
\* While no call has failed the object holds what a local file would after
\* the same seeks, truncations and writes, gaps filled with zeros, and the
\* handle knows its size and its offset (do_write, do_seek_on_write, do_truncate).
WrittenExact == w.open /\ ~failed => data = want /\ w.size = Len(want) /\ (w.mode # "append" => w.off = pos)
\* A failing call does not shift what is written later: the object differs
\* from what a local file would hold only in zeros beyond its end.
FailureHarmless == w.open => /\ SubSeq(data, 1, Min2(Len(want), Len(data))) = SubSeq(want, 1, Min2(Len(want), Len(data)))
                             /\ \A i \in (Len(want) + 1)..Len(data) : data[i] = 0
\* A read answers with units of the file, in order, none of them past the
\* size the handle knows (the hang of Android devices named in do_read).
ReadsInside == did' = "read" /\ r.open /\ r'.open /\ r.type = "file" /\ ans' = "ok" /\ jobs' # jobs =>
                  r'.off <= (IF r.off > r.size THEN r.off ELSE r.size) /\ out' = Slice(data, r.off, r'.off - r.off)

=============================================================================
