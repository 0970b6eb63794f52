----------------------------- MODULE FileStream -----------------------------
(***************************************************************************)
(* What GDaemonFileInputStream promises its user: a position, reads that   *)
(* deliver the bytes at the position and end of file only at the end, and  *)
(* seeks that set the position. After a seek that failed, the bytes        *)
(* between the position and the backend's own may be missing, but never    *)
(* repeated, until a seek succeeds.                                        *)
(***************************************************************************)
EXTENDS Naturals

CONSTANT FileSize   \* length of the file

VARIABLES
  pos,   \* what tell() returns
  res,   \* outcome of the last operation: kind, and for data where from
  sure   \* no seek has failed since the last one that succeeded

Outcome(k, s, n) == [kind |-> k, start |-> s, len |-> n]

Init == pos = 0 /\ sure = TRUE /\ res = Outcome("none", 0, 0)

(* A read delivers n bytes from s. *)
Read ==
  \E s \in 0 .. FileSize, n \in 0 .. FileSize :
    /\ s >= pos /\ (sure => s = pos)
    /\ s + n <= FileSize
    /\ n = 0 => s = FileSize
    /\ res' = Outcome("data", s, n)
    /\ pos' = pos + n
    /\ UNCHANGED sure

Seek ==
  \E p \in 0 .. FileSize :
    /\ pos' = p /\ sure' = TRUE
    /\ res' = Outcome("seek", p, 0)

(* query_info and close: the position stays. *)
Other == res' = Outcome("done", 0, 0) /\ UNCHANGED <<pos, sure>>

(* An operation is cancelled or fails; only a seek loses track. *)
Fail == res' = Outcome("failed", 0, 0) /\ sure' \in {sure, FALSE} /\ UNCHANGED pos

Next == Read \/ Seek \/ Other \/ Fail

Spec == Init /\ [][Next]_<<pos, res, sure>>
=============================================================================
