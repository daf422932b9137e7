------------------------------ MODULE WheelOps ------------------------------
(***************************************************************************)
(* The contents of a SimpleTimerWheel as a set of entries.  The binary     *)
(* heap only serves to bring an earliest entry to the front; which of      *)
(* several equally early ones comes first is left open.  A job stands for  *)
(* the callback of the entry.                                              *)
(***************************************************************************)
EXTENDS Naturals

Timer(id, at, job) ==
    [id |-> id, expires_at |-> at, cancelled |-> FALSE, job |-> job]

\* Cancel only marks the entry: it stays in the heap until it is popped.
Cancelled(ts, id) ==
    {IF t.id = id THEN [t EXCEPT !.cancelled = TRUE] ELSE t : t \in ts}

\* The entries that may be at timers_.front() and that are due by time at.
DueFront(ts, at) ==
    {t \in ts : /\ t.expires_at <= at
                /\ \A u \in ts : t.expires_at <= u.expires_at}
=============================================================================
