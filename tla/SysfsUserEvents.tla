--------------------------- MODULE SysfsUserEvents ---------------------------
(***************************************************************************)
(* What the user-space event helpers of scst_sysfs.c promise their callers *)
(* (the comments of scst_sysfs_user_add_info, scst_sysfs_user_get_info and *)
(* scst_wait_info_completion), with no cookies, list or flags:             *)
(*                                                                         *)
(*   - a requester opens a fresh request, sends one event for it to user   *)
(*     space (or fails to) and waits;                                      *)
(*   - user space may lose the event; a reply it sends is accepted for     *)
(*     the request the event was sent for, and only while its requester    *)
(*     still waits for it;                                                 *)
(*   - the waiter returns the status of an accepted reply once it is       *)
(*     answered, or gives up with -EBUSY while no reply is accepted and    *)
(*     no signal is pending for its process (a pending signal makes the    *)
(*     wait restart at once instead of timing out);                        *)
(*   - then the request is closed.                                         *)
(***************************************************************************)
EXTENDS Integers

CONSTANTS
  Requesters,  \* the kernel threads that send events
  Requests,    \* request identities, each opened at most once
  Statuses,    \* the statuses a reply may carry
  NULL

EBUSY == 16

VARIABLES
  phase,  \* phase[q]: where requester q's current request is
  cur,    \* cur[q]: requester q's current request
  used,   \* the requests opened so far
  sent,   \* requests whose event is on its way to user space
  reply,  \* reply[x]: the status the reply to request x carried
  out,    \* out[q]: what the wait returned, once it is over
  signalled  \* the requesters whose process has a signal pending

avars == <<phase, cur, used, sent, reply, out, signalled>>

Phases == {"idle", "prep", "wait", "accepted", "answered", "over"}

Init ==
  /\ phase = [q \in Requesters |-> "idle"]
  /\ cur = [q \in Requesters |-> NULL]
  /\ used = {}
  /\ sent = {}
  /\ reply = [x \in Requests |-> NULL]
  /\ out = [q \in Requesters |-> NULL]
  /\ signalled = {}

Open(q) ==
  /\ phase[q] = "idle"
  /\ \E x \in Requests \ used :
       /\ used' = used \cup {x}
       /\ cur' = [cur EXCEPT ![q] = x]
  /\ phase' = [phase EXCEPT ![q] = "prep"]
  /\ UNCHANGED <<sent, reply, out, signalled>>

\* The event goes out, or sending it fails and the request is over with
\* no result.
Send(q) ==
  /\ phase[q] = "prep"
  /\ \/ /\ sent' = sent \cup {cur[q]}
        /\ phase' = [phase EXCEPT ![q] = "wait"]
     \/ /\ phase' = [phase EXCEPT ![q] = "over"]
        /\ UNCHANGED sent
  /\ UNCHANGED <<cur, used, reply, out, signalled>>

\* User space drops an event, or answers one nobody waits for any more.
Lose ==
  /\ \E x \in sent : sent' = sent \ {x}
  /\ UNCHANGED <<phase, cur, used, reply, out, signalled>>

\* A reply to the event of x is accepted: x's requester still waits.
Accept(x) ==
  /\ x \in sent
  /\ \E q \in Requesters :
       /\ cur[q] = x
       /\ phase[q] = "wait"
       /\ phase' = [phase EXCEPT ![q] = "accepted"]
  /\ sent' = sent \ {x}
  /\ UNCHANGED <<cur, used, reply, out, signalled>>

\* The accepted reply is answered with a status.
Answer(q) ==
  /\ phase[q] = "accepted"
  /\ \E s \in Statuses : reply' = [reply EXCEPT ![cur[q]] = s]
  /\ phase' = [phase EXCEPT ![q] = "answered"]
  /\ UNCHANGED <<cur, used, sent, out, signalled>>

\* The waiter gives up: no reply has been accepted, and no signal is
\* pending.
GiveUp(q) ==
  /\ phase[q] = "wait"
  /\ q \notin signalled
  /\ phase' = [phase EXCEPT ![q] = "over"]
  /\ out' = [out EXCEPT ![q] = -EBUSY]
  /\ UNCHANGED <<cur, used, sent, reply, signalled>>

\* The waiter returns the status of the reply.
Return(q) ==
  /\ phase[q] = "answered"
  /\ phase' = [phase EXCEPT ![q] = "over"]
  /\ out' = [out EXCEPT ![q] = reply[cur[q]]]
  /\ UNCHANGED <<cur, used, sent, reply, signalled>>

Close(q) ==
  /\ phase[q] = "over"
  /\ phase' = [phase EXCEPT ![q] = "idle"]
  /\ cur' = [cur EXCEPT ![q] = NULL]
  /\ out' = [out EXCEPT ![q] = NULL]
  /\ signalled' = signalled \ {q}
  /\ UNCHANGED <<used, sent, reply>>

\* A signal is sent to a requester's process while its request is open.
Signal(q) ==
  /\ phase[q] \in {"prep", "wait", "accepted", "answered"}
  /\ q \notin signalled
  /\ signalled' = signalled \cup {q}
  /\ UNCHANGED <<phase, cur, used, sent, reply, out>>

Next ==
  \/ \E q \in Requesters :
       Open(q) \/ Send(q) \/ Answer(q) \/ GiveUp(q) \/ Return(q) \/ Close(q)
       \/ Signal(q)
  \/ \E x \in Requests : Accept(x)
  \/ Lose

\* A requester that has opened a request keeps running until it is
\* closed (a signalled one may stay waiting for a reply that never comes),
\* and an accepted reply is answered.  Nothing forces a request, a
\* signal, a reply or a loss.
Fairness ==
  \A q \in Requesters :
    WF_avars(Send(q) \/ GiveUp(q) \/ Return(q) \/ Close(q)) /\ WF_avars(Answer(q))

Spec == Init /\ [][Next]_avars /\ Fairness

=============================================================================
