---------------------------- MODULE SysfsUserInfo ----------------------------
(***************************************************************************)
(* The user-space event helpers of the sysfs-tree-changes branch           *)
(* (scst_sysfs.c, "Sysfs user info"): a kernel thread registers a          *)
(* scst_sysfs_user_info under a fresh cookie, sends an event carrying the  *)
(* cookie to a user-space daemon and waits for the reply with a timeout.   *)
(* The daemon's reply looks the info up by cookie and completes it.  On a  *)
(* timeout the waiter gives up unless the reply is already being executed, *)
(* and then frees the info.                                                *)
(*                                                                         *)
(* Each section under scst_sysfs_user_info_mutex is one atomic action.  An *)
(* info is a slot of Infos; a freed slot is never reused, so a dangling    *)
(* pointer stays visible.  The event channel to user space may lose an     *)
(* event and may deliver it late; it does not duplicate one.               *)
(***************************************************************************)
EXTENDS Integers, Sequences, SequencesExt, FiniteSets

CONSTANTS
  Requesters,   \* kernel threads calling add_info / wait / del_info
  Repliers,     \* daemon threads replying through the driver's ioctl
  Infos,        \* memory for struct scst_sysfs_user_info
  Statuses,     \* the statuses a reply may carry
  NULL

\* scst_sysfs_info_cur_cookie never wraps within the model: at most one
\* cookie per info slot plus the skipped 0.
MaxCookie == Cardinality(Infos) + 1

VARIABLES
  info,      \* info[i]: the slot's state and fields
  list,      \* scst_sysfs_user_info_list
  curCookie, \* scst_sysfs_info_cur_cookie
  events,    \* events sent to user space and not yet answered: [cookie, for]
  pc,        \* pc[q]: where requester q is
  mine,      \* mine[q]: the info requester q works with
  res,       \* res[q]: what scst_wait_info_completion returned
  rpc,       \* rpc[r]: "idle" or "exec" (reply being executed)
  held,      \* held[r]: the info replier r got from scst_sysfs_user_get_info
  sig        \* sig[q]: a signal is pending for requester q's process

\* The kernel's error numbers the helpers return.
ENOMEM == 12
EBUSY  == 16

vars == <<info, list, curCookie, events, pc, mine, res, rpc, held, sig>>

NewInfo == [state |-> "new", cookie |-> 0, being_executed |-> FALSE,
            in_list |-> FALSE, done |-> FALSE, status |-> NULL]

Init ==
  /\ info = [i \in Infos |-> NewInfo]
  /\ list = <<>>
  /\ curCookie = 0
  /\ events = {}
  /\ pc = [q \in Requesters |-> "Idle"]
  /\ mine = [q \in Requesters |-> NULL]
  /\ res = [q \in Requesters |-> NULL]
  /\ rpc = [r \in Repliers |-> "idle"]
  /\ held = [r \in Repliers |-> NULL]
  /\ sig = [q \in Requesters |-> FALSE]

\* scst_sysfs_user_find_info: the first listed info with the cookie.
scst_sysfs_user_find_info(c) ==
  LET hits == {k \in 1..Len(list) : info[list[k]].cookie = c}
  IN IF hits = {} THEN NULL ELSE list[CHOOSE k \in hits : \A j \in hits : k <= j]

\* The cookie loop of scst_sysfs_user_add_info: starting from the zeroed
\* cookie, take scst_sysfs_info_cur_cookie++ until the cookie is non-zero
\* and not in the list.  Returns <<cookie, new cur_cookie>>.
RECURSIVE CookieLoop(_, _)
CookieLoop(c, cur) ==
  IF c # 0 /\ scst_sysfs_user_find_info(c) = NULL THEN <<c, cur>>
  ELSE CookieLoop(cur, cur + 1)

\* scst_sysfs_user_add_info: kzalloc the info (or fail with -ENOMEM), then
\* under the mutex pick the cookie and add the info at the list tail.
AddInfo(q) ==
  /\ pc[q] = "Idle"
  /\ \E i \in Infos :
       /\ info[i].state = "new"
       /\ \/ /\ UNCHANGED <<info, list, curCookie, pc, mine>>
             /\ res' = [res EXCEPT ![q] = -ENOMEM]
          \/ LET r == CookieLoop(0, curCookie)
             IN /\ r[2] <= MaxCookie
                /\ info' = [info EXCEPT ![i] = [NewInfo EXCEPT !.state = "alloc",
                                                  !.cookie = r[1], !.in_list = TRUE]]
                /\ list' = Append(list, i)
                /\ curCookie' = r[2]
                /\ pc' = [pc EXCEPT ![q] = "Send"]
                /\ mine' = [mine EXCEPT ![q] = i]
                /\ res' = [res EXCEPT ![q] = NULL]
  /\ UNCHANGED <<events, rpc, held, sig>>

\* The caller sends the event with the info's cookie to user space (the
\* send itself may fail, and the caller then deletes the info).
SendEvent(q) ==
  /\ pc[q] = "Send"
  /\ \/ /\ events' = events \cup {[cookie |-> info[mine[q]].cookie, for |-> mine[q]]}
        /\ pc' = [pc EXCEPT ![q] = "Wait"]
     \/ /\ UNCHANGED events
        /\ pc' = [pc EXCEPT ![q] = "Del"]
  /\ UNCHANGED <<info, list, curCookie, mine, res, rpc, held, sig>>

\* wait_for_completion_interruptible_timeout returns > 0: the reply came.
WaitDone(q) ==
  /\ pc[q] = "Wait"
  /\ info[mine[q]].done
  /\ pc' = [pc EXCEPT ![q] = "Del"]
  /\ res' = [res EXCEPT ![q] = info[mine[q]].status]
  /\ UNCHANGED <<info, list, curCookie, events, mine, rpc, held, sig>>

\* Mutant: the flag is not consulted; a timeout always gives up.
ExecutingIgnoresFlag(i) == FALSE

\* scst_sysfs_user_info_executing: under the mutex read
\* info_being_executed and take the info off the list.
Executing(i) == info[i].being_executed

\* Mutant: a timeout is taken for an interrupted wait and the wait is
\* restarted, whatever info_being_executed says.
WaitTimeoutRestarts(q) ==
  /\ pc[q] = "Wait"
  /\ ~info[mine[q]].done
  /\ LET i == mine[q]
     IN /\ info' = [info EXCEPT ![i].in_list = FALSE]
        /\ list' = IF info[i].in_list THEN SelectSeq(list, LAMBDA x : x # i) ELSE list
  /\ UNCHANGED <<curCookie, events, pc, mine, res, rpc, held, sig>>

\* The wait times out (rc == 0): scst_sysfs_user_info_executing decides
\* between -EBUSY and an unbounded wait_for_completion.  With a signal
\* pending, wait_for_completion_interruptible_timeout returns
\* -ERESTARTSYS at once on every call and the loop goes round again
\* (lines 4488-4496), a step that changes nothing: the timeout is never
\* reached.
WaitTimeout(q) ==
  /\ pc[q] = "Wait"
  /\ ~info[mine[q]].done
  /\ ~sig[q]
  /\ LET i == mine[q]
     IN /\ info' = [info EXCEPT ![i].in_list = FALSE]
        /\ list' = IF info[i].in_list THEN SelectSeq(list, LAMBDA x : x # i) ELSE list
        /\ IF Executing(i)
           THEN /\ pc' = [pc EXCEPT ![q] = "WaitFull"]
                /\ UNCHANGED res
           ELSE /\ pc' = [pc EXCEPT ![q] = "Del"]
                /\ res' = [res EXCEPT ![q] = -EBUSY]
  /\ UNCHANGED <<curCookie, events, mine, rpc, held, sig>>

\* Mutant: the path after the unbounded wait returns -EBUSY as the
\* timeout path does.
WaitFullBusy(q) ==
  /\ pc[q] = "WaitFull"
  /\ info[mine[q]].done
  /\ pc' = [pc EXCEPT ![q] = "Del"]
  /\ res' = [res EXCEPT ![q] = -EBUSY]
  /\ UNCHANGED <<info, list, curCookie, events, mine, rpc, held, sig>>

\* wait_for_completion_interruptible_timeout returns -ERESTARTSYS: the
\* completion is not done and a signal is pending.  The loop retries the
\* same wait, which returns at once again; nothing changes.
WaitRestart(q) ==
  /\ pc[q] = "Wait"
  /\ ~info[mine[q]].done
  /\ sig[q]
  /\ UNCHANGED vars

\* A signal is sent to the process of a requester inside the helpers; it
\* stays pending until the system call returns to user space.
Signal(q) ==
  /\ pc[q] \in {"Send", "Wait"}
  /\ ~sig[q]
  /\ sig' = [sig EXCEPT ![q] = TRUE]
  /\ UNCHANGED <<info, list, curCookie, events, pc, mine, res, rpc, held>>

\* The unbounded wait_for_completion returns.
WaitFull(q) ==
  /\ pc[q] = "WaitFull"
  /\ info[mine[q]].done
  /\ pc' = [pc EXCEPT ![q] = "Del"]
  /\ res' = [res EXCEPT ![q] = info[mine[q]].status]
  /\ UNCHANGED <<info, list, curCookie, events, mine, rpc, held, sig>>

\* Mutant: the in_list test is inverted.
DelInfoInverted(q) ==
  /\ pc[q] = "Del"
  /\ LET i == mine[q]
     IN /\ list' = IF ~info[i].in_list THEN SelectSeq(list, LAMBDA x : x # i) ELSE list
        /\ info' = [info EXCEPT ![i].state = "freed"]
  /\ pc' = [pc EXCEPT ![q] = "Idle"]
  /\ mine' = [mine EXCEPT ![q] = NULL]
  /\ sig' = [sig EXCEPT ![q] = FALSE]
  /\ UNCHANGED <<curCookie, events, res, rpc, held>>

\* scst_sysfs_user_del_info: under the mutex take the info off the list if
\* it is still on it, then kfree it.  The caller then returns to user
\* space, where a pending signal is delivered.
DelInfo(q) ==
  /\ pc[q] = "Del"
  /\ LET i == mine[q]
     IN /\ list' = IF info[i].in_list THEN SelectSeq(list, LAMBDA x : x # i) ELSE list
        /\ info' = [info EXCEPT ![i].state = "freed"]
  /\ pc' = [pc EXCEPT ![q] = "Idle"]
  /\ mine' = [mine EXCEPT ![q] = NULL]
  /\ sig' = [sig EXCEPT ![q] = FALSE]
  /\ UNCHANGED <<curCookie, events, res, rpc, held>>

\* The daemon answers an event: the driver calls scst_sysfs_user_get_info,
\* which under the mutex finds the info by cookie and sets
\* info_being_executed.  No info: the reply is dropped.
GetInfo(r) ==
  /\ rpc[r] = "idle"
  /\ \E e \in events :
       LET i == scst_sysfs_user_find_info(e.cookie)
       IN /\ events' = events \ {e}
          /\ IF i = NULL
             THEN UNCHANGED <<info, rpc, held>>
             ELSE /\ info' = [info EXCEPT ![i].being_executed = TRUE]
                  /\ rpc' = [rpc EXCEPT ![r] = "exec"]
                  /\ held' = [held EXCEPT ![r] = i]
  /\ UNCHANGED <<list, curCookie, pc, mine, res, sig>>

\* The driver stores the reply's status and calls complete().
Complete(r) ==
  /\ rpc[r] = "exec"
  /\ \E s \in Statuses :
       info' = [info EXCEPT ![held[r]].status = s, ![held[r]].done = TRUE]
  /\ rpc' = [rpc EXCEPT ![r] = "idle"]
  /\ held' = [held EXCEPT ![r] = NULL]
  /\ UNCHANGED <<list, curCookie, events, pc, mine, res, sig>>

\* The daemon never answers an event (it died or ignored it).
LoseEvent ==
  /\ \E e \in events : events' = events \ {e}
  /\ UNCHANGED <<info, list, curCookie, pc, mine, res, rpc, held, sig>>

\* Every info slot has been allocated and user space has nothing left to
\* answer: the bounded run is over.  A waiter still blocked here is left
\* to WaitReturns.
Finished ==
  /\ \A i \in Infos : info[i].state # "new"
  /\ events = {}
  /\ \A r \in Repliers : rpc[r] = "idle"
  /\ UNCHANGED vars

Requester(q) ==
  AddInfo(q) \/ SendEvent(q) \/ WaitDone(q) \/ WaitTimeout(q) \/ WaitFull(q)
  \/ DelInfo(q)

Next ==
  \/ \E q \in Requesters : Requester(q) \/ WaitRestart(q) \/ Signal(q)
  \/ \E r \in Repliers : GetInfo(r) \/ Complete(r)
  \/ LoseEvent
  \/ Finished

\* A thread inside scst_wait_info_completion or scst_sysfs_user_del_info
\* keeps running and, with no signal pending, its timer fires; a reply
\* being executed in the kernel is completed.  Nothing forces a request,
\* a signal, an answer or a loss.
Fairness ==
  /\ \A q \in Requesters :
       WF_vars(SendEvent(q) \/ WaitDone(q) \/ WaitTimeout(q) \/ WaitFull(q)
               \/ DelInfo(q))
  /\ \A r \in Repliers : WF_vars(Complete(r))

Spec == Init /\ [][Next]_vars /\ Fairness

(***************************************************************************)
(* Properties                                                              *)
(***************************************************************************)

\* Types; the list holds live infos only (a freed info on
\* scst_sysfs_user_info_list is a dangling list entry).
TypeOK ==
  /\ \A i \in Infos :
       /\ info[i].state \in {"new", "alloc", "freed"}
       /\ info[i].cookie \in 0..MaxCookie
       /\ info[i].being_executed \in BOOLEAN
       /\ info[i].in_list \in BOOLEAN
       /\ info[i].done \in BOOLEAN
       /\ info[i].status \in Statuses \cup {NULL}
  /\ res \in [Requesters -> Statuses \cup {-ENOMEM, -EBUSY, NULL}]
  /\ list \in Seq({i \in Infos : info[i].state = "alloc"})
  /\ curCookie \in 0..MaxCookie
  /\ pc \in [Requesters -> {"Idle", "Send", "Wait", "WaitFull", "Del"}]
  /\ rpc \in [Repliers -> {"idle", "exec"}]
  /\ sig \in [Requesters -> BOOLEAN]

\* A reply being executed in the kernel (between scst_sysfs_user_get_info
\* and complete()) never works on an info its waiter has already freed:
\* the timeout path of scst_wait_info_completion must see
\* info_being_executed and keep waiting.
NoUseAfterFree ==
  \A r \in Repliers : rpc[r] = "exec" => info[held[r]].state = "alloc"

\* Every scst_wait_info_completion returns and its caller frees the info,
\* unless a signal is pending: a lost event ends in -EBUSY, a reply in
\* execution is waited for.  With a signal pending and the event lost the
\* loop spins on -ERESTARTSYS for ever, which the comment's "at most
\* timeout jiffies" does not allow for; that case is excluded here.
WaitReturns ==
  \A q \in Requesters : pc[q] = "Wait" ~> (pc[q] = "Idle" \/ sig[q])

(***************************************************************************)
(* Refinement: the helpers implement SysfsUserEvents.  A request is the    *)
(* info slot the requester allocated (slots are never reused); the phase   *)
(* of a waiting request is read from info_being_executed and the           *)
(* completion; a result is visible once the requester reaches del_info.    *)
(***************************************************************************)

EventPhase(q) ==
  LET i == mine[q]
  IN CASE pc[q] = "Idle" -> "idle"
       [] pc[q] = "Send" -> "prep"
       [] pc[q] = "Del"  -> "over"
       [] info[i].done   -> "answered"
       [] pc[q] = "WaitFull" \/ info[i].being_executed -> "accepted"
       [] OTHER          -> "wait"

UserEvents == INSTANCE SysfsUserEvents WITH
  Requests <- Infos,
  phase <- [q \in Requesters |-> EventPhase(q)],
  cur   <- mine,
  used  <- {i \in Infos : info[i].state # "new"},
  sent  <- {e.for : e \in events},
  reply <- [i \in Infos |-> IF info[i].done THEN info[i].status ELSE NULL],
  out   <- [q \in Requesters |-> IF pc[q] = "Del" THEN res[q] ELSE NULL],
  signalled <- {q \in Requesters : sig[q]}

\* The cookie list, the cookie counter and the two flags implement the
\* promise of the helpers' comments: a reply is accepted only for the
\* request whose event it answers and only while that requester waits,
\* scst_wait_info_completion returns its status (or -EBUSY when none was
\* accepted and no signal is pending), and every request of a requester
\* with no signal pending ends.
ImplementsUserEvents == UserEvents!Spec

=============================================================================
