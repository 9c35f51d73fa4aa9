----------------------------- MODULE MailQueue -----------------------------
(* The backup-MX forwarding queue: mail for a domain this host is the backup   *)
(* of is parked, and a worker forwards what is due to the primary, reschedules *)
(* what the primary did not take, and after MAX_ATTEMPTS sends a bounce to the *)
(* sender and drops it. The row changes only after the network did, so a       *)
(* crash, a failing store or a lost answer in between repeats work.            *)
EXTENDS Integers, FiniteSets

CONSTANTS
  Mails,        \* parked messages
  Senders,      \* Senders[m]: "null", "local" or "remote" return path
  Batch,        \* BATCH of queue_task
  MaxAttempts,  \* MAX_ATTEMPTS of queue_task
  MaxFaults     \* bound: crashes, failing store operations, lost answers

VARIABLES
  queue,        \* queue[m]: the row of m, which is new, parked or gone
  worker,       \* the items of this tick still to do, and the one in progress
  up,           \* the primary answers
  forwarded,    \* forwarded[m]: the primary has the message
  bounced,      \* bounced[m]: a bounce was sent
  tries,        \* tries[m]: forwards that failed
  faults,       \* faults so far
  hurt          \* messages a fault befell

vars == <<queue, worker, up, forwarded, bounced, tries, faults, hurt>>

Row(state, attempts, due) == [state |-> state, attempts |-> attempts, due |-> due]
Parked(m) == queue[m].state = "parked"
Gone(m) == queue[m].state = "gone"
Idle == [todo |-> {}, at |-> "idle"]

\* One step of several fails, or the process dies, while m is being handled.
Fault(m) ==
  /\ faults < MaxFaults
  /\ faults' = faults + 1
  /\ hurt' = hurt \cup {m}

\* enqueue_backup_mail: the first attempt is due at once.
Enqueue(m) ==
  /\ queue[m].state = "new"
  /\ queue' = [queue EXCEPT ![m] = Row("parked", 0, TRUE)]
  /\ UNCHANGED <<worker, up, forwarded, bounced, tries, faults, hurt>>

\* The next attempt of a rescheduled row comes due (backoff_delay).
Due(m) ==
  /\ Parked(m)
  /\ ~queue[m].due
  /\ queue' = [queue EXCEPT ![m].due = TRUE]
  /\ UNCHANGED <<worker, up, forwarded, bounced, tries, faults, hurt>>

\* A tick of queue_task: due_backup_queue returns up to Batch due rows.
Tick ==
  /\ worker = Idle
  /\ \E S \in SUBSET {m \in Mails : Parked(m) /\ queue[m].due} :
       /\ S # {}
       /\ Cardinality(S) <= Batch
       /\ worker' = [todo |-> {<<m, queue[m].attempts>> : m \in S}, at |-> "idle"]
  /\ UNCHANGED <<queue, up, forwarded, bounced, tries, faults, hurt>>

\* Faulty variant: a forwarded message falls through to the bounce.
OnThrough(p, step) ==
  [todo |-> worker.todo \ {p}, at |-> IF step = "delete" THEN "bounce" ELSE step,
   mail |-> p[1], attempts |-> p[2]]

\* The item in progress.
On(p, step) == [todo |-> worker.todo \ {p}, at |-> step, mail |-> p[1], attempts |-> p[2]]

\* forward_to_host succeeds; the row is to be deleted.
Forward(p) ==
  /\ worker.at = "idle"
  /\ p \in worker.todo
  /\ up
  /\ forwarded' = [forwarded EXCEPT ![p[1]] = TRUE]
  /\ worker' = On(p, "delete")
  /\ UNCHANGED <<queue, up, bounced, tries, faults, hurt>>

\* Faulty variant: one attempt too few.
LastTryEarly(n) == n + 2 >= MaxAttempts

\* Faulty variant: one attempt too many.
LastTryLate(n) == n >= MaxAttempts

\* This was the last attempt.
LastTry(n) == n + 1 >= MaxAttempts

\* forward_to_host fails, because the primary is down or its answer is lost.
ForwardFails(p) ==
  /\ worker.at = "idle"
  /\ p \in worker.todo
  /\ \/ /\ ~up
        /\ UNCHANGED <<forwarded, faults, hurt>>
     \/ /\ up
        /\ Fault(p[1])
        /\ forwarded' = [forwarded EXCEPT ![p[1]] = TRUE]
  /\ tries' = [tries EXCEPT ![p[1]] = IF @ < MaxAttempts THEN @ + 1 ELSE @]
  /\ worker' = On(p, IF LastTry(p[2]) THEN "bounce" ELSE "reschedule")
  /\ UNCHANGED <<queue, up, bounced>>

\* send_bounce: to the local mailbox of the sender, or relayed with an empty
\* return path; never for an empty return path. Its outcome is not looked at.
Bounce ==
  /\ worker.at = "bounce"
  /\ \/ /\ Senders[worker.mail] # "null"
        /\ bounced' = [bounced EXCEPT ![worker.mail] = TRUE]
        /\ UNCHANGED <<faults, hurt>>
     \/ /\ Senders[worker.mail] = "null"
        /\ UNCHANGED <<bounced, faults, hurt>>
     \/ /\ Senders[worker.mail] # "null"
        /\ Fault(worker.mail)
        /\ UNCHANGED bounced
  /\ worker' = [worker EXCEPT !.at = "delete"]
  /\ UNCHANGED <<queue, up, forwarded, tries>>

\* delete_backup_queue, which may fail: the row then stays due.
Delete ==
  /\ worker.at = "delete"
  /\ \/ /\ queue' = [queue EXCEPT ![worker.mail] = Row("gone", 0, FALSE)]
        /\ UNCHANGED <<faults, hurt>>
     \/ /\ Fault(worker.mail)
        /\ UNCHANGED queue
  /\ worker' = [todo |-> worker.todo, at |-> "idle"]
  /\ UNCHANGED <<up, forwarded, bounced, tries>>

\* Faulty variant: the attempt is not counted.
RescheduledUncounted(n) == Row("parked", n, FALSE)

\* The row after a failed attempt.
Rescheduled(n) == Row("parked", n + 1, FALSE)

\* reschedule_backup_mail; an error is ignored.
Reschedule ==
  /\ worker.at = "reschedule"
  /\ \/ /\ queue' = [queue EXCEPT ![worker.mail] = Rescheduled(worker.attempts)]
        /\ UNCHANGED <<faults, hurt>>
     \/ /\ Fault(worker.mail)
        /\ UNCHANGED queue
  /\ worker' = [todo |-> worker.todo, at |-> "idle"]
  /\ UNCHANGED <<up, forwarded, bounced, tries>>

\* The server dies while an item is in progress; the worker starts anew.
Crash ==
  /\ worker.at # "idle"
  /\ Fault(worker.mail)
  /\ worker' = Idle
  /\ UNCHANGED <<queue, up, forwarded, bounced, tries>>

\* The primary goes down or comes back.
Flip ==
  /\ faults < MaxFaults
  /\ faults' = faults + 1
  /\ up' = ~up
  /\ UNCHANGED <<queue, worker, forwarded, bounced, tries, hurt>>

Init ==
  /\ queue = [m \in Mails |-> Row("new", 0, FALSE)]
  /\ worker = Idle
  /\ up \in BOOLEAN
  /\ forwarded = [m \in Mails |-> FALSE]
  /\ bounced = [m \in Mails |-> FALSE]
  /\ tries = [m \in Mails |-> 0]
  /\ faults = 0
  /\ hurt = {}

Next ==
  \/ \E m \in Mails : Enqueue(m) \/ Due(m)
  \/ Tick
  \/ \E p \in worker.todo : Forward(p) \/ ForwardFails(p)
  \/ Bounce \/ Delete \/ Reschedule \/ Crash \/ Flip

\* The worker is a timer loop, and time passes.
Handle == Tick \/ (\E p \in worker.todo : Forward(p) \/ ForwardFails(p)) \/ Bounce \/ Delete \/ Reschedule
Fairness == WF_vars(Handle) /\ \A m \in Mails : WF_vars(Due(m))
Spec == Init /\ [][Next]_vars /\ Fairness

----------------------------------------------------------------------------
(* Properties *)

TypeOK ==
  /\ queue \in [Mails -> [state : {"new", "parked", "gone"}, attempts : 0 .. MaxAttempts - 1,
                          due : BOOLEAN]]
  /\ worker.at \in {"idle", "delete", "bounce", "reschedule"}
  /\ worker.todo \subseteq Mails \X (0 .. MaxAttempts)
  /\ tries \in [Mails -> 0 .. MaxAttempts]

\* A parked message leaves the queue only when the primary has it or MAX_ATTEMPTS
\* forwards failed; given up, its sender hears of it, unless the return path is
\* empty or a fault befell it.
NeverDropped ==
  \A m \in Mails :
    Gone(m) =>
      \/ forwarded[m]
      \/ tries[m] = MaxAttempts /\ (bounced[m] \/ Senders[m] = "null" \/ m \in hurt)

\* A bounce is never sent for a message the primary took, unless a fault came
\* between the two: forwards that failed are the only reason to give up.
BounceIsTrue ==
  \A m \in Mails : bounced[m] /\ forwarded[m] => m \in hurt

\* Every parked message leaves the queue, whether the primary ever answers or
\* not: attempts are counted, and counted attempts end.
Drains == \A m \in Mails : []<>~Parked(m)
=============================================================================
