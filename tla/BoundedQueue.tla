---------------------------- MODULE BoundedQueue ----------------------------
(***************************************************************************)
(* bounded_queue of crates/tidas-runtime/src/lib.rs: senders reserve the   *)
(* estimated bytes of a value in the shared budget, then offer it to a     *)
(* bounded channel in slices of QUEUE_POLL_INTERVAL, checking the          *)
(* cancellation token before each slice; receivers poll the same way and   *)
(* release the bytes when they drop or unwrap the value.                   *)
(* The budget is the atomic one that module MemoryBudget implements.       *)
(***************************************************************************)
EXTENDS Naturals, Sequences, FiniteSets

CONSTANTS
  Senders,    \* threads with a BoundedSender handle
  Receivers,  \* threads with a BoundedReceiver handle
  Capacity,   \* the channel's capacity, at least 1
  QueueLimit, \* BudgetState.limit
  Estimates,  \* estimated_bytes of the values sent
  MaxSends    \* bound: calls of send by one sender

ASSUME QueueAssumption ==
  /\ Senders \cap Receivers = {}
  /\ Capacity \in Nat \ {0}
  /\ QueueLimit \in Nat
  /\ Estimates \subseteq Nat
  /\ MaxSends \in Nat

Threads == Senders \cup Receivers

NoMessage == [id |-> <<>>, bytes |-> 0]

VARIABLES
  queue,      \* the channel's messages, oldest first
  reserved,   \* bytes reserved in the budget
  cancelled,  \* CancellationToken.cancelled
  at,         \* idle, poll (top of the loop), wait (in the channel), hold, gone
  cargo,      \* the Budgeted message a thread holds
  sends,      \* calls of send so far
  outcome,    \* how a thread's last call returned
  accepted,   \* history: ids of the messages the channel took, in order
  delivered   \* history: ids of the messages receivers got, in order

queueVars == <<queue, reserved, cancelled, at, cargo, sends, outcome, accepted, delivered>>

QueueInit ==
  /\ queue = <<>>
  /\ reserved = 0
  /\ cancelled = FALSE
  /\ at = [t \in Threads |-> "idle"]
  /\ cargo = [t \in Threads |-> NoMessage]
  /\ sends = [s \in Senders |-> 0]
  /\ outcome = [t \in Threads |-> "none"]
  /\ accepted = <<>>
  /\ delivered = <<>>

Connected(side) == \E t \in side : at[t] # "gone"

\* A call returns: the thread is idle again and what it held is dropped.
Returns(t, result) ==
  /\ at' = [at EXCEPT ![t] = "idle"]
  /\ outcome' = [outcome EXCEPT ![t] = result]
  /\ cargo' = [cargo EXCEPT ![t] = NoMessage]

\* send: the first check, then the reservation, which fails at once when the
\* budget is exhausted.
Send(s, b) ==
  /\ at[s] = "idle"
  /\ sends[s] < MaxSends
  /\ sends' = [sends EXCEPT ![s] = @ + 1]
  /\ \/ /\ cancelled
        /\ Returns(s, "cancelled")
        /\ UNCHANGED reserved
     \/ /\ ~cancelled
        /\ reserved + b > QueueLimit
        /\ Returns(s, "budget_exceeded")
        /\ UNCHANGED reserved
     \/ /\ ~cancelled
        /\ reserved + b <= QueueLimit
        /\ reserved' = reserved + b
        /\ cargo' = [cargo EXCEPT ![s] = [id |-> <<s, sends[s]>>, bytes |-> b]]
        /\ at' = [at EXCEPT ![s] = "poll"]
        /\ UNCHANGED outcome
  /\ UNCHANGED <<queue, cancelled, accepted, delivered>>

\* Mutant: the loop does not look at the token again.
SendPollBlind(s) ==
  /\ s \in Senders
  /\ at[s] = "poll"
  /\ at' = [at EXCEPT ![s] = "wait"]
  /\ UNCHANGED <<queue, reserved, cancelled, cargo, sends, outcome, accepted, delivered>>

\* The check at the top of the send loop.
SendPoll(s) ==
  /\ s \in Senders
  /\ at[s] = "poll"
  /\ IF cancelled
     THEN Returns(s, "cancelled") /\ reserved' = reserved - cargo[s].bytes
     ELSE at' = [at EXCEPT ![s] = "wait"] /\ UNCHANGED <<cargo, outcome, reserved>>
  /\ UNCHANGED <<queue, cancelled, sends, accepted, delivered>>

\* Mutant: a channel without receivers is taken for a full one.
SendWaitStubborn(s) ==
  /\ s \in Senders
  /\ at[s] = "wait"
  /\ \/ /\ Connected(Receivers)
        /\ Len(queue) < Capacity
        /\ queue' = Append(queue, cargo[s])
        /\ accepted' = Append(accepted, cargo[s].id)
        /\ Returns(s, "ok")
     \/ /\ ~Connected(Receivers) \/ Len(queue) = Capacity
        /\ at' = [at EXCEPT ![s] = "poll"]
        /\ UNCHANGED <<queue, accepted, cargo, outcome>>
  /\ UNCHANGED <<reserved, cancelled, sends, delivered>>

\* send_timeout succeeds, times out on a full channel, or finds no receiver.
SendWait(s) ==
  /\ s \in Senders
  /\ at[s] = "wait"
  /\ \/ /\ Connected(Receivers)
        /\ Len(queue) < Capacity
        /\ queue' = Append(queue, cargo[s])
        /\ accepted' = Append(accepted, cargo[s].id)
        /\ Returns(s, "ok")
        /\ UNCHANGED reserved
     \/ /\ Connected(Receivers)
        /\ Len(queue) = Capacity
        /\ at' = [at EXCEPT ![s] = "poll"]
        /\ UNCHANGED <<queue, accepted, cargo, outcome, reserved>>
     \/ /\ ~Connected(Receivers)
        /\ reserved' = reserved - cargo[s].bytes
        /\ Returns(s, "disconnected")
        /\ UNCHANGED <<queue, accepted>>
  /\ UNCHANGED <<cancelled, sends, delivered>>

\* recv is called.
Recv(r) ==
  /\ r \in Receivers
  /\ at[r] = "idle"
  /\ at' = [at EXCEPT ![r] = "poll"]
  /\ UNCHANGED <<queue, reserved, cancelled, cargo, sends, outcome, accepted, delivered>>

\* The check at the top of the recv loop.
RecvPoll(r) ==
  /\ r \in Receivers
  /\ at[r] = "poll"
  /\ IF cancelled
     THEN Returns(r, "cancelled")
     ELSE at' = [at EXCEPT ![r] = "wait"] /\ UNCHANGED <<cargo, outcome>>
  /\ UNCHANGED <<queue, reserved, cancelled, sends, accepted, delivered>>

\* Mutant: a disconnected channel is reported before it is drained.
RecvWaitHasty(r) ==
  /\ r \in Receivers
  /\ at[r] = "wait"
  /\ \/ /\ queue # <<>>
        /\ cargo' = [cargo EXCEPT ![r] = Head(queue)]
        /\ delivered' = Append(delivered, Head(queue).id)
        /\ queue' = Tail(queue)
        /\ at' = [at EXCEPT ![r] = "hold"]
        /\ outcome' = [outcome EXCEPT ![r] = "ok"]
     \/ /\ ~Connected(Senders)
        /\ Returns(r, "disconnected")
        /\ UNCHANGED <<queue, delivered>>
  /\ UNCHANGED <<reserved, cancelled, sends, accepted>>

\* recv_timeout yields the oldest message, times out on an empty channel that
\* senders can still fill, or reports that nothing can come any more.
RecvWait(r) ==
  /\ r \in Receivers
  /\ at[r] = "wait"
  /\ \/ /\ queue # <<>>
        /\ cargo' = [cargo EXCEPT ![r] = Head(queue)]
        /\ delivered' = Append(delivered, Head(queue).id)
        /\ queue' = Tail(queue)
        /\ at' = [at EXCEPT ![r] = "hold"]
        /\ outcome' = [outcome EXCEPT ![r] = "ok"]
     \/ /\ queue = <<>>
        /\ Connected(Senders)
        /\ at' = [at EXCEPT ![r] = "poll"]
        /\ UNCHANGED <<queue, delivered, cargo, outcome>>
     \/ /\ queue = <<>>
        /\ ~Connected(Senders)
        /\ Returns(r, "disconnected")
        /\ UNCHANGED <<queue, delivered>>
  /\ UNCHANGED <<reserved, cancelled, sends, accepted>>

\* Budgeted::into_inner, or dropping the message: the reservation is released.
Unwrap(r) ==
  /\ at[r] = "hold"
  /\ reserved' = reserved - cargo[r].bytes
  /\ cargo' = [cargo EXCEPT ![r] = NoMessage]
  /\ at' = [at EXCEPT ![r] = "idle"]
  /\ UNCHANGED <<queue, cancelled, sends, outcome, accepted, delivered>>

\* One element for each byte of a message in the channel, or in hand.
QueuedBytes(q) == UNION {{i} \X (1 .. q[i].bytes) : i \in 1 .. Len(q)}

HeldBytes(c) == UNION {{t} \X (1 .. c[t].bytes) : t \in Threads}

\* A thread drops its handle.  Dropping the last receiver discards what the
\* channel still holds, and with it the reservations (crossbeam-channel).
DropHandle(t) ==
  /\ at[t] = "idle"
  /\ at' = [at EXCEPT ![t] = "gone"]
  /\ IF t \in Receivers /\ \A r \in Receivers \ {t} : at[r] = "gone"
     THEN queue' = <<>> /\ reserved' = reserved - Cardinality(QueuedBytes(queue))
     ELSE UNCHANGED <<queue, reserved>>
  /\ UNCHANGED <<cancelled, cargo, sends, outcome, accepted, delivered>>

\* CancellationToken::cancel, from the signal handler or any thread.
Cancel ==
  /\ ~cancelled
  /\ cancelled' = TRUE
  /\ UNCHANGED <<queue, reserved, at, cargo, sends, outcome, accepted, delivered>>

Work(t) == SendPoll(t) \/ SendWait(t) \/ RecvPoll(t) \/ RecvWait(t) \/ Unwrap(t)

Stopped == \A t \in Threads : at[t] = "gone"

QueueNext ==
  \/ \E s \in Senders, b \in Estimates : Send(s, b)
  \/ \E r \in Receivers : Recv(r)
  \/ \E t \in Threads : Work(t) \/ DropHandle(t)
  \/ Cancel
  \/ Stopped /\ UNCHANGED queueVars

\* Inside a call a thread keeps running: the polling loops wait only for
\* time-outs.  Outside it owes nothing.
QueueSpec == QueueInit /\ [][QueueNext]_queueVars /\ \A t \in Threads : WF_queueVars(Work(t))
-----------------------------------------------------------------------------
(* Properties *)

\* Neither bytes nor messages are lost (lib.rs 132-205).  Every reserved byte
\* belongs to a message somebody can still drop - in the channel, in a sender's
\* hands or in a receiver's - so an error return of send, a disconnect or a
\* discarded channel leaks nothing.  Receivers get the accepted messages once
\* each, in the order they were accepted, and when one hears "disconnected" no
\* message is still undelivered.
NothingIsLost ==
  /\ reserved = Cardinality(QueuedBytes(queue)) + Cardinality(HeldBytes(cargo))
  /\ delivered = SubSeq(accepted, 1, Len(delivered))
  /\ (\E r \in Receivers : outcome[r] = "disconnected") => delivered = accepted

\* Cancellation interrupts every wait: a call of send or recv that is running
\* when the token is set, or later, returns, whatever the other threads do or
\* leave undone (lib.rs 175, 182, 197).
CancelInterrupts ==
  cancelled ~> \A t \in Threads : at[t] \notin {"poll", "wait"}

\* A send that waits on a full channel returns, provided that no idle receiver
\* keeps its handle for ever: a receiver makes room or the last one leaves, and
\* the sender notices (lib.rs 181-190).
SendReturns ==
  (\A r \in Receivers : []<>(at[r] = "idle") => <>(at[r] = "gone"))
    => \A s \in Senders : (at[s] = "wait") ~> (at[s] \in {"idle", "gone"})
=============================================================================
