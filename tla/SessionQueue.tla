---------------------------- MODULE SessionQueue ----------------------------
(***************************************************************************)
(* A reflector session's outbound queue (mesh/reflector/queue.go) with the *)
(* two goroutines around it: the session's Recv loop, which ends by closing*)
(* the queue and waiting for the drain, and the drain, which takes batches *)
(* and writes them to the gRPC stream (server.go).  The RIB sends from any *)
(* goroutine; each of those calls is one critical section of q.mu.  The    *)
(* wake channel has capacity one and is the only thing the drain blocks on.*)
(***************************************************************************)
EXTENDS Integers, Sequences, FiniteSets

CONSTANTS
  MaxPendingDeltas,  \* live deltas a queue holds before it drops
  SnapLen,           \* messages in a snapshot
  MaxMsgs            \* bound: messages sent to the queue in a behaviour

ASSUME SessionQueueAssumption ==
  /\ MaxPendingDeltas \in Nat \ {0}
  /\ SnapLen \in Nat \ {0}
  /\ MaxMsgs \in Nat

VARIABLES
  pending,    \* queued messages, oldest first; each is [id, live]
  deltas,     \* the counter of live deltas in pending
  dropped,    \* live deltas refused since the session started
  closed,     \* the queue is closed
  wake,       \* tokens in the wake channel
  drain,      \* the drain goroutine: "take", "wait", "send" or "done"
  batch,      \* what take() returned and is not yet on the stream
  session,    \* the Recv loop: "recv", "closing", "waiting" or "ended"
  sentTo,     \* messages handed to Send and SendSnapshot so far
  accepted,   \* history: the ids queued, in order
  delivered   \* history: the ids written to the stream, in order

queueVars == <<pending, deltas, dropped, closed, wake, drain, batch, session,
               sentTo, accepted, delivered>>

Message == [id : Nat, live : BOOLEAN]

QueueTypeOK ==
  /\ pending \in Seq(Message) /\ batch \in Seq(Message)
  /\ deltas \in Nat /\ dropped \in Nat /\ sentTo \in Nat
  /\ closed \in BOOLEAN
  /\ wake \in {0, 1}
  /\ drain \in {"take", "wait", "send", "done"}
  /\ session \in {"recv", "closing", "waiting", "ended"}
  /\ accepted \in Seq(Nat) /\ delivered \in Seq(Nat)

Ids(ms) == [i \in 1 .. Len(ms) |-> ms[i].id]

-----------------------------------------------------------------------------
\* Mutant: nothing is put into the wake channel.
notify_Lost == UNCHANGED wake

notify == wake' = 1

\* One live delta: refused when the queue is closed or full.
Send ==
  LET m == [id |-> sentTo + 1, live |-> TRUE] IN
  /\ sentTo + 1 <= MaxMsgs
  /\ sentTo' = sentTo + 1
  /\ IF closed
       THEN UNCHANGED <<pending, deltas, dropped, wake, accepted>>
     ELSE IF deltas >= MaxPendingDeltas
       THEN dropped' = dropped + 1 /\ UNCHANGED <<pending, deltas, wake, accepted>>
     ELSE /\ pending' = Append(pending, m)
          /\ deltas' = deltas + 1
          /\ notify
          /\ accepted' = Append(accepted, m.id)
          /\ UNCHANGED dropped
  /\ UNCHANGED <<closed, drain, batch, session, delivered>>

\* Mutant: a replay is queued ahead of the deltas that wait.
SendSnapshot_First ==
  LET ms == [i \in 1 .. SnapLen |-> [id |-> sentTo + i, live |-> FALSE]] IN
  /\ sentTo + SnapLen <= MaxMsgs
  /\ sentTo' = sentTo + SnapLen
  /\ IF closed
       THEN UNCHANGED <<pending, wake, accepted>>
       ELSE /\ pending' = ms \o pending
            /\ notify
            /\ accepted' = accepted \o Ids(ms)
  /\ UNCHANGED <<deltas, dropped, closed, drain, batch, session, delivered>>

\* A whole replay, records and marker, whatever is already queued.
SendSnapshot ==
  LET ms == [i \in 1 .. SnapLen |-> [id |-> sentTo + i, live |-> FALSE]] IN
  /\ sentTo + SnapLen <= MaxMsgs
  /\ sentTo' = sentTo + SnapLen
  /\ IF closed
       THEN UNCHANGED <<pending, wake, accepted>>
       ELSE /\ pending' = pending \o ms
            /\ notify
            /\ accepted' = accepted \o Ids(ms)
  /\ UNCHANGED <<deltas, dropped, closed, drain, batch, session, delivered>>

\* Mutant: the counter is not reset with the batch.
take_KeepsCount ==
  /\ drain = "take"
  /\ IF pending # <<>>
       THEN batch' = pending /\ pending' = <<>> /\ drain' = "send"
       ELSE drain' = (IF closed THEN "done" ELSE "wait") /\ UNCHANGED <<batch, pending>>
  /\ UNCHANGED <<deltas, dropped, closed, wake, session, sentTo, accepted, delivered>>

\* take(): the critical section of one round of its loop.
take ==
  /\ drain = "take"
  /\ IF pending # <<>>
       THEN /\ batch' = pending /\ pending' = <<>> /\ deltas' = 0
            /\ drain' = "send"
       ELSE /\ drain' = IF closed THEN "done" ELSE "wait"
            /\ UNCHANGED <<batch, pending, deltas>>
  /\ UNCHANGED <<dropped, closed, wake, session, sentTo, accepted, delivered>>

\* The drain blocks on the wake channel between two rounds.
wakeUp ==
  /\ drain = "wait" /\ wake = 1
  /\ wake' = 0
  /\ drain' = "take"
  /\ UNCHANGED <<pending, deltas, dropped, closed, batch, session, sentTo,
                 accepted, delivered>>

\* stream.Send of the next message of the batch.
StreamSend ==
  /\ drain = "send"
  /\ delivered' = Append(delivered, Head(batch).id)
  /\ batch' = Tail(batch)
  /\ drain' = IF Tail(batch) = <<>> THEN "take" ELSE "send"
  /\ UNCHANGED <<pending, deltas, dropped, closed, wake, session, sentTo, accepted>>

\* stream.Send fails: the drain closes the queue and returns.
StreamFails ==
  /\ drain = "send"
  /\ drain' = "done"
  /\ closed' = TRUE
  /\ notify
  /\ UNCHANGED <<pending, deltas, dropped, batch, session, sentTo, accepted, delivered>>

\* The Recv loop returns; its deferred close() marks the queue closed ...
close ==
  /\ session = "recv"
  /\ closed' = TRUE
  /\ session' = "closing"
  /\ UNCHANGED <<pending, deltas, dropped, wake, drain, batch, sentTo, accepted, delivered>>

\* ... and notifies after it has unlocked, then waits for the drain.
closeNotify ==
  /\ session = "closing"
  /\ notify
  /\ session' = "waiting"
  /\ UNCHANGED <<pending, deltas, dropped, closed, drain, batch, sentTo, accepted, delivered>>

Wait ==
  /\ session = "waiting" /\ drain = "done"
  /\ session' = "ended"
  /\ UNCHANGED <<pending, deltas, dropped, closed, wake, drain, batch, sentTo,
                 accepted, delivered>>

-----------------------------------------------------------------------------
QueueInit ==
  /\ pending = <<>> /\ batch = <<>> /\ accepted = <<>> /\ delivered = <<>>
  /\ deltas = 0 /\ dropped = 0 /\ sentTo = 0 /\ wake = 0
  /\ closed = FALSE
  /\ drain = "take" /\ session = "recv"

Drain == take \/ wakeUp \/ StreamSend \/ StreamFails

QueueNext == Send \/ SendSnapshot \/ Drain \/ close \/ closeNotify \/ Wait

\* The Go scheduler runs every goroutine that can run, and a blocked stream
\* write ends when the keepalive tears the stream down.
Fairness == WF_queueVars(Drain) /\ WF_queueVars(closeNotify) /\ WF_queueVars(Wait)

QueueSpec == QueueInit /\ [][QueueNext]_queueVars /\ Fairness

-----------------------------------------------------------------------------
\* Nothing that was queued is lost, duplicated or reordered on its way to the
\* stream: what was written, what the drain holds and what is still queued
\* are, in this order, exactly what was accepted.
InOrder == accepted = delivered \o Ids(batch) \o Ids(pending)

\* The places of a queue that hold a live delta.
LiveAt(ms) == {i \in 1 .. Len(ms) : ms[i].live}

\* The deltas counter is the number of live deltas queued, and never passes
\* maxPendingDeltas: a snapshot neither counts against the cap nor resets it.
DeltasCounted ==
  /\ deltas = Cardinality(LiveAt(pending))
  /\ deltas <= MaxPendingDeltas

\* No wake-up is lost: the drain never sleeps on an empty channel while
\* something is queued, or while the queue is closed and notified.
NoLostWakeup ==
  drain = "wait" /\ wake = 0 => pending = <<>> /\ session \in {"recv", "closing"}

\* Whatever is queued reaches the drain unless the stream died.
QueuedIsTaken == (pending # <<>>) ~> (pending = <<>> \/ drain = "done")

\* A session that stops receiving always gets past wg.Wait(): the drain sees
\* the close even if it was blocked on the channel or in the middle of a batch.
ShutdownCompletes == (session = "closing") ~> (session = "ended")
=============================================================================
