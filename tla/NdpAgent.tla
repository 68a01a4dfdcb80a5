------------------------------ MODULE NdpAgent ------------------------------
(***************************************************************************)
(* The diagnostics agent of the Android app, NdpAgent.kt: threads put      *)
(* events into a bounded queue, one background thread sends them, and the  *)
(* flag flushing decides who hands that thread its next task. The queue is *)
(* locked for each access and not in between.                              *)
(***************************************************************************)
EXTENDS Naturals, Sequences, FiniteSets

CONSTANTS Threads, MaxQueueSize, MaxRetries,
          MaxEvents,      \* bound: events that are tracked
          MaxGenerations, \* bound: initializations
          NoDiagnostic

VARIABLES queued,      \* ids with their generation and their failed attempts
          flushing, generation,
          initialize, \* how far the initialization under way has got
          thread,     \* each thread's call of track
          tasks,      \* the executor's queue: each task's generation
          flush,      \* the step of the task that runs, and the event it took
          \* History, read by no action:
          tracked,     \* tracked so far
          sends, accepted, \* how often each was sent, and which arrived
          excused,   \* dropped for room, or because of an initialization
          unnoticed  \* since a task began: it stopped, or a call saw it as it ended

agentVars == <<queued, flushing, generation, initialize, thread, tasks, flush,
               tracked, sends, accepted, excused, unnoticed>>
history == <<tracked, sends, accepted, excused, unnoticed>>

NoCall == [step |-> "none", generation |-> 0]
NoTask == [step |-> "none", event |-> NoDiagnostic]
Ids == 1..MaxEvents
InQueue == {queued[i].id : i \in DOMAIN queued}

Diagnostic == [id : Ids, generation : 1..MaxGenerations, attempts : 0..MaxRetries]

ASSUME AgentAssumption ==
    /\ IsFiniteSet(Threads) /\ MaxQueueSize \in Nat \ {0} /\ MaxRetries \in Nat
    /\ MaxEvents \in Nat /\ MaxGenerations \in Nat \ {0}

AgentTypeOK ==
    /\ queued \in Seq(Diagnostic)
    /\ Len(queued) <= MaxQueueSize
    /\ flush.step # "none" => tasks # <<>>

-----------------------------------------------------------------------------
(* track and flushAsync *)

Track(t) ==
    /\ thread[t].step = "none" /\ tracked + Cardinality({u \in Threads : thread[u].step = "track"}) < MaxEvents
    /\ thread' = [thread EXCEPT ![t] = [step |-> "track", generation |-> generation]]
    /\ UNCHANGED <<queued, flushing, generation, initialize, tasks, flush, history>>

MadeRoom(q) == IF Len(q) >= MaxQueueSize THEN Tail(q) ELSE q

AddEvent(t) ==
    /\ thread[t].step = "track"
    /\ tracked' = tracked + 1
    /\ queued' = Append(MadeRoom(queued), [id |-> tracked', generation |-> thread[t].generation, attempts |-> 0])
    /\ excused' = excused \cup (InQueue \ {queued'[i].id : i \in DOMAIN queued'})
    /\ thread' = [thread EXCEPT ![t].step = "added"]
    /\ UNCHANGED <<flushing, generation, initialize, tasks, flush, sends, accepted, unnoticed>>

FlushAsync(t) ==
    /\ thread[t].step = "added"
    /\ thread' = [thread EXCEPT ![t] = [step |-> "flush", generation |-> generation]]
    /\ UNCHANGED <<queued, flushing, generation, initialize, tasks, flush, history>>

Execute(t) ==
    /\ thread[t].step = "flush" /\ ~flushing
    /\ flushing' = TRUE /\ tasks' = Append(tasks, thread[t].generation)
    /\ thread' = [thread EXCEPT ![t] = NoCall]
    /\ UNCHANGED <<queued, generation, initialize, flush, history>>

AlreadyFlushing(t) ==
    /\ thread[t].step = "flush" /\ flushing
    /\ thread' = [thread EXCEPT ![t] = NoCall]
    /\ unnoticed' = (unnoticed \/ flush.step = "ended")
    /\ UNCHANGED <<queued, flushing, generation, initialize, tasks, flush, tracked, sends, accepted, excused>>

-----------------------------------------------------------------------------
(* flush, on the only thread of the executor *)

TakeTask ==
    /\ tasks # <<>> /\ flush = NoTask
    /\ flush' = [step |-> "look", event |-> NoDiagnostic] /\ unnoticed' = FALSE
    /\ UNCHANGED <<queued, flushing, generation, initialize, thread, tasks, tracked, sends, accepted, excused>>

Look ==
    /\ flush.step = "look"
    /\ flush' = IF queued = <<>> THEN [step |-> "ended", event |-> NoDiagnostic]
                ELSE [step |-> IF Head(queued).generation = Head(tasks) THEN "send" ELSE "skip", event |-> Head(queued)]
    /\ UNCHANGED <<queued, flushing, generation, initialize, thread, tasks, history>>

\* The event that the task took is still the first.
IsFirst(event) == queued # <<>> /\ Head(queued) = event

\* An event of another generation: an old one, or a new one in an old task.
Skip ==
    /\ flush.step = "skip"
    /\ queued' = IF IsFirst(flush.event) THEN Tail(queued) ELSE queued
    /\ excused' = excused \cup {flush.event.id}
    /\ flush' = [step |-> "look", event |-> NoDiagnostic]
    /\ UNCHANGED <<flushing, generation, initialize, thread, tasks, tracked, sends, accepted, unnoticed>>

\* The transport; a failure, no answer and a refusal are one.
SendEvent(answered) ==
    /\ flush.step = "send"
    /\ sends' = [sends EXCEPT ![flush.event.id] = @ + 1]
    /\ accepted' = accepted \cup (IF answered THEN {flush.event.id} ELSE {})
    /\ flush' = [flush EXCEPT !.step = IF answered THEN "sent" ELSE "failed"]
    /\ UNCHANGED <<queued, flushing, generation, initialize, thread, tasks, tracked, excused, unnoticed>>

\* Mutant: the attempt under way is counted as the next one too.
NextToLastAttempt(event) == event.attempts + 1 >= MaxRetries
LastAttempt(event) == event.attempts >= MaxRetries

\* What is done with the event, if it is still the first
Settle ==
    /\ flush.step \in {"sent", "failed"}
    /\ LET gone == flush.step = "sent" \/ LastAttempt(flush.event)
       IN  /\ queued' = IF ~IsFirst(flush.event) THEN queued
                       ELSE IF gone THEN Tail(queued)
                       ELSE Append(Tail(queued), [flush.event EXCEPT !.attempts = @ + 1])
           /\ flush' = [step |-> IF IsFirst(flush.event) /\ gone THEN "look" ELSE "ended", event |-> NoDiagnostic]
    /\ unnoticed' = (unnoticed \/ flush'.step = "ended")
    /\ UNCHANGED <<flushing, generation, initialize, thread, tasks, tracked, sends, accepted, excused>>

EndTask ==
    /\ flush.step = "ended"
    /\ flushing' = FALSE /\ tasks' = Tail(tasks) /\ flush' = NoTask
    /\ UNCHANGED <<queued, generation, initialize, thread, history>>

-----------------------------------------------------------------------------
(* initialize, which a flush or a call of track may be in the middle of *)

InitializeAgain ==
    /\ initialize = "none" /\ generation < MaxGenerations
    /\ generation' = generation + 1 /\ initialize' = "counted"
    /\ UNCHANGED <<queued, flushing, thread, tasks, flush, history>>

ResetFlushing ==
    /\ initialize = "counted" /\ initialize' = "reset" /\ flushing' = FALSE
    /\ UNCHANGED <<queued, generation, thread, tasks, flush, history>>

ClearQueue ==
    /\ initialize = "reset" /\ initialize' = "none"
    /\ queued' = <<>> /\ excused' = excused \cup InQueue
    /\ UNCHANGED <<flushing, generation, thread, tasks, flush, tracked, sends, accepted, unnoticed>>

AgentInit ==
    /\ queued = <<>> /\ flushing = FALSE /\ generation = 1 /\ initialize = "none"
    /\ thread = [t \in Threads |-> NoCall] /\ tasks = <<>> /\ flush = NoTask
    /\ tracked = 0 /\ sends = [e \in Ids |-> 0] /\ accepted = {} /\ excused = {} /\ unnoticed = FALSE

AgentNext ==
    \/ \E t \in Threads : Track(t) \/ AddEvent(t) \/ FlushAsync(t) \/ Execute(t) \/ AlreadyFlushing(t)
    \/ TakeTask \/ Look \/ Skip \/ Settle \/ EndTask \/ \E answered \in BOOLEAN : SendEvent(answered)
    \/ InitializeAgain \/ ResetFlushing \/ ClearQueue

AgentSpec == AgentInit /\ [][AgentNext]_agentVars

-----------------------------------------------------------------------------
(* An event that is not in the queue any more arrived, was tried as often as it
   may be, or made room for a newer one or a new beginning; and none is sent
   more often than that, or again once its arrival is known (NdpAgent.kt 50-52,
   92-113). *)
EventsAreAccountedFor ==
    /\ \A e \in 1..tracked : e \in InQueue \cup accepted \cup excused \/ sends[e] = MaxRetries + 1
    /\ \A e \in Ids : sends[e] <= MaxRetries + 1
    /\ \A i \in DOMAIN queued : queued[i].id \in accepted => i = 1 /\ flush = [step |-> "sent", event |-> queued[1]]

(* Events wait without a task, and without a call that is about to start one,
   only after a task stopped at a failure or at a full queue, or a call came as
   the task had seen the queue empty (NdpAgent.kt 75-84, 91). *)
WaitingEventsWereMissed ==
    queued # <<>> /\ tasks = <<>> /\ (\A t \in Threads : thread[t].step \notin {"added", "flush"}) => unnoticed

(* Both: what leaves the queue, and what stays in it, has a reason. *)
EventsLeaveForAReason == EventsAreAccountedFor /\ WaitingEventsWereMissed

=============================================================================
