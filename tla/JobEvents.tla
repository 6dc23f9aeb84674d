----------------------------- MODULE JobEvents ------------------------------
(***************************************************************************)
(* One job's progress stream: JobQueue.push_event (core/jobs.py) appends to *)
(* a Redis list and then trims it, in two commands, and every SSE client of *)
(* _stream_job_events (routers/jobs.py) polls that list from the index it  *)
(* has come to.  The runner, the cancel endpoint and reaping push to one    *)
(* list at the same time.  Event number n is the n-th one pushed.          *)
(***************************************************************************)
EXTENDS Integers, Sequences

CONSTANTS
    Streams,    \* SSE connections
    EventsMax,  \* _EVENTS_MAX: events kept
    MaxEvents   \* bound: events pushed

ASSUME LimitsAssumption == EventsMax \in Nat \ {0} /\ MaxEvents \in Nat

VARIABLES
    jobStatus,   \* the job's: live (pending or running) or over
    events,   \* the Redis list job:{id}:events
    pushed,   \* how many events were pushed
    trims,    \* how many pushes are between their two commands
    lost,     \* how many ended between the two since the list was last trimmed
    stream    \* per connection: where it is, its last_idx, the events it sent

eventVars == <<jobStatus, events, pushed, trims, lost, stream>>

Unconnected == [pc |-> "none", seen |-> "live", last_idx |-> 0, sent |-> <<>>]

EventsInit ==
    /\ jobStatus = "live"
    /\ events = <<>>
    /\ pushed = 0
    /\ trims = 0 /\ lost = 0
    /\ stream = [s \in Streams |-> Unconnected]

-----------------------------------------------------------------------------
(* The job.  Its terminal status is written before the last event, and not   *)
(* for good: the runner writes "running" over a cancel it has not seen, a    *)
(* failed retry writes "pending", and a reaped job may yet be popped and run. *)

Push ==
    /\ pushed < MaxEvents
    /\ events' = Append(events, pushed + 1)
    /\ pushed' = pushed + 1
    /\ trims' = trims + 1
    /\ UNCHANGED <<jobStatus, lost, stream>>

\* The newest n events.
Kept(n) == IF Len(events) > n THEN SubSeq(events, Len(events) - n + 1, Len(events))
             ELSE events

\* A fault: the trim keeps one event too many.
TrimOneShort ==
    /\ trims > 0
    /\ trims' = trims - 1 /\ lost' = 0
    /\ events' = Kept(EventsMax + 1)
    /\ UNCHANGED <<jobStatus, pushed, stream>>

\* One trim makes good for all that were lost.
Trim ==
    /\ trims > 0
    /\ trims' = trims - 1 /\ lost' = 0
    /\ events' = Kept(EventsMax)
    /\ UNCHANGED <<jobStatus, pushed, stream>>

\* The process ends, the task is cancelled or Redis fails: no trim.
LoseTrim ==
    /\ trims > 0
    /\ trims' = trims - 1 /\ lost' = lost + 1
    /\ UNCHANGED <<jobStatus, events, pushed, stream>>

Terminate ==
    /\ jobStatus = "live"
    /\ jobStatus' = "over"
    /\ UNCHANGED <<events, pushed, trims, lost, stream>>

RunAgain ==
    /\ jobStatus = "over"
    /\ jobStatus' = "live"
    /\ UNCHANGED <<events, pushed, trims, lost, stream>>

-----------------------------------------------------------------------------
(* The streams.                                                            *)

\* A client connects, or its EventSource connects again: from the start.
Connect(s) ==
    /\ stream[s].pc \in {"none", "closed"}
    /\ stream' = [stream EXCEPT ![s] = [Unconnected EXCEPT !.pc = "status"]]
    /\ UNCHANGED <<jobStatus, events, pushed, trims, lost>>

Disconnect(s) ==
    /\ stream[s].pc \in {"status", "events"}
    /\ stream' = [stream EXCEPT ![s].pc = "closed"]
    /\ UNCHANGED <<jobStatus, events, pushed, trims, lost>>

ReadStatus(s) ==
    /\ stream[s].pc = "status"
    /\ stream' = [stream EXCEPT ![s].pc = "events", ![s].seen = jobStatus]
    /\ UNCHANGED <<jobStatus, events, pushed, trims, lost>>

\* lrange from last_idx to the end.
Unread(s) == SubSeq(events, stream[s].last_idx + 1, Len(events))

\* A fault: the next read starts over.
ReadEventsAgain(s) ==
    /\ stream[s].pc = "events"
    /\ stream' = [stream EXCEPT
                    ![s].pc = IF stream[s].seen = "over" THEN "closed" ELSE "status",
                    ![s].sent = @ \o Unread(s)]
    /\ UNCHANGED <<jobStatus, events, pushed, trims, lost>>

\* A fault: "cancelled" does not end a stream.
ReadEventsForever(s) ==
    /\ stream[s].pc = "events"
    /\ stream' = [stream EXCEPT
                    ![s].pc = "status",
                    ![s].last_idx = @ + Len(Unread(s)),
                    ![s].sent = @ \o Unread(s)]
    /\ UNCHANGED <<jobStatus, events, pushed, trims, lost>>

\* The events are sent; a status that was terminal when it was read closes.
ReadEvents(s) ==
    /\ stream[s].pc = "events"
    /\ stream' = [stream EXCEPT
                    ![s].pc = IF stream[s].seen = "over" THEN "closed" ELSE "status",
                    ![s].last_idx = @ + Len(Unread(s)),
                    ![s].sent = @ \o Unread(s)]
    /\ UNCHANGED <<jobStatus, events, pushed, trims, lost>>

EventsNext ==
    \/ Push \/ Trim \/ LoseTrim \/ Terminate \/ RunAgain
    \/ \E s \in Streams : Connect(s) \/ Disconnect(s) \/ ReadStatus(s) \/ ReadEvents(s)

EventsSpec == EventsInit /\ [][EventsNext]_eventVars

\* A stream polls every second; a started push is trimmed or its trim is lost.
\* Nobody has to connect, and the job has to do nothing.
EventsFairness ==
    /\ WF_eventVars(Trim \/ LoseTrim)
    /\ \A s \in Streams : WF_eventVars(ReadStatus(s) \/ ReadEvents(s))

EventsFairSpec == EventsSpec /\ EventsFairness

-----------------------------------------------------------------------------
(* Properties.                                                             *)

\* Every variable keeps its type; each event above the limit is one whose push
\* has still to trim the list, or ended before it did and since the last trim.
EventsTyped ==
    /\ jobStatus \in {"live", "over"}
    /\ events \in Seq(1..MaxEvents) /\ Len(events) <= EventsMax + trims + lost
    /\ pushed \in 0..MaxEvents
    /\ trims \in Nat /\ lost \in Nat /\ trims + lost <= pushed
    /\ stream \in [Streams -> [pc : {"none", "status", "events", "closed"},
                               seen : {"live", "over"}, last_idx : Nat,
                               sent : Seq(1..MaxEvents)]]

\* A connection gets no event twice and none before an older one, whatever is
\* pushed and trimmed between its polls; as long as the list was never trimmed
\* it has all events up to the newest it got.
EventsInOrder ==
    \A s \in Streams :
        /\ \A m, n \in DOMAIN stream[s].sent :
                m < n => stream[s].sent[m] < stream[s].sent[n]
        /\ pushed <= EventsMax => \A n \in DOMAIN stream[s].sent : stream[s].sent[n] = n

\* Once the job's status is terminal for good every connection comes to its end,
\* those that missed a terminal status that was overwritten included.
StreamsEnd ==
    \A s \in Streams :
        <>[](jobStatus = "over") => (stream[s].pc # "none" ~> stream[s].pc = "closed")

\* "Tails the job's event list": a connection that stays gets every newest event.
TailsTheList ==
    \A s \in Streams, n \in 1..MaxEvents :
        (pushed = n /\ stream[s].pc \in {"status", "events"})
            ~> \/ pushed # n \/ stream[s].pc = "closed"
               \/ n \in {stream[s].sent[m] : m \in DOMAIN stream[s].sent}
=============================================================================
