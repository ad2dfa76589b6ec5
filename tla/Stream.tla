------------------------------- MODULE Stream -------------------------------
(***************************************************************************)
(* A streamed turn: a producer thread runs the turn and puts its events    *)
(* into a bounded buffer, from which the response takes them.  The         *)
(* registry admits as many producers as there are threads, and drains them *)
(* when the backend shuts down.                                            *)
(*                                                                         *)
(* Every step is one critical section of the buffer or of the registry, or *)
(* one step of the turn.                                                   *)
(***************************************************************************)
EXTENDS Naturals, Sequences, FiniteSets, SequencesExt

CONSTANTS
    Streamed,     \* streamed requests
    Capacity,     \* agent_stream_max_concurrency
    Limit,        \* BoundedEventBuffer.limit, of 4 events at least
    MaxProgress   \* bound: progress events of a turn

StreamAssumption ==
    /\ Capacity \in Nat \ {0}
    /\ Limit \in 4..128
    /\ MaxProgress \in Nat

VARIABLES
    accepting,  \* the registry admits producers
    slots,      \* _futures of the registry: the requests it has admitted
    drain,      \* the shutdown of the registry
    producer,   \* producer[s]: how far _produce is, and what it has told
    buffer,     \* buffer[s]: the BoundedEventBuffer
    reader,     \* reader[s]: how far the response is
    got         \* got[s]: the events the response has sent, without progress

streamVars == <<accepting, slots, drain, producer, buffer, reader, got>>

Event == {"STARTED", "PROGRESS", "FINAL", "FAILED"}
Terminal == {"FINAL", "FAILED"}
IsProgress(e) == e = "PROGRESS"

\* made counts the events of the turn; told is the terminal one, once it was put.
Produce == [at : {"NONE", "QUEUED", "RUNNING", "CLOSING", "FINISHING", "DONE"},
            made : 0..(MaxProgress + 2), told : {"NOTHING"} \cup Terminal]
NoProducer == [at |-> "NONE", made |-> 0, told |-> "NOTHING"]
Active(s) == producer[s].at \in {"QUEUED", "RUNNING", "CLOSING", "FINISHING"}

Buffer == [items : Seq(Event), finished : BOOLEAN, closed : BOOLEAN]
NoBuffer == [items |-> <<>>, finished |-> FALSE, closed |-> FALSE]

StreamTypeOK ==
    /\ accepting \in BOOLEAN /\ slots \subseteq Streamed
    /\ drain \in {"NO", "WAITING", "DRAINED", "TIMED_OUT"}
    /\ producer \in [Streamed -> Produce]
    /\ buffer \in [Streamed -> Buffer]
    /\ reader \in [Streamed -> {"NONE", "READING", "GONE", "ENDED"}]
    /\ got \in [Streamed -> Seq(Event \ {"PROGRESS"})]

StreamInit ==
    /\ accepting = TRUE /\ slots = {} /\ drain = "NO"
    /\ producer = [s \in Streamed |-> NoProducer]
    /\ buffer = [s \in Streamed |-> NoBuffer]
    /\ reader = [s \in Streamed |-> "NONE"]
    /\ got = [s \in Streamed |-> <<>>]

-----------------------------------------------------------------------------
(* The buffer. *)

Full(b) == Len(b.items) >= Limit

\* _drop_one_progress: the first one that waits.
WithoutOneProgress(items) ==
    IF \E i \in DOMAIN items : IsProgress(items[i])
    THEN RemoveAt(items, SelectInSeq(items, IsProgress))
    ELSE items

\* BoundedEventBuffer.put
Put(b, e) ==
    IF b.closed \/ (Full(b) /\ IsProgress(e)) THEN b
    ELSE [b EXCEPT !.items = Append(IF Full(b) THEN WithoutOneProgress(@) ELSE @, e)]

Tell(s, e) == buffer' = [buffer EXCEPT ![s] = Put(@, e)]

\* Mutant: what still waits is dropped.
FinishedAndEmptied(b) == [b EXCEPT !.finished = TRUE, !.items = <<>>]

\* finish
Finished(b) == [b EXCEPT !.finished = TRUE]

-----------------------------------------------------------------------------
(* The registry. *)

\* Mutant: a registry that drains still admits.
AdmitsWithRoom == Cardinality(slots) < Capacity

\* BoundedStreamExecutionRegistry.submit
Admits == accepting /\ Cardinality(slots) < Capacity

\* events, of a request that was not admitted
Rejected == Finished(Put(NoBuffer, "FAILED"))

\* The response begins: BoundedStreamBridge.events.
Open(s) ==
    /\ reader[s] = "NONE"
    /\ reader' = [reader EXCEPT ![s] = "READING"]
    /\ IF Admits
       THEN /\ slots' = slots \cup {s}
            /\ producer' = [producer EXCEPT ![s].at = "QUEUED"]
            /\ UNCHANGED buffer
       ELSE /\ buffer' = [buffer EXCEPT ![s] = Rejected]
            /\ producer' = [producer EXCEPT ![s].told = "FAILED"]
            /\ UNCHANGED slots
    /\ UNCHANGED <<accepting, drain, got>>

\* Mutant: the slot of a producer is kept when its client has left.
DiscardUnlessLeft(s) == IF reader[s] = "GONE" THEN slots ELSE slots \ {s}

Discard(s) == slots \ {s}

\* _completed, the callback of a future that is done
Completed(s) ==
    /\ producer[s].at = "DONE" /\ s \in slots
    /\ slots' = Discard(s)
    /\ UNCHANGED <<accepting, drain, producer, buffer, reader, got>>

\* shutdown
Shutdown ==
    /\ drain = "NO"
    /\ accepting' = FALSE /\ drain' = "WAITING"
    /\ UNCHANGED <<slots, producer, buffer, reader, got>>

ShutdownEnds ==
    /\ drain = "WAITING"
    /\ drain' = IF \E s \in slots : Active(s) THEN "TIMED_OUT" ELSE "DRAINED"
    /\ UNCHANGED <<accepting, slots, producer, buffer, reader, got>>

-----------------------------------------------------------------------------
(* The producer. *)

At(s, at) == producer[s].at = at

Start(s) ==
    /\ At(s, "QUEUED")
    /\ producer' = [producer EXCEPT ![s].at = "RUNNING"]
    /\ UNCHANGED <<accepting, slots, drain, buffer, reader, got>>

\* What stream_start yields: that the turn began, then its nodes, then the turn.
Yields(s, e) ==
    LET n == producer[s].made IN
    \/ e = "STARTED" /\ n = 0
    \/ e = "PROGRESS" /\ n \in 1..MaxProgress
    \/ e = "FINAL" /\ n > 0

\* An event of the turn; after the last one the loop is left, and the turn is
\* closed at the place where it has yielded.
Yield(s, e) ==
    /\ At(s, "RUNNING") /\ Yields(s, e)
    /\ Tell(s, e)
    /\ producer' = IF e \in Terminal
                   THEN [producer EXCEPT ![s] = [@ EXCEPT !.at = "CLOSING", !.told = e]]
                   ELSE [producer EXCEPT ![s].made = @ + 1]
    /\ UNCHANGED <<accepting, slots, drain, reader, got>>

\* The turn raises, before it began or later.
TurnFails(s) ==
    /\ At(s, "RUNNING")
    /\ Tell(s, "FAILED")
    /\ producer' = [producer EXCEPT ![s] = [@ EXCEPT !.at = "CLOSING", !.told = "FAILED"]]
    /\ UNCHANGED <<accepting, slots, drain, reader, got>>

\* The graph ends without a result.
TurnStops(s) ==
    /\ At(s, "RUNNING") /\ producer[s].made > 0
    /\ producer' = [producer EXCEPT ![s].at = "CLOSING"]
    /\ UNCHANGED <<accepting, slots, drain, buffer, reader, got>>

\* Nothing terminal was put yet.
Untold(s) == producer[s].told = "NOTHING"

\* The end of _produce: the turn is closed, which releases its lease and may
\* raise; that, or a missing end, is told when nothing was.
CloseTurn(s) ==
    /\ At(s, "CLOSING")
    /\ IF Untold(s)
       THEN /\ Tell(s, "FAILED")
            /\ producer' = [producer EXCEPT ![s] = [@ EXCEPT !.at = "FINISHING", !.told = "FAILED"]]
       ELSE /\ producer' = [producer EXCEPT ![s].at = "FINISHING"]
            /\ UNCHANGED buffer
    /\ UNCHANGED <<accepting, slots, drain, reader, got>>

Finish(s) ==
    /\ At(s, "FINISHING")
    /\ buffer' = [buffer EXCEPT ![s] = Finished(@)]
    /\ producer' = [producer EXCEPT ![s].at = "DONE"]
    /\ UNCHANGED <<accepting, slots, drain, reader, got>>

-----------------------------------------------------------------------------
(* The response. *)

\* next
Take(s) ==
    /\ reader[s] = "READING"
    /\ buffer[s].items # <<>>
    /\ got' = [got EXCEPT ![s] = IF IsProgress(Head(buffer[s].items)) THEN @
                                 ELSE Append(@, Head(buffer[s].items))]
    /\ buffer' = [buffer EXCEPT ![s].items = Tail(@)]
    /\ UNCHANGED <<accepting, slots, drain, producer, reader>>

EndOfStream(s) ==
    /\ reader[s] = "READING"
    /\ buffer[s].items = <<>> /\ buffer[s].finished
    /\ reader' = [reader EXCEPT ![s] = "ENDED"]
    /\ UNCHANGED <<accepting, slots, drain, producer, buffer, got>>

\* The client leaves, which the response notices where it has yielded.
Leave(s) ==
    /\ reader[s] = "READING" /\ got[s] # <<>>
    /\ reader' = [reader EXCEPT ![s] = "GONE"]
    /\ buffer' = [buffer EXCEPT ![s] =
           IF Last(got[s]) \in Terminal THEN @ ELSE [@ EXCEPT !.closed = TRUE, !.items = <<>>]]
    /\ UNCHANGED <<accepting, slots, drain, producer, got>>

Work(s) ==
    \/ Start(s) \/ TurnFails(s) \/ TurnStops(s) \/ CloseTurn(s) \/ Finish(s) \/ Completed(s)
    \/ \E e \in Event : Yield(s, e)
Respond(s) == Take(s) \/ EndOfStream(s)

StreamNext ==
    \/ Shutdown \/ ShutdownEnds
    \/ \E s \in Streamed : Open(s) \/ Work(s) \/ Respond(s) \/ Leave(s)

\* Threads that run go on, and turns end; a client that stays reads on.
StreamFairness ==
    \A s \in Streamed : WF_streamVars(Work(s)) /\ WF_streamVars(Respond(s) \/ Leave(s))

StreamSpec == StreamInit /\ [][StreamNext]_streamVars /\ StreamFairness

-----------------------------------------------------------------------------
(* Properties. *)

\* A response is told of the end of its turn once, last, and as it was: a turn
\* that was published is never reported as failed, nor a failed one as final,
\* however much progress the buffer had to drop.
ToldAsItEnded ==
    \A s \in Streamed :
        LET all == got[s] \o buffer[s].items IN
        /\ \A i \in DOMAIN all : all[i] \in Terminal => i = Len(all) /\ all[i] = producer[s].told
        /\ \A i \in DOMAIN all : all[i] = "STARTED" => i = 1
        /\ reader[s] = "ENDED" => all # <<>> /\ Last(all) \in Terminal

\* Once a drain has found no producer at work, none is at work any more: what
\* is closed after it is not used.
DrainMeansIdle == drain = "DRAINED" => \A s \in Streamed : ~Active(s)

\* What is told of s is told last: by what was sent, or by what still waits.
\* Nothing is told before the turn ended, and nothing before its begin.
TerminalLast(s, events) ==
    \A i \in DOMAIN events :
        events[i] \in Terminal => i = Len(events) /\ events[i] = producer[s].told
StartedFirst(events) == \A i \in DOMAIN events : events[i] = "STARTED" => i = 1
EndsWith(s, events) == events # <<>> /\ events[Len(events)] = producer[s].told
ToldOf(s) ==
    LET items == buffer[s].items IN
    /\ TerminalLast(s, got[s]) /\ TerminalLast(s, items)
    /\ (\E i \in DOMAIN got[s] : got[s][i] \in Terminal) => items = <<>>
    /\ StartedFirst(got[s]) /\ StartedFirst(items)
    /\ (\E i \in DOMAIN items : items[i] = "STARTED") => got[s] = <<>>
    /\ producer[s].told # "NOTHING" /\ ~buffer[s].closed =>
          EndsWith(s, items) \/ (items = <<>> /\ EndsWith(s, got[s]))

\* Where the producer is, what it has told and what its response does go together.
InStep(s) ==
    /\ producer[s].at \in {"QUEUED", "RUNNING"} => producer[s].told = "NOTHING"
    /\ producer[s].at \in {"QUEUED", "RUNNING"} /\ producer[s].made = 0 =>
          got[s] = <<>> /\ buffer[s].items = <<>>
    /\ producer[s].at = "QUEUED" => producer[s].made = 0
    /\ producer[s].at \in {"FINISHING", "DONE"} => producer[s].told # "NOTHING"
    /\ buffer[s].finished => producer[s].at \in {"NONE", "DONE"} /\ producer[s].told # "NOTHING"
    /\ buffer[s].closed => reader[s] = "GONE" /\ buffer[s].items = <<>>
    /\ reader[s] = "NONE" => producer[s] = NoProducer /\ buffer[s] = NoBuffer /\ got[s] = <<>>
    /\ reader[s] = "ENDED" => buffer[s].finished /\ buffer[s].items = <<>> /\ ~buffer[s].closed

\* The inductive invariant.
StreamInv ==
    /\ StreamTypeOK
    /\ \A s \in Streamed : ToldOf(s) /\ InStep(s)
    /\ \A s \in Streamed : Active(s) => s \in slots
    /\ drain # "NO" => ~accepting
    /\ DrainMeansIdle

\* Every response ends, those of requests that found no room included; and the
\* slot of every producer comes free, whether its client reads, stays away or
\* has left.
StreamsEnd ==
    \A s \in Streamed :
        /\ reader[s] = "READING" ~> reader[s] \in {"ENDED", "GONE"}
        /\ s \in slots ~> s \notin slots
=============================================================================
