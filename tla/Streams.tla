-------------------------------- MODULE Streams --------------------------------
(***************************************************************************)
(* Streamed replies: ChatStream of the providers (ollama.go, openai.go)    *)
(* and of the fallback chain (fallback.go), and StreamManager (stream.go), *)
(* all in src/internal/model.                                              *)
(*                                                                         *)
(* A call has a reader goroutine, which turns the lines of the server's    *)
(* reply into deltas and sends them on an unbuffered channel, and a        *)
(* consumer goroutine, which turns deltas into events for the window.  The *)
(* channel is closed when the reader has ended.  Nothing in the repository *)
(* calls ConsumeStream; the caller is taken to pass it the context it      *)
(* opened the stream with.  Text is left out, that beside the final delta  *)
(* included: the consumer never shows it, and the providers send none.     *)
(*                                                                         *)
(* A definition marked "Mutant" is a wrong version of the one after it;    *)
(* it is used only to show that the property it breaks can fail.           *)
(***************************************************************************)
EXTENDS Integers

CONSTANTS
  Calls,     \* bound: the calls of ChatStream
  Chained,   \* those among them opened through a fallback chain
  Sessions,  \* ids of sessions
  NoCall     \* no such entry in StreamManager.streams

ASSUME StreamsAssumption == NoCall \notin Calls /\ Chained \subseteq Calls

VARIABLES
  reader,    \* where the reader goroutine is
  delta,     \* what it is about to send
  behind,    \* token deltas made from the reply and not shown
  caller,    \* the caller's context is done
  session,   \* the session ConsumeStream is called for
  consumer,  \* where the consumer goroutine is
  cancelled, \* the context ConsumeStream made is done
  event,     \* the closing event it emits as it leaves
  streams    \* StreamManager.streams: session -> call

manager == <<session, cancelled, streams>>
streamsVars == <<reader, delta, behind, caller, session, consumer, cancelled, event, streams>>

StreamsInit ==
  /\ reader = [c \in Calls |-> "none"]
  /\ delta = [c \in Calls |-> "none"]
  /\ behind = [c \in Calls |-> 0]
  /\ caller = [c \in Calls |-> FALSE]
  /\ session \in [Calls -> Sessions]
  /\ consumer = [c \in Calls |-> "none"]
  /\ cancelled = [c \in Calls |-> FALSE]
  /\ event = [c \in Calls |-> "none"]
  /\ streams = [s \in Sessions |-> NoCall]

\* The context of the HTTP request, which the reader looks at.  A fallback
\* chain makes one of its own and cancels it when ChatStreamWithFallback returns.
RequestDone(c) == c \in Chained \/ caller[c]

\* The context of the consumer.
ConsumerDone(c) == cancelled[c] \/ caller[c]

Sending(c) == reader[c] \in {"sending", "finishing"}

-----------------------------------------------------------------------------
\* ChatStream, or ChatStreamWithFallback, has returned a channel.
Open(c) ==
  /\ reader[c] = "none"
  /\ reader' = [reader EXCEPT ![c] = "reading"]
  /\ UNCHANGED <<delta, behind, caller, consumer, event, manager>>

Send(c, what, place) ==
  /\ reader[c] = "reading"
  /\ delta' = [delta EXCEPT ![c] = what]
  /\ reader' = [reader EXCEPT ![c] = place]
  /\ UNCHANGED <<caller, consumer, event, manager>>

ReadToken(c) ==
  /\ Send(c, "token", "sending")
  /\ behind' = [behind EXCEPT ![c] = @ + 1]

\* The reader reads on after "done": true of Ollama and after the
\* finish_reason of OpenAI, and returns after the [DONE] line of OpenAI.
ReadDone(c) ==
  /\ \/ Send(c, "done", "sending")
     \/ Send(c, "done", "finishing")
  /\ UNCHANGED behind

\* A line that Ollama's reader cannot parse (OpenAI's passes over it), an error
\* chunk, or a failing connection; the end of the request's context and the
\* client's timeout make it fail.
ReadFault(c) ==
  /\ Send(c, "error", "finishing")
  /\ UNCHANGED behind

\* The body ends, whether the reply was finished or not.
ReadEnd(c) ==
  /\ reader[c] = "reading"
  /\ reader' = [reader EXCEPT ![c] = "ended"]
  /\ UNCHANGED <<delta, behind, caller, consumer, event, manager>>

\* Mutant: the send has a default case.
DropsAlways(c) == TRUE

\* Mutant: the send does not look at the context.
DropsNever(c) == FALSE

Drops(c) == RequestDone(c)

\* The other case of the select around the send.
GiveUp(c) ==
  /\ Sending(c)
  /\ Drops(c)
  /\ reader' = [reader EXCEPT ![c] = "ended"]
  /\ delta' = [delta EXCEPT ![c] = "none"]
  /\ UNCHANGED <<behind, caller, consumer, event, manager>>

-----------------------------------------------------------------------------
\* ConsumeStream; the stream that is registered for the session is cancelled.
Consume(c) ==
  /\ reader[c] # "none"
  /\ consumer[c] = "none"
  /\ LET s == session[c]
     IN  /\ cancelled' = [d \in Calls |-> cancelled[d] \/ d = streams[s]]
         /\ streams' = [streams EXCEPT ![s] = c]
  /\ consumer' = [consumer EXCEPT ![c] = "waiting"]
  /\ UNCHANGED <<reader, delta, behind, caller, session, event>>

\* Leave the loop, with a closing event or none.
Finish(c, closing) ==
  /\ event' = [event EXCEPT ![c] = closing]
  /\ consumer' = [consumer EXCEPT ![c] = "leaving"]

EmitToken(c) == behind' = [behind EXCEPT ![c] = @ - 1]

\* The channel hands the delta over: both goroutines move.
Deliver(c) ==
  /\ consumer[c] = "waiting"
  /\ Sending(c)
  /\ reader' = [reader EXCEPT ![c] = IF @ = "sending" THEN "reading" ELSE "ended"]
  /\ delta' = [delta EXCEPT ![c] = "none"]
  /\ \/ /\ delta[c] = "token"
        /\ EmitToken(c)
        /\ UNCHANGED <<consumer, event>>
     \/ /\ delta[c] # "token"
        /\ Finish(c, delta[c])
        /\ UNCHANGED behind
  /\ UNCHANGED <<caller, manager>>

\* Mutant: the reader does not close the channel.
NeverClosed(c) == FALSE

Closed(c) == reader[c] = "ended"

\* A closed channel is taken for the end of the reply.
SeeClosed(c) ==
  /\ consumer[c] = "waiting"
  /\ Closed(c)
  /\ Finish(c, "done")
  /\ UNCHANGED <<reader, delta, behind, caller, manager>>

\* The window is told nothing; a delta that is ready as well may go first.
SeeCancelled(c) ==
  /\ consumer[c] = "waiting"
  /\ ConsumerDone(c)
  /\ Finish(c, "none")
  /\ UNCHANGED <<reader, delta, behind, caller, manager>>

\* The deferred delete removes the session's entry, whosever it is.
Leave(c) ==
  /\ consumer[c] = "leaving"
  /\ streams' = [streams EXCEPT ![session[c]] = NoCall]
  /\ consumer' = [consumer EXCEPT ![c] = "ended"]
  /\ event' = [event EXCEPT ![c] = "none"]
  /\ UNCHANGED <<reader, delta, behind, caller, session, cancelled>>

-----------------------------------------------------------------------------
\* CancelStream calls the cancel function with the lock released; that reaches
\* no other call than calling it at once.
CancelStream(s) ==
  /\ streams[s] # NoCall
  /\ cancelled' = [cancelled EXCEPT ![streams[s]] = TRUE]
  /\ UNCHANGED <<reader, delta, behind, caller, consumer, event, session, streams>>

CancelAll ==
  /\ cancelled' = [c \in Calls |-> cancelled[c] \/ \E s \in Sessions : streams[s] = c]
  /\ streams' = [s \in Sessions |-> NoCall]
  /\ UNCHANGED <<reader, delta, behind, caller, consumer, event, session>>

CallerGivesUp(c) ==
  /\ reader[c] # "none"
  /\ caller' = [caller EXCEPT ![c] = TRUE]
  /\ UNCHANGED <<reader, delta, behind, consumer, event, manager>>

Reader(c) == ReadToken(c) \/ ReadDone(c) \/ ReadFault(c) \/ ReadEnd(c) \/ GiveUp(c)

Consumer(c) == Deliver(c) \/ SeeClosed(c) \/ SeeCancelled(c) \/ Leave(c)

StreamsNext ==
  \/ \E c \in Calls : Open(c) \/ Reader(c) \/ Consume(c) \/ Consumer(c) \/ CallerGivesUp(c)
  \/ \E s \in Sessions : CancelStream(s)
  \/ CancelAll

StreamsSpec == StreamsInit /\ [][StreamsNext]_streamsVars

\* Goroutines are scheduled, and the five-minute timeout of the HTTP clients
\* ends a body that neither ends nor fails by itself.
StreamsFairness ==
  \A c \in Calls : /\ WF_streamsVars(Reader(c))
                    /\ SF_streamsVars(ReadFault(c) \/ ReadEnd(c))
                    /\ WF_streamsVars(Consumer(c))

StreamsFairSpec == StreamsSpec /\ StreamsFairness

-----------------------------------------------------------------------------
\* The type of the state.
StreamsTypeOK ==
  /\ reader \in [Calls -> {"none", "reading", "sending", "finishing", "ended"}]
  /\ delta \in [Calls -> {"none", "token", "done", "error"}]
  /\ behind \in [Calls -> {0, 1}]
  /\ caller \in [Calls -> BOOLEAN]
  /\ session \in [Calls -> Sessions]
  /\ consumer \in [Calls -> {"none", "waiting", "leaving", "ended"}]
  /\ cancelled \in [Calls -> BOOLEAN]
  /\ event \in [Calls -> {"none", "done", "error"}]
  /\ streams \in [Sessions -> Calls \cup {NoCall}]

\* When the window is told that a reply is done or failed, it has been shown
\* every token delta read before, unless the request's context was done.
ClosingShowsEverything ==
  [][\A c \in Calls :
       event[c] = "none" /\ event'[c] # "none" /\ ~RequestDone(c) => behind[c] = 0]_streamsVars

\* Every consumer goroutine ends, whoever cancels and however the reply ends.
ConsumersEnd == \A c \in Calls : consumer[c] = "waiting" ~> consumer[c] = "ended"

\* Once the caller's context is done the reader ends and frees its connection,
\* also when the consumer has left and nobody receives from the channel.
ReadersEndWithContext == \A c \in Calls : caller[c] ~> reader[c] = "ended"

\* docs/spec.md "Per-session context with cancel": a stream that runs and was
\* not cancelled is the one its session's CancelStream finds.
RunningIsCancellable ==
  \A c \in Calls :
    consumer[c] = "waiting" /\ ~ConsumerDone(c) => streams[session[c]] = c
=============================================================================
