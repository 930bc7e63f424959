----------------------------- MODULE StreamsProofs ------------------------------
(***************************************************************************)
(* Theorems about Streams, for any calls, sessions and fallback chains.    *)
(***************************************************************************)
EXTENDS Streams, TLAPS

\* RequestDone, with the context as a value rather than a formula.
Dropping(c) == c \in Chained \/ caller[c] = TRUE

LEMMA DroppingFact ==
  ASSUME StreamsTypeOK, NEW c \in Calls PROVE RequestDone(c) <=> Dropping(c)
<1>1. caller[c] \in BOOLEAN
  BY DEF StreamsTypeOK
<1>2. QED
  BY <1>1, Zenon DEF RequestDone, Dropping

\* What the reader knows: it sends something, it sends tokens one by one, and
\* a token is behind only while it is being sent or after it was given up.
ReaderInv ==
  \A c \in Calls :
    /\ Sending(c) => delta[c] # "none"
    /\ delta[c] = "token" => reader[c] = "sending" /\ behind[c] = 1
    /\ delta[c] # "token" /\ behind[c] = 1 => reader[c] = "ended" /\ Dropping(c)

Inv == StreamsTypeOK /\ ReaderInv

LEMMA InitInv == StreamsInit => Inv
<1> SUFFICES ASSUME StreamsInit PROVE Inv
  OBVIOUS
<1>1. StreamsTypeOK
  BY StreamsAssumption DEF StreamsInit, StreamsTypeOK
<1>2. \A c \in Calls : reader[c] = "none" /\ delta[c] = "none" /\ behind[c] = 0
  BY DEF StreamsInit
<1>3. ReaderInv
  <2> SUFFICES ASSUME NEW c \in Calls
               PROVE  ~Sending(c) /\ delta[c] # "token" /\ behind[c] # 1
    BY Zenon DEF ReaderInv
  <2>1. reader[c] = "none" /\ delta[c] = "none" /\ behind[c] = 0
    BY <1>2
  <2>2. QED
    BY <2>1 DEF Sending
<1>4. QED
  BY <1>1, <1>3 DEF Inv

\* The five actions of a reader.
LEMMA ReaderKeepsInv == ASSUME Inv, NEW c \in Calls, Reader(c) PROVE Inv'
<1>1. UNCHANGED <<caller, consumer, event, session, cancelled, streams>>
  BY DEF Reader, ReadToken, ReadDone, ReadFault, ReadEnd, GiveUp, Send, manager
<1> USE DEF Inv, StreamsTypeOK, ReaderInv, Sending, Dropping
<1>2. CASE ReadToken(c)
  <2>1. reader[c] = "reading" /\ behind[c] = 0
    BY <1>2 DEF ReadToken, Send
  <2>2. /\ reader' = [reader EXCEPT ![c] = "sending"]
        /\ delta' = [delta EXCEPT ![c] = "token"]
        /\ behind' = [behind EXCEPT ![c] = behind[c] + 1]
    BY <1>2 DEF ReadToken, Send
  <2>3. behind' = [behind EXCEPT ![c] = 1]
    BY <2>1, <2>2
  <2>4. QED
    BY <1>1, <2>1, <2>2, <2>3
<1>3. CASE ReadDone(c) \/ ReadFault(c)
  <2>1. PICK what \in {"done", "error"}, place \in {"sending", "finishing"} : Send(c, what, place)
    BY <1>3 DEF ReadDone, ReadFault
  <2>2. /\ reader[c] = "reading"
        /\ reader' = [reader EXCEPT ![c] = place]
        /\ delta' = [delta EXCEPT ![c] = what]
        /\ UNCHANGED behind
    BY <1>3, <2>1 DEF Send, ReadDone, ReadFault
  <2>3. QED
    BY <1>1, <2>2
<1>4. CASE ReadEnd(c)
  BY <1>1, <1>4 DEF ReadEnd
<1>5. CASE GiveUp(c)
  <2>1. Dropping(c)
    BY <1>5, DroppingFact DEF GiveUp, Drops
  <2>2. /\ reader' = [reader EXCEPT ![c] = "ended"]
        /\ delta' = [delta EXCEPT ![c] = "none"]
        /\ UNCHANGED behind
    BY <1>5 DEF GiveUp
  <2>3. QED
    BY <1>1, <2>1, <2>2
<1>6. QED
  BY <1>2, <1>3, <1>4, <1>5 DEF Reader

\* The four actions of a consumer.
LEMMA ConsumerKeepsInv == ASSUME Inv, NEW c \in Calls, Consumer(c) PROVE Inv'
<1> USE DEF Inv, StreamsTypeOK, ReaderInv, Sending, Dropping
<1>1. CASE Deliver(c)
  <2>1. /\ Sending(c) /\ UNCHANGED <<caller, session, cancelled, streams>>
        /\ reader' = [reader EXCEPT ![c] = IF @ = "sending" THEN "reading" ELSE "ended"]
        /\ delta' = [delta EXCEPT ![c] = "none"]
    BY <1>1 DEF Deliver, manager
  <2>2. CASE delta[c] = "token"
    <3>1. reader[c] = "sending" /\ behind[c] = 1
      BY <2>2
    <3>2. behind' = [behind EXCEPT ![c] = behind[c] - 1] /\ UNCHANGED <<consumer, event>>
      BY <1>1, <2>2 DEF Deliver, EmitToken
    <3>3. behind' = [behind EXCEPT ![c] = 0]
      BY <3>1, <3>2
    <3>4. reader' = [reader EXCEPT ![c] = "reading"]
      BY <2>1, <3>1
    <3>5. QED
      BY <2>1, <3>2, <3>3, <3>4
  <2>3. CASE delta[c] # "token"
    <3>1. /\ delta[c] \in {"done", "error"}
          /\ event' = [event EXCEPT ![c] = delta[c]]
          /\ consumer' = [consumer EXCEPT ![c] = "leaving"]
          /\ UNCHANGED behind
      BY <1>1, <2>1, <2>3 DEF Deliver, Finish
    <3>2. QED
      BY <2>1, <2>3, <3>1
  <2>4. QED
    BY <2>2, <2>3
<1>2. CASE SeeClosed(c) \/ SeeCancelled(c)
  <2>1. PICK closing \in {"none", "done"} : Finish(c, closing)
    BY <1>2 DEF SeeClosed, SeeCancelled
  <2>2. /\ event' = [event EXCEPT ![c] = closing]
        /\ consumer' = [consumer EXCEPT ![c] = "leaving"]
        /\ UNCHANGED <<reader, delta, behind, caller, session, cancelled, streams>>
    BY <1>2, <2>1 DEF Finish, SeeClosed, SeeCancelled, manager
  <2>3. QED
    BY <2>2
<1>3. CASE Leave(c)
  BY <1>3 DEF Leave
<1>4. QED
  BY <1>1, <1>2, <1>3 DEF Consumer

LEMMA OthersKeepInv ==
  ASSUME Inv,
         \/ \E c \in Calls : Open(c) \/ Consume(c) \/ CallerGivesUp(c)
         \/ \E s \in Sessions : CancelStream(s)
         \/ CancelAll
  PROVE  Inv'
<1> USE DEF Inv, StreamsTypeOK, ReaderInv, Sending, Dropping
<1>1. ASSUME NEW c \in Calls, Open(c) PROVE Inv'
  BY <1>1 DEF Open, manager
<1>2. ASSUME NEW c \in Calls, Consume(c) PROVE Inv'
  BY <1>2 DEF Consume
<1>3. ASSUME NEW c \in Calls, CallerGivesUp(c) PROVE Inv'
  BY <1>3 DEF CallerGivesUp, manager
<1>4. ASSUME NEW s \in Sessions, CancelStream(s) PROVE Inv'
  BY <1>4 DEF CancelStream
<1>5. CASE CancelAll
  BY <1>5 DEF CancelAll
<1>6. QED
  BY <1>1, <1>2, <1>3, <1>4, <1>5

THEOREM InvAlways == StreamsSpec => []Inv
<1>1. Inv /\ [StreamsNext]_streamsVars => Inv'
  <2> SUFFICES ASSUME Inv, [StreamsNext]_streamsVars PROVE Inv'
    OBVIOUS
  <2>1. CASE UNCHANGED streamsVars
    BY <2>1 DEF Inv, StreamsTypeOK, ReaderInv, Sending, Dropping, streamsVars
  <2>2. CASE StreamsNext
    BY <2>2, ReaderKeepsInv, ConsumerKeepsInv, OthersKeepInv DEF StreamsNext
  <2>3. QED
    BY <2>1, <2>2
<1>2. QED
  BY <1>1, InitInv, PTL DEF StreamsSpec

\* Every state is well typed.
THEOREM TypeCorrect == StreamsSpec => []StreamsTypeOK
<1>1. Inv => StreamsTypeOK
  BY DEF Inv
<1>2. QED
  BY <1>1, InvAlways, PTL

\* No token read is left out when a reply is declared done or failed, unless
\* the request's context is done.
THEOREM ClosingShowsEverythingAlways == StreamsSpec => ClosingShowsEverything
<1> DEFINE Closing(c) == event[c] = "none" /\ event'[c] # "none" /\ ~RequestDone(c)
<1>1. Inv /\ [StreamsNext]_streamsVars => \A c \in Calls : Closing(c) => behind[c] = 0
  <2> SUFFICES ASSUME Inv, [StreamsNext]_streamsVars, NEW c \in Calls, Closing(c)
               PROVE  behind[c] = 0
    OBVIOUS
  <2>1. PICK d \in Calls : Deliver(d) \/ SeeClosed(d) \/ SeeCancelled(d) \/ Leave(d)
    <3>1. event' # event
      OBVIOUS
    <3>2. ASSUME NEW d \in Calls, Open(d) \/ Reader(d) \/ CallerGivesUp(d) \/ Consume(d)
          PROVE  FALSE
      BY <3>1, <3>2 DEF Open, CallerGivesUp, Consume, Reader, ReadToken, ReadDone, ReadFault,
                        ReadEnd, GiveUp, Send
    <3>3. ASSUME NEW s \in Sessions, CancelStream(s) PROVE FALSE
      BY <3>1, <3>3 DEF CancelStream
    <3>4. ~CancelAll
      BY <3>1 DEF CancelAll
    <3>5. QED
      BY <3>1, <3>2, <3>3, <3>4 DEF StreamsNext, Consumer, streamsVars
  <2>2. c = d /\ ~Leave(d) /\ ~SeeCancelled(d)
    BY <2>1 DEF Deliver, SeeClosed, SeeCancelled, Leave, Finish, Inv, StreamsTypeOK
  <2>0. ~Dropping(c)
    BY DroppingFact DEF Inv
  <2>3. CASE Deliver(d)
    BY <2>0, <2>2, <2>3 DEF Deliver, Sending, Inv, StreamsTypeOK, ReaderInv
  <2>4. CASE SeeClosed(d)
    BY <2>0, <2>2, <2>4 DEF SeeClosed, Closed, Inv, StreamsTypeOK, ReaderInv
  <2>5. QED
    BY <2>1, <2>2, <2>3, <2>4
<1>2. Inv /\ [StreamsNext]_streamsVars =>
        [\A c \in Calls : Closing(c) => behind[c] = 0]_streamsVars
  BY <1>1
<1>3. QED
  BY <1>2, InvAlways, PTL DEF StreamsSpec, ClosingShowsEverything
=============================================================================
