----------------------------- MODULE BrowserVoice -----------------------------
(***************************************************************************)
(* The events of one browser voice session: emitted by the runner's        *)
(* callbacks (src/src/integrations/phone-voice.ts), drained by HTTP calls, *)
(* and streamed to WebSockets (src/src/integrations/phone-voice-ws.ts).    *)
(* An event is its number.                                                 *)
(***************************************************************************)
EXTENDS Integers, Sequences, SequencesExt

CONSTANTS
  BrowserEvents, \* model bound: events 1..BrowserEvents are emitted
  BrowserStreams \* the WebSockets that are opened, one after the other or together

ASSUME BrowserVoiceAssumption == BrowserEvents \in Nat

VARIABLES
  live,      \* the session is in browserSessions
  emitted,   \* events 1..emitted were emitted
  events,    \* session.events
  streamAt,  \* each WebSocket: none, open, started, closed
  got,       \* what each WebSocket was sent
  sending,   \* WebSockets whose audio is being handled
  polled,    \* what HTTP calls returned
  lateDrain  \* history: events were drained for a WebSocket that was gone

browserVars == <<live, emitted, events, streamAt, got, sending, polled, lateDrain>>

BrowserInit ==
  /\ live = TRUE
  /\ emitted = 0
  /\ events = <<>>
  /\ streamAt = [w \in BrowserStreams |-> "none"]
  /\ got = [w \in BrowserStreams |-> <<>>]
  /\ sending = {}
  /\ polled = <<>>
  /\ lateDrain = FALSE

-----------------------------------------------------------------------------
(* An operator X_Y is X with a bug Y planted in it. *)

\* emit: the event is queued and goes to every listener, too.
Queued_IfUnheard(e) ==
  IF \E w \in BrowserStreams : streamAt[w] \in {"started", "closed"}
  THEN events ELSE Append(events, e)
Queued(e) == Append(events, e)
Emit ==
  /\ emitted < BrowserEvents
  /\ emitted' = emitted + 1
  /\ events' = Queued(emitted + 1)
  /\ got' = [w \in BrowserStreams |->
                IF streamAt[w] = "started" THEN Append(got[w], emitted + 1) ELSE got[w]]
  /\ UNCHANGED <<live, streamAt, sending, polled, lateDrain>>

StreamConnects(w) ==
  /\ streamAt[w] = "none"
  /\ streamAt' = [streamAt EXCEPT ![w] = "open"]
  /\ UNCHANGED <<live, emitted, events, got, sending, polled, lateDrain>>

\* handleStart: subscribe, then send what is queued; without a session it is closed.
StartsOnce_Not(w) == streamAt[w] \in {"open", "started"}
StartsOnce(w) == streamAt[w] = "open"
StreamStarts(w) ==
  /\ StartsOnce(w)
  /\ IF live
     THEN /\ streamAt' = [streamAt EXCEPT ![w] = "started"]
          /\ got' = [got EXCEPT ![w] = @ \o events]
          /\ events' = <<>>
     ELSE /\ streamAt' = [streamAt EXCEPT ![w] = "closed"]
          /\ UNCHANGED <<got, events>>
  /\ UNCHANGED <<live, emitted, sending, polled, lateDrain>>

\* cleanup: by the client's `end`, or by the end or failure of the socket.
StreamCloses(w) ==
  /\ streamAt[w] \in {"open", "started"}
  /\ streamAt' = [streamAt EXCEPT ![w] = "closed"]
  /\ UNCHANGED <<live, emitted, events, got, sending, polled, lateDrain>>

\* Audio of a WebSocket: when it is handled the queue is drained, and the events are
\* dropped, as the WebSocket was sent them when they were emitted.
StreamSends(w) ==
  /\ live
  /\ streamAt[w] = "started"
  /\ sending' = sending \cup {w}
  /\ UNCHANGED <<live, emitted, events, streamAt, got, polled, lateDrain>>

StreamDrains(w) ==
  /\ w \in sending
  /\ sending' = sending \ {w}
  /\ events' = <<>>
  /\ lateDrain' = (lateDrain \/ streamAt[w] = "closed")
  /\ UNCHANGED <<live, emitted, streamAt, got, polled>>

\* getBrowserVoiceEvents and the answers to audio sent by HTTP.
GetEvents ==
  /\ live
  /\ polled' = polled \o events
  /\ events' = <<>>
  /\ UNCHANGED <<live, emitted, streamAt, got, sending, lateDrain>>

EndBrowserSession ==
  /\ live
  /\ live' = FALSE
  /\ UNCHANGED <<emitted, events, streamAt, got, sending, polled, lateDrain>>

BrowserNext ==
  \/ Emit \/ GetEvents \/ EndBrowserSession
  \/ \E w \in BrowserStreams :
       \/ StreamConnects(w) \/ StreamStarts(w) \/ StreamCloses(w)
       \/ StreamSends(w) \/ StreamDrains(w)

-----------------------------------------------------------------------------
(* Properties *)

\* What a client has seen or can still get: nothing emitted is lost between the
\* queue and the streams, whatever sockets come, go and overlap, unless audio was
\* still being handled for a socket that had gone.
NoEventLost ==
  ~lateDrain => \A e \in 1..emitted :
    Contains(events, e) \/ Contains(polled, e) \/ \E w \in BrowserStreams : Contains(got[w], e)

\* One WebSocket gets the events in order and each once, those from before its
\* subscription included.
InOrderPerStream ==
  \A w \in BrowserStreams : \A i, j \in 1..Len(got[w]) : i < j => got[w][i] < got[w][j]

\* A client that streams or polls gets all events of its session, in order.
EventsCorrect == NoEventLost /\ InOrderPerStream

=============================================================================
