------------------------------ MODULE SmsSocket ------------------------------
(***************************************************************************)
(* The SMS channel's connection to the phone's gateway                     *)
(* (src/src/integrations/sms-socket.ts): connecting, reconnecting,         *)
(* rehydrating what was missed, sending and disconnecting.                 *)
(*                                                                         *)
(* Callbacks of several sockets interleave: one that is closing, one that  *)
(* is being dialled, one that was forgotten.  Settling a promise and the   *)
(* continuations of those who await it are one step (microtasks).  The     *)
(* phone is external: it stores every SMS, pushes it to the sockets that   *)
(* are open, and answers a rehydrate request with all it has.  A message   *)
(* is its timestamp.                                                       *)
(***************************************************************************)
EXTENDS Integers, FiniteSets, FiniteSetsExt

CONSTANTS
  LastMessage,  \* model bound: the phone receives messages 1..LastMessage
  MaxSockets,   \* model bound: sockets opened in a behaviour
  MaxStops,     \* model bound: disconnects and restarts
  Sends         \* the sendMessage calls

ASSUME SmsSocketAssumption ==
  /\ LastMessage \in Nat
  /\ MaxSockets \in Nat \ {0}
  /\ MaxStops \in Nat
  /\ IsFiniteSet(Sends) /\ Sends \cap {"connect", "timer"} = {}

VARIABLES
  readyState,  \* of each socket
  gen,         \* the connectionGeneration a socket was opened in
  asked,       \* sockets whose getGatewayState was not answered
  ready,       \* sockets whose getGatewayState was answered
  since,       \* since[s]: argument of an unanswered rehydrate request, or NoRequest
  link,        \* link[s]: messages pushed on s and not handled yet
  currentSocket,  \* this.socket
  connected,
  stopped,
  generation,  \* connectionGeneration
  timer,       \* reconnectTimer is armed
  attempt,     \* the socket connectPromise waits for, or NoSocket
  waiting,     \* who awaits connectPromise: sends, "connect", "timer"
  pc,          \* where each sendMessage call is
  lastSeen,    \* lastSeenTimestamp, which is persisted
  seen,        \* seenMessages
  phone,       \* the phone has received 1..phone
  stops,       \* counts disconnects and restarts
  passedOn,    \* history: messages given to onMessage
  again,       \* history: messages given to it twice
  early,       \* history: an event was handled on a socket before its history
  caughtUp,    \* history: sockets whose rehydrate was answered
  wasReady,    \* history: a connection became ready since the last stop
  taken        \* history: a send cleared the timer since then

socketVars == <<readyState, gen, asked, ready, since, link>>
stateVars == <<currentSocket, connected, stopped, generation, timer, attempt, waiting>>
inbound == <<lastSeen, seen, passedOn, again, early, caughtUp>>
smsVars == <<socketVars, stateVars, pc, inbound, phone, stops, wasReady, taken>>

Sockets == 1..MaxSockets
NoSocket == 0
NoRequest == -1
Messages == 1..LastMessage

SmsInit ==
  /\ readyState = [s \in Sockets |-> "unused"]
  /\ gen = [s \in Sockets |-> 0]
  /\ asked = {}
  /\ ready = {}
  /\ since = [s \in Sockets |-> NoRequest]
  /\ link = [s \in Sockets |-> {}]
  /\ currentSocket = NoSocket
  /\ connected = FALSE
  /\ stopped = FALSE
  /\ generation = 0
  /\ timer = FALSE
  /\ attempt = NoSocket
  /\ waiting = {}
  /\ pc = [c \in Sends |-> "new"]
  /\ lastSeen = 0
  /\ seen = {}
  /\ phone = 0
  /\ stops = 0
  /\ passedOn = {}
  /\ again = {}
  /\ early = FALSE
  /\ caughtUp = {}
  /\ wasReady = FALSE
  /\ taken = FALSE

-----------------------------------------------------------------------------
(* An operator X_Y is X with a bug Y planted in it. *)

UnusedSockets == {s \in Sockets : readyState[s] = "unused"}
IsOpen(s) == s # NoSocket /\ readyState[s] = "open"

\* The calls in C go on to step.
Go(C, step) == [c \in Sends |-> IF c \in C THEN step ELSE pc[c]]

\* ensureConnected, called by w: there is a connection, an attempt to wait for,
\* or a socket to be opened.  connect() withdraws a stop in any case.
AlreadyConnected(w) ==
  /\ connected /\ IsOpen(currentSocket)
  /\ pc' = Go({w}, "sent")
  /\ stopped' = (stopped /\ w # "connect")
  /\ timer' = (timer /\ w # "timer")
  /\ UNCHANGED <<socketVars, currentSocket, attempt, waiting, taken>>

JoinAttempt(w) ==
  /\ ~(connected /\ IsOpen(currentSocket))
  /\ attempt # NoSocket
  /\ waiting' = waiting \cup {w}
  /\ pc' = Go({w}, "waiting")
  /\ stopped' = (stopped /\ w # "connect")
  /\ timer' = (timer /\ w # "timer")
  /\ UNCHANGED <<socketVars, currentSocket, attempt, taken>>

Dial(w) ==
  /\ ~(connected /\ IsOpen(currentSocket))
  /\ attempt = NoSocket
  /\ UnusedSockets # {}
  /\ LET s == Min(UnusedSockets) IN
       /\ readyState' = [readyState EXCEPT ![s] = "dialing"]
       /\ gen' = [gen EXCEPT ![s] = generation]
       /\ currentSocket' = s
       /\ attempt' = s
  /\ waiting' = {w}
  /\ pc' = Go({w}, "waiting")
  /\ stopped' = FALSE
  /\ timer' = FALSE
  /\ taken' = (taken \/ (timer /\ w # "timer"))
  /\ UNCHANGED <<asked, ready, since, link>>

EnsureConnected(w) ==
  /\ AlreadyConnected(w) \/ JoinAttempt(w) \/ Dial(w)
  /\ UNCHANGED <<connected, generation, inbound, phone, stops, wasReady>>

\* connect(): at startup, its retries, and after disconnect().
Connect == ~wasReady /\ EnsureConnected("connect")

Send(c) == pc[c] = "new" /\ EnsureConnected(c)

ReconnectTimerFires == timer /\ EnsureConnected("timer")

\* The response to sendSms, or its timeout: losing the socket does not end it.
SendEnds(c) ==
  /\ pc[c] = "sent"
  /\ pc' = Go({c}, "over")
  /\ UNCHANGED <<socketVars, stateVars, inbound, phone, stops, wasReady, taken>>

-----------------------------------------------------------------------------
(* One connection attempt: openSocket *)

\* onopen; disconnect closes a socket that is being dialled, so it never opens.
SocketOpens(s) ==
  /\ readyState[s] = "dialing"
  /\ readyState' = [readyState EXCEPT ![s] = "open"]
  /\ asked' = asked \cup {s}
  /\ UNCHANGED <<gen, ready, since, link, stateVars, pc, inbound, phone, stops,
                 wasReady, taken>>

\* The answer to getGatewayState: connected; the history is asked for.
Answered(s) ==
  /\ readyState[s] = "open"
  /\ s \in asked
  /\ asked' = asked \ {s}
  /\ ready' = ready \cup {s}
  /\ since' = [since EXCEPT ![s] = lastSeen]
  /\ connected' = TRUE
  /\ attempt' = NoSocket
  /\ waiting' = {}
  /\ pc' = Go(waiting, "sent")
  /\ wasReady' = TRUE
  /\ taken' = FALSE
  /\ UNCHANGED <<readyState, gen, link, currentSocket, stopped, generation, timer,
                 inbound, phone, stops>>

\* The attempt on socket s is rejected, if it is still the attempt: sends fail, and
\* the timer's callback arms the timer again.  rearm: onclose does so, too.
Reject_ForgetsTimer(s, rearm) ==
  /\ attempt' = IF attempt = s THEN NoSocket ELSE attempt
  /\ waiting' = IF attempt = s THEN {} ELSE waiting
  /\ pc' = IF attempt = s THEN Go(waiting, "over") ELSE pc
  /\ timer' = (timer \/ rearm)
Reject(s, rearm) ==
  /\ attempt' = IF attempt = s THEN NoSocket ELSE attempt
  /\ waiting' = IF attempt = s THEN {} ELSE waiting
  /\ pc' = IF attempt = s THEN Go(waiting, "over") ELSE pc
  /\ timer' = (timer \/ rearm \/ (attempt = s /\ "timer" \in waiting /\ ~stopped))

\* onerror before the socket is open.
DialFails(s) ==
  /\ readyState[s] = "dialing"
  /\ readyState' = [readyState EXCEPT ![s] = "closing"]
  /\ Reject(s, FALSE)
  /\ UNCHANGED <<gen, asked, ready, since, link, currentSocket, connected, stopped,
                 generation, inbound, phone, stops, wasReady, taken>>

\* getGatewayState fails or times out.
AskFails(s) ==
  /\ s \in asked
  /\ asked' = asked \ {s}
  /\ readyState' = [readyState EXCEPT ![s] = "closing"]
  /\ link' = [link EXCEPT ![s] = {}]
  /\ Reject(s, FALSE)
  /\ UNCHANGED <<gen, ready, since, currentSocket, connected, stopped, generation,
                 inbound, phone, stops, wasReady, taken>>

\* The peer or the network ends the connection; what is under way is lost.
Drops(s) ==
  /\ readyState[s] = "open"
  /\ readyState' = [readyState EXCEPT ![s] = "closing"]
  /\ link' = [link EXCEPT ![s] = {}]
  /\ UNCHANGED <<gen, asked, ready, since, stateVars, pc, inbound, phone, stops,
                 wasReady, taken>>

\* onclose, of whichever socket: the channel counts as disconnected.
Rearms_Always(s) == s \in ready
Rearms(s) == s \in ready /\ ~stopped /\ gen[s] = generation
Closes(s) ==
  /\ readyState[s] = "closing"
  /\ readyState' = [readyState EXCEPT ![s] = "closed"]
  /\ asked' = asked \ {s}
  /\ since' = [since EXCEPT ![s] = NoRequest]
  /\ currentSocket' = IF currentSocket = s THEN NoSocket ELSE currentSocket
  /\ connected' = FALSE
  /\ Reject(s, Rearms(s))
  /\ UNCHANGED <<gen, ready, link, stopped, generation, inbound, phone, stops, wasReady,
                 taken>>

-----------------------------------------------------------------------------
(* Stopping *)

\* disconnect: rejectAllPending makes the attempt fail that waits for an answer;
\* one that is being dialled fails when its socket is closed.
Disconnect ==
  /\ stops < MaxStops
  /\ stops' = stops + 1
  /\ stopped' = TRUE
  /\ connected' = FALSE
  /\ generation' = generation + 1
  /\ timer' = FALSE
  /\ LET rejected == IF attempt \in asked THEN waiting ELSE {} IN
       /\ pc' = Go(rejected \cup {c \in Sends : pc[c] = "sent"}, "over")
       /\ waiting' = waiting \ rejected
  /\ attempt' = IF attempt \in asked THEN NoSocket ELSE attempt
  /\ LET cut == {s \in {currentSocket} \cup asked : s \in Sockets} IN
       /\ readyState' = [s \in Sockets |-> IF s \in cut THEN "closing" ELSE readyState[s]]
       /\ link' = [s \in Sockets |-> IF s \in cut THEN {} ELSE link[s]]
  /\ asked' = {}
  /\ since' = [s \in Sockets |-> NoRequest]
  /\ currentSocket' = NoSocket
  /\ wasReady' = FALSE
  /\ taken' = FALSE
  /\ UNCHANGED <<gen, ready, inbound, phone>>

\* The process dies and starts again; only lastSeenTimestamp survives.
Restart ==
  /\ stops < MaxStops
  /\ stops' = stops + 1
  /\ readyState' = [s \in Sockets |-> IF s \in UnusedSockets THEN "unused" ELSE "closed"]
  /\ asked' = {}
  /\ since' = [s \in Sockets |-> NoRequest]
  /\ link' = [s \in Sockets |-> {}]
  /\ currentSocket' = NoSocket
  /\ connected' = FALSE
  /\ stopped' = FALSE
  /\ generation' = 0
  /\ timer' = FALSE
  /\ attempt' = NoSocket
  /\ waiting' = {}
  /\ pc' = Go({c \in Sends : pc[c] # "new"}, "over")
  /\ seen' = {}
  /\ wasReady' = FALSE
  /\ taken' = FALSE
  /\ UNCHANGED <<gen, ready, lastSeen, passedOn, again, early, caughtUp, phone>>

-----------------------------------------------------------------------------
(* Messages *)

\* The phone receives an SMS and pushes it to the open sockets.
PhoneReceives ==
  /\ phone < LastMessage
  /\ phone' = phone + 1
  /\ link' = [s \in Sockets |-> IF readyState[s] = "open" THEN link[s] \cup {phone + 1}
                                ELSE link[s]]
  /\ UNCHANGED <<readyState, gen, asked, ready, since, stateVars, pc, inbound, stops,
                 wasReady, taken>>

\* handleGatewayEvent for the messages in M: those not seen go to onMessage.
Fresh_All(M) == M
Fresh(M) == M \ seen
Handle(M) ==
  /\ passedOn' = passedOn \cup Fresh(M)
  /\ again' = again \cup (Fresh(M) \cap passedOn)
  /\ seen' = seen \cup M
  /\ lastSeen' = Max(M \cup {lastSeen})

PushArrives(s) ==
  /\ readyState[s] = "open"
  /\ link[s] # {}
  /\ Handle({Min(link[s])})
  /\ link' = [link EXCEPT ![s] = @ \ {Min(@)}]
  /\ early' = (early \/ s \notin caughtUp)
  /\ UNCHANGED <<readyState, gen, asked, ready, since, stateVars, pc, caughtUp, phone,
                 stops, wasReady, taken>>

\* A gateway.state event: no message, but persistLastSeen takes its time.
StateArrives_HostClock(s) ==
  /\ readyState[s] = "open"
  /\ link[s] = {}
  /\ lastSeen' = phone + 1
  /\ early' = (early \/ s \notin caughtUp)
  /\ UNCHANGED <<socketVars, stateVars, pc, seen, passedOn, again, caughtUp, phone,
                 stops, wasReady, taken>>
StateArrives(s) ==
  /\ readyState[s] = "open"
  /\ link[s] = {}
  /\ lastSeen < phone
  /\ lastSeen' = phone
  /\ early' = (early \/ s \notin caughtUp)
  /\ UNCHANGED <<socketVars, stateVars, pc, seen, passedOn, again, caughtUp, phone,
                 stops, wasReady, taken>>

\* The answer to rehydrate.
HistoryFrom_OffByOne(s) == {m \in 1..phone : m > since[s] + 1}
HistoryFrom(s) == {m \in 1..phone : m > since[s]}
HistoryArrives(s) ==
  /\ readyState[s] = "open"
  /\ since[s] # NoRequest
  /\ Handle(HistoryFrom(s))
  /\ since' = [since EXCEPT ![s] = NoRequest]
  /\ caughtUp' = caughtUp \cup {s}
  /\ UNCHANGED <<readyState, gen, asked, ready, link, stateVars, pc, early, phone,
                 stops, wasReady, taken>>

\* rehydrate fails or times out; it is logged and not repeated.
HistoryFails(s) ==
  /\ since[s] # NoRequest
  /\ since' = [since EXCEPT ![s] = NoRequest]
  /\ UNCHANGED <<readyState, gen, asked, ready, link, stateVars, pc, inbound, phone,
                 stops, wasReady, taken>>

-----------------------------------------------------------------------------
Attempt(s) == SocketOpens(s) \/ Answered(s) \/ DialFails(s) \/ AskFails(s)

Inbound(s) ==
  PushArrives(s) \/ StateArrives(s) \/ HistoryArrives(s) \/ HistoryFails(s)

SmsNext ==
  \/ Connect \/ ReconnectTimerFires
  \/ \E c \in Sends : Send(c) \/ SendEnds(c)
  \/ \E s \in Sockets : Attempt(s) \/ Drops(s) \/ Closes(s) \/ Inbound(s)
  \/ Disconnect \/ Restart
  \/ PhoneReceives

SmsSpec == SmsInit /\ [][SmsNext]_smsVars

-----------------------------------------------------------------------------
(* Properties *)

SmsTypeOK ==
  /\ readyState \in [Sockets -> {"unused", "dialing", "open", "closing", "closed"}]
  /\ gen \in [Sockets -> 0..MaxStops]
  /\ asked \subseteq Sockets
  /\ ready \subseteq Sockets \ asked
  /\ since \in [Sockets -> Messages \cup {0, NoRequest}]
  /\ link \in [Sockets -> SUBSET Messages]
  /\ currentSocket \in Sockets \cup {NoSocket}
  /\ connected \in BOOLEAN
  /\ stopped \in BOOLEAN
  /\ generation \in 0..MaxStops
  /\ timer \in BOOLEAN
  /\ attempt \in Sockets \cup {NoSocket}
  /\ waiting \subseteq Sends \cup {"connect", "timer"}
  /\ pc \in [Sends -> {"new", "waiting", "sent", "over"}]
  /\ lastSeen \in 0..phone
  /\ seen \subseteq passedOn
  /\ phone \in 0..LastMessage
  /\ stops \in 0..MaxStops
  /\ passedOn \subseteq 1..phone
  /\ again \subseteq passedOn
  /\ early \in BOOLEAN
  /\ caughtUp \subseteq ready
  /\ wasReady \in BOOLEAN
  /\ taken \in BOOLEAN

\* No SMS is handed to the router twice, although it may be pushed on several
\* sockets and be part of several histories, before and after a restart.
DeliveredOnce == again = {}

Coming(m) ==
  \E s \in Sockets : /\ readyState[s] = "open"
                     /\ m \in link[s] \/ (since[s] # NoRequest /\ m > since[s])

\* "Rehydrates recent SMS and MMS history after reconnects": every SMS was
\* handed over, is on its way or will be part of the next history, whatever
\* connections and histories fail, as long as the first thing handled on a
\* connection is its history.
NoGap ==
  ~early => \A m \in 1..phone : m > lastSeen \/ m \in passedOn \/ Coming(m)

\* A stopped channel stays stopped: no timer, late answer or late callback of any
\* socket connects it again.
StopHolds == stopped => ~connected /\ ~timer /\ currentSocket = NoSocket

Reconnecting ==
  \/ timer
  \/ attempt # NoSocket
  \/ \E s \in ready : gen[s] = generation /\ readyState[s] \in {"open", "closing"}

\* Once a connection was ready, something brings the channel back until it is
\* stopped, unless a send took the place of the timer.
KeepsReconnecting == wasReady /\ ~stopped /\ ~taken => Reconnecting

\* What the channel promises of every message and every lost connection: each
\* SMS is handed over once and none is passed over, and a lost connection comes
\* back.
SmsCorrect == DeliveredOnce /\ NoGap /\ KeepsReconnecting

\* "Reconnects to the Android gateway over WebSocket": ... without exception.
AlwaysReconnects == wasReady /\ ~stopped => Reconnecting

=============================================================================
