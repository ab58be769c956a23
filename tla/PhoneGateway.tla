----------------------------- MODULE PhoneGateway -----------------------------
(***************************************************************************)
(* The phone voice channel's connection to the gateway                     *)
(* (src/src/integrations/phone-voice.ts): dialling, the warm-up and the    *)
(* two questions asked when a socket opens, requests, reconnecting and     *)
(* disconnect().  The channel counts as connected from the moment a socket *)
(* opens, so that its own questions can go out; and every request waits    *)
(* for connectPromise when it is not connected, those questions included.  *)
(* The gateway and the speech services are external.                       *)
(***************************************************************************)
EXTENDS Integers, FiniteSets, FiniteSetsExt

CONSTANTS
  PhoneSockets,  \* model bound: sockets 1..PhoneSockets are dialled
  PhoneStops,    \* model bound: disconnects
  PhoneCalls     \* the sendRequest calls of commands and calls

ASSUME PhoneGatewayAssumption ==
  PhoneSockets \in Nat /\ PhoneStops \in Nat /\ IsFiniteSet(PhoneCalls)

VARIABLES
  wire,        \* readyState of each socket
  opening,     \* where the onopen of each socket is
  phoneUp,     \* this.connected
  connecting,  \* this.connecting
  phoneStopped,\* this.stopped
  socket,      \* this.socket
  redial,      \* reconnectTimer is armed
  promise,     \* the socket connectPromise is about, or 0
  request,     \* where each sendRequest call is
  phoneStops,  \* counts disconnects
  crossed      \* history: a socket was closed before its onopen was over, or its onclose
               \* came when the next socket was open

phoneVars == <<wire, opening, phoneUp, connecting, phoneStopped, socket, redial,
               promise, request, phoneStops, crossed>>

Wires == 1..PhoneSockets
Unopened == {s \in Wires : wire[s] = "unused"}

PhoneInit ==
  /\ wire = [s \in Wires |-> "unused"]
  /\ opening = [s \in Wires |-> "none"]
  /\ phoneUp = FALSE
  /\ connecting = FALSE
  /\ phoneStopped = FALSE
  /\ socket = 0
  /\ redial = FALSE
  /\ promise = 0
  /\ request = [c \in PhoneCalls |-> "new"]
  /\ phoneStops = 0
  /\ crossed = FALSE

-----------------------------------------------------------------------------
(* ensureConnected.  An operator X_Y is X with a bug Y planted in it. *)

\* A new attempt: connectPromise is about the next socket.
DialPhone ==
  /\ Unopened # {}
  /\ wire' = [wire EXCEPT ![Min(Unopened)] = "dialing"]
  /\ promise' = Min(Unopened)

JoinPhone == promise # 0 /\ UNCHANGED <<wire, promise>>

\* connectPromise is settled: those who wait for it go on or fail.
Settle_Leaves(s, outcome) ==
  /\ promise' = IF promise = s THEN 0 ELSE promise
  /\ UNCHANGED request
Settle(s, outcome) ==
  /\ promise' = IF promise = s THEN 0 ELSE promise
  /\ request' = [c \in PhoneCalls |->
                   IF promise = s /\ request[c] = "waiting" THEN outcome ELSE request[c]]

\* connect(), and a sendRequest call.
ConnectPhone ==
  /\ ~phoneUp
  /\ phoneStopped' = FALSE
  /\ connecting' = TRUE
  /\ JoinPhone \/ (promise = 0 /\ DialPhone)
  /\ UNCHANGED <<opening, phoneUp, socket, redial, request, phoneStops, crossed>>

RequestPhone(c) ==
  /\ request[c] = "new"
  /\ \/ /\ phoneUp
        /\ request' = [request EXCEPT ![c] = IF socket = 0 THEN "over" ELSE "sent"]
        /\ UNCHANGED <<wire, promise>>
     \/ /\ ~phoneUp
        /\ JoinPhone \/ (promise = 0 /\ DialPhone)
        /\ request' = [request EXCEPT ![c] = "waiting"]
  /\ UNCHANGED <<opening, phoneUp, connecting, phoneStopped, socket, redial, phoneStops,
                 crossed>>

\* The response to a request, or its timeout.
RequestEnds(c) ==
  /\ request[c] = "sent"
  /\ request' = [request EXCEPT ![c] = "over"]
  /\ UNCHANGED <<wire, opening, phoneUp, connecting, phoneStopped, socket, redial,
                 promise, phoneStops, crossed>>

Redials ==
  /\ redial
  /\ redial' = FALSE
  /\ connecting' = TRUE
  /\ \/ phoneUp /\ UNCHANGED <<wire, promise>>
     \/ ~phoneUp /\ (JoinPhone \/ (promise = 0 /\ DialPhone))
  /\ UNCHANGED <<opening, phoneUp, phoneStopped, socket, request, phoneStops, crossed>>

-----------------------------------------------------------------------------
(* The callbacks of a socket *)

InOnopen(s) == opening[s] \in {"warming", "waiting", "asking"}

\* onopen, up to the await of warmRuntime: connected, although not yet ready.
UpAtOpen_Later == phoneUp
UpAtOpen == TRUE
PhoneOpens(s) ==
  /\ wire[s] = "dialing"
  /\ wire' = [wire EXCEPT ![s] = "open"]
  /\ opening' = [opening EXCEPT ![s] = "warming"]
  /\ socket' = s
  /\ phoneUp' = UpAtOpen
  /\ connecting' = TRUE
  /\ UNCHANGED <<phoneStopped, redial, promise, request, phoneStops, crossed>>

\* The speech services are ready: the two questions go out, by way of
\* ensureConnected.  They may have to wait for a promise: their own.
Warmed(s) ==
  /\ opening[s] = "warming"
  /\ \/ /\ phoneUp
        /\ socket # 0
        /\ opening' = [opening EXCEPT ![s] = "asking"]
        /\ UNCHANGED <<wire, promise>>
     \/ /\ ~phoneUp
        /\ JoinPhone \/ (promise = 0 /\ DialPhone)
        /\ opening' = [opening EXCEPT ![s] = "waiting"]
  /\ UNCHANGED <<phoneUp, connecting, phoneStopped, socket, redial, request, phoneStops,
                 crossed>>

\* Another attempt was settled, for an onopen that waits for it.
GoesOn(s) ==
  /\ opening[s] = "waiting"
  /\ promise = 0
  /\ opening' = [opening EXCEPT ![s] = IF socket # 0 THEN "asking" ELSE "failing"]
  /\ UNCHANGED <<wire, phoneUp, connecting, phoneStopped, socket, redial, promise,
                 request, phoneStops, crossed>>

\* Both questions are answered.
PhoneReady(s) ==
  /\ opening[s] = "asking"
  /\ opening' = [opening EXCEPT ![s] = "done"]
  /\ connecting' = FALSE
  /\ Settle(s, IF socket = 0 THEN "over" ELSE "sent")
  /\ UNCHANGED <<wire, phoneUp, phoneStopped, socket, redial, phoneStops, crossed>>

\* The warm-up fails, or a question fails or times out: the catch of onopen.
PhoneRefused(s) ==
  /\ opening[s] \in {"warming", "asking", "failing"}
  /\ opening' = [opening EXCEPT ![s] = "failed"]
  /\ phoneUp' = FALSE
  /\ connecting' = FALSE
  /\ wire' = [wire EXCEPT ![s] = IF @ = "open" THEN "closing" ELSE @]
  /\ Settle(s, "over")
  /\ UNCHANGED <<phoneStopped, socket, redial, phoneStops, crossed>>

\* The connection is lost: onclose follows, for a failure after an onerror.
PhoneDrops(s) ==
  /\ wire[s] = "open"
  /\ wire' = [wire EXCEPT ![s] = "closing"]
  /\ UNCHANGED <<opening, phoneUp, connecting, phoneStopped, socket, redial, promise,
                 request, phoneStops, crossed>>

PhoneErrs(s) ==
  /\ wire[s] \in {"dialing", "open"}
  /\ wire' = [wire EXCEPT ![s] = "closing"]
  /\ IF opening[s] = "done"
     THEN UNCHANGED <<connecting, promise, request>>
     ELSE connecting' = FALSE /\ Settle(s, "over")
  /\ UNCHANGED <<opening, phoneUp, phoneStopped, socket, redial, phoneStops, crossed>>

Redial_Always(s) == TRUE
Redial_Current(s) == redial \/ (~phoneStopped /\ socket = s)
Redial(s) == redial \/ ~phoneStopped
PhoneCloses(s) ==
  /\ wire[s] = "closing"
  /\ wire' = [wire EXCEPT ![s] = "closed"]
  /\ phoneUp' = FALSE
  /\ connecting' = FALSE
  /\ socket' = 0
  /\ redial' = Redial(s)
  /\ crossed' = (crossed \/ InOnopen(s) \/ socket \notin {0, s})
  /\ UNCHANGED <<opening, phoneStopped, promise, request, phoneStops>>

\* disconnect(): a socket that is still being dialled is not known to it.
DisconnectPhone ==
  /\ phoneStops < PhoneStops
  /\ phoneStops' = phoneStops + 1
  /\ phoneStopped' = TRUE
  /\ phoneUp' = FALSE
  /\ connecting' = FALSE
  /\ redial' = FALSE
  /\ socket' = 0
  /\ wire' = [s \in Wires |-> IF s = socket /\ wire[s] = "open" THEN "closing" ELSE wire[s]]
  /\ opening' = [s \in Wires |-> IF opening[s] = "asking" THEN "failing" ELSE opening[s]]
  /\ request' = [c \in PhoneCalls |-> IF request[c] = "sent" THEN "over" ELSE request[c]]
  /\ crossed' = (crossed \/ \E s \in Wires : s = socket /\ InOnopen(s))
  /\ UNCHANGED promise

-----------------------------------------------------------------------------
PhoneSteps(s) ==
  \/ PhoneOpens(s) \/ Warmed(s) \/ GoesOn(s) \/ PhoneReady(s) \/ PhoneRefused(s)
  \/ PhoneDrops(s) \/ PhoneErrs(s) \/ PhoneCloses(s)

PhoneNext ==
  \/ ConnectPhone \/ Redials \/ DisconnectPhone
  \/ \E c \in PhoneCalls : RequestPhone(c) \/ RequestEnds(c)
  \/ \E s \in Wires : PhoneSteps(s)

PhoneSpec == PhoneInit /\ [][PhoneNext]_phoneVars

-----------------------------------------------------------------------------
(* Properties *)

PhoneTypeOK ==
  /\ wire \in [Wires -> {"unused", "dialing", "open", "closing", "closed"}]
  /\ opening \in [Wires -> {"none", "warming", "waiting", "asking", "failing", "failed", "done"}]
  /\ socket \in Wires \cup {0} /\ promise \in Wires \cup {0}
  /\ request \in [PhoneCalls -> {"new", "waiting", "sent", "over"}]
  /\ \A c \in PhoneCalls : request[c] = "waiting" => promise # 0

\* A lost connection is dialled again: by the timer, or by an attempt under way,
\* unless one was closed before its onopen was over: the timer's callback joins the
\* attempt of that onopen and shares its fate.
Returning ==
  \/ redial \/ promise # 0
  \/ \E s \in Wires : wire[s] \in {"dialing", "closing", "open"}
PhoneComesBack ==
  (\E s \in Wires : wire[s] = "closed") /\ ~phoneStopped /\ ~crossed => Returning

\* No attempt waits for itself.  It would if it were not connected when it asks its
\* questions: if its socket was closed, or an older one's onclose came late.
NoSelfWait == ~crossed => \A s \in Wires : ~(opening[s] = "waiting" /\ promise = s)

\* No timer dials a channel that was stopped, whichever socket's onclose comes late.
NoTimerWhenStopped == phoneStopped => ~redial

\* The connection to the gateway comes back, and only while it is wanted.
GatewayCorrect == PhoneTypeOK /\ PhoneComesBack /\ NoSelfWait /\ NoTimerWhenStopped

=============================================================================
