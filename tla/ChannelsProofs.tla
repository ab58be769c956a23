---------------------------- MODULE ChannelsProofs ----------------------------
(***************************************************************************)
(* Proofs about what connects the host with its users, for any number of   *)
(* sockets, messages, instances, requests and processes: the SMS socket,   *)
(* the Slack channel, inbound messages and remote control.                 *)
(***************************************************************************)
EXTENDS MCChannels, NumberLemmas, TLAPS

-----------------------------------------------------------------------------
(* The SMS socket: a stopped channel stays stopped *)

\* The inductive invariant.  The parts need each other: only a socket whose
\* handshake is under way can make the channel connected, and disconnect cuts the
\* current socket and those sockets; so a socket that is being dialled must be the
\* current one, and no other attempt may begin before it is settled.
SInv ==
  /\ readyState \in [Sockets -> {"unused", "dialing", "open", "closing", "closed"}]
  /\ \A s \in Sockets : readyState[s] = "dialing" => currentSocket = s /\ attempt = s
  /\ asked \subseteq Sockets
  /\ \A s \in asked : attempt = s /\ readyState[s] \in {"open", "closing"}
  /\ stopped => asked = {}
  /\ StopHolds

LEMMA NoSocketIsNone == \A s \in Sockets : s # NoSocket
BY SmsSocketAssumption DEF Sockets, NoSocket

LEMMA InitSInv == SmsInit => SInv
BY DEF SmsInit, SInv, StopHolds

\* ensureConnected: a socket is dialled only when no attempt is under way.
LEMMA EnsureConnectedKeeps ==
  ASSUME SInv, NEW w, EnsureConnected(w)
  PROVE  SInv'
<1>a. connected' = connected
  BY DEF EnsureConnected
<1>1. CASE AlreadyConnected(w)
  BY <1>1, <1>a DEF AlreadyConnected, SInv, StopHolds, socketVars
<1>2. CASE JoinAttempt(w)
  BY <1>2, <1>a DEF JoinAttempt, SInv, StopHolds, socketVars
<1>3. CASE Dial(w)
  <2>1. PICK s : /\ readyState' = [readyState EXCEPT ![s] = "dialing"]
                 /\ currentSocket' = s /\ attempt' = s
    BY <1>3 DEF Dial
  <2>2. attempt = NoSocket /\ asked' = asked /\ stopped' = FALSE
    BY <1>3 DEF Dial
  <2>3. asked = {} /\ \A x \in Sockets : readyState[x] # "dialing"
    BY <2>2, NoSocketIsNone DEF SInv
  <2> QED
    BY <2>1, <2>2, <2>3 DEF SInv, StopHolds
<1> QED
  BY <1>1, <1>2, <1>3 DEF EnsureConnected

\* The steps that touch neither attempts nor the handshake.
LEMMA MessagesKeep ==
  ASSUME SInv, UNCHANGED <<readyState, asked, stateVars>>
  PROVE  SInv'
BY DEF SInv, StopHolds, stateVars

LEMMA AttemptKeeps ==
  ASSUME SInv, NEW s \in Sockets, Attempt(s)
  PROVE  SInv'
<1>1. CASE SocketOpens(s)
  BY <1>1, NoSocketIsNone DEF SocketOpens, SInv, StopHolds, stateVars
<1>2. CASE Answered(s)
  <2>1. /\ ~stopped' /\ readyState' = readyState /\ currentSocket' = currentSocket
        /\ asked' = asked \ {s} /\ attempt' = NoSocket /\ readyState[s] = "open" /\ attempt = s
    BY <1>2 DEF Answered, SInv
  <2>2. asked' = {} /\ \A x \in Sockets : readyState[x] # "dialing"
    BY <2>1 DEF SInv
  <2> QED
    BY <2>1, <2>2 DEF SInv, StopHolds
<1>3. CASE DialFails(s)
  BY <1>3, NoSocketIsNone DEF DialFails, Reject, SInv, StopHolds
<1>4. CASE AskFails(s)
  BY <1>4, NoSocketIsNone DEF AskFails, Reject, SInv, StopHolds
<1> QED
  BY <1>1, <1>2, <1>3, <1>4 DEF Attempt

LEMMA DropsKeeps ==
  ASSUME SInv, NEW s \in Sockets, Drops(s)
  PROVE  SInv'
BY DEF Drops, SInv, StopHolds, stateVars

LEMMA ClosesKeeps ==
  ASSUME SInv, NEW s \in Sockets, Closes(s)
  PROVE  SInv'
BY NoSocketIsNone DEF Closes, Reject, Rearms, SInv, StopHolds

LEMMA DisconnectKeeps ==
  ASSUME SInv, Disconnect
  PROVE  SInv'
<1> DEFINE cut == {s \in {currentSocket} \cup asked : s \in Sockets}
<1>1. /\ readyState' = [s \in Sockets |-> IF s \in cut THEN "closing" ELSE readyState[s]]
      /\ asked' = {} /\ currentSocket' = NoSocket /\ connected' = FALSE /\ timer' = FALSE
  BY DEF Disconnect
<1>2. \A s \in Sockets : readyState'[s] # "dialing"
  BY <1>1 DEF SInv
<1> QED
  BY <1>1, <1>2 DEF SInv, StopHolds

LEMMA RestartKeeps ==
  ASSUME SInv, Restart
  PROVE  SInv'
<1>1. /\ readyState' = [s \in Sockets |-> IF s \in UnusedSockets THEN "unused" ELSE "closed"]
      /\ asked' = {} /\ stopped' = FALSE
  BY DEF Restart
<1> QED
  BY <1>1 DEF SInv, StopHolds

LEMMA NextSInv == SInv /\ [SmsNext]_smsVars => SInv'
<1> SUFFICES ASSUME SInv, [SmsNext]_smsVars PROVE SInv'
  OBVIOUS
<1>1. CASE Connect
  BY <1>1, EnsureConnectedKeeps DEF Connect
<1>2. CASE ReconnectTimerFires
  BY <1>2, EnsureConnectedKeeps DEF ReconnectTimerFires
<1>3. ASSUME NEW c \in Sends, Send(c)
      PROVE  SInv'
  BY <1>3, EnsureConnectedKeeps DEF Send
<1>4. ASSUME NEW c \in Sends, SendEnds(c)
      PROVE  SInv'
  BY <1>4, MessagesKeep DEF SendEnds, socketVars
<1>5. ASSUME NEW s \in Sockets, Attempt(s)
      PROVE  SInv'
  BY <1>5, AttemptKeeps
<1>6. ASSUME NEW s \in Sockets, Drops(s)
      PROVE  SInv'
  BY <1>6, DropsKeeps
<1>7. ASSUME NEW s \in Sockets, Closes(s)
      PROVE  SInv'
  BY <1>7, ClosesKeeps
<1>8. ASSUME NEW s \in Sockets, Inbound(s)
      PROVE  SInv'
  BY <1>8, MessagesKeep
  DEF Inbound, PushArrives, StateArrives, HistoryArrives, HistoryFails, socketVars
<1>9. CASE Disconnect
  BY <1>9, DisconnectKeeps
<1>10. CASE Restart
  BY <1>10, RestartKeeps
<1>11. CASE PhoneReceives
  BY <1>11, MessagesKeep DEF PhoneReceives
<1>12. CASE UNCHANGED smsVars
  BY <1>12, MessagesKeep DEF smsVars, socketVars
<1> QED
  BY <1>1, <1>2, <1>3, <1>4, <1>5, <1>6, <1>7, <1>8, <1>9, <1>10, <1>11, <1>12 DEF SmsNext

\* After disconnect() no timer, no late answer and no late callback of any socket
\* connects the channel again or arms the reconnect timer, until connect() or a
\* send does.
THEOREM StoppedStaysStopped == SmsSpec => []StopHolds
<1>1. SInv => StopHolds
  BY DEF SInv
<1> QED
  BY <1>1, InitSInv, NextSInv, PTL DEF SmsSpec

-----------------------------------------------------------------------------
(* The SMS socket: types *)

\* What the types rest on: a socket is ready only after it was asked, and a request
\* for history is of a ready socket and goes back to what was seen then.
SmsFacts ==
  /\ \A s \in Sockets : readyState[s] \in {"unused", "dialing"} => s \notin asked \cup ready
  /\ \A s \in Sockets : since[s] # NoRequest => s \in ready /\ since[s] \in 0..lastSeen
  /\ \A s \in Sockets : link[s] \subseteq 1..phone
  /\ generation <= stops

SmsTInv == SmsTypeOK /\ SmsFacts

LEMMA ConstantTypes ==
  /\ LastMessage \in Nat /\ MaxSockets \in Nat /\ MaxStops \in Nat
  /\ NoRequest \in Int /\ NoRequest \notin Nat
BY SmsSocketAssumption DEF NoRequest

LEMMA MinUnused ==
  ASSUME UnusedSockets # {}
  PROVE  Min(UnusedSockets) \in UnusedSockets
<1>1. UnusedSockets \in SUBSET Nat
  BY ConstantTypes DEF UnusedSockets, Sockets
<1> QED
  BY <1>1, MinFacts

\* The calls go on to a step of their kind.
LEMMA GoTyped ==
  ASSUME pc \in [Sends -> {"new", "waiting", "sent", "over"}], NEW C,
         NEW step \in {"new", "waiting", "sent", "over"}
  PROVE  Go(C, step) \in [Sends -> {"new", "waiting", "sent", "over"}]
BY DEF Go

LEMMA EnsureTypes ==
  ASSUME SmsTInv, NEW w \in Sends \cup {"connect", "timer"}, EnsureConnected(w)
  PROVE  SmsTInv'
<1> USE DEF SmsTInv, SmsFacts
<1>0. UNCHANGED <<connected, generation, inbound, phone, stops, wasReady>>
  BY DEF EnsureConnected
<1>1. CASE AlreadyConnected(w)
  <2>1. pc' \in [Sends -> {"new", "waiting", "sent", "over"}]
    BY <1>1, GoTyped DEF AlreadyConnected, SmsTypeOK
  <2> QED
    BY <1>0, <1>1, <2>1 DEF AlreadyConnected, SmsTypeOK, socketVars, inbound
<1>2. CASE JoinAttempt(w)
  <2>1. pc' \in [Sends -> {"new", "waiting", "sent", "over"}]
    BY <1>2, GoTyped DEF JoinAttempt, SmsTypeOK
  <2> QED
    BY <1>0, <1>2, <2>1 DEF JoinAttempt, SmsTypeOK, socketVars, inbound
<1>3. CASE Dial(w)
  <2>1. pc' \in [Sends -> {"new", "waiting", "sent", "over"}]
    BY <1>3, GoTyped DEF Dial, SmsTypeOK
  <2> DEFINE s == Min(UnusedSockets)
  <2>2. s \in Sockets /\ readyState[s] = "unused"
    BY <1>3, MinUnused DEF Dial, UnusedSockets
  <2>3. /\ readyState' = [readyState EXCEPT ![s] = "dialing"]
        /\ gen' = [gen EXCEPT ![s] = generation]
        /\ currentSocket' = s
        /\ attempt' = s
        /\ waiting' = {w}
        /\ stopped' = FALSE
        /\ timer' = FALSE
        /\ taken' \in BOOLEAN
        /\ UNCHANGED <<asked, ready, since, link>>
    BY <1>3 DEF Dial, SmsTypeOK
  <2> HIDE DEF s
  <2> QED
    BY <1>0, <2>1, <2>2, <2>3 DEF SmsTypeOK, inbound
<1> QED
  BY <1>1, <1>2, <1>3 DEF EnsureConnected

\* A rejected attempt keeps its types.
LEMMA RejectTypes ==
  ASSUME SmsTypeOK, NEW s, NEW rearm \in BOOLEAN, Reject(s, rearm)
  PROVE  /\ attempt' \in Sockets \cup {NoSocket}
         /\ waiting' \subseteq Sends \cup {"connect", "timer"}
         /\ pc' \in [Sends -> {"new", "waiting", "sent", "over"}]
         /\ timer' \in BOOLEAN
<1>1. Go(waiting, "over") \in [Sends -> {"new", "waiting", "sent", "over"}]
  BY GoTyped DEF SmsTypeOK
<1> QED
  BY <1>1 DEF Reject, SmsTypeOK

LEMMA AttemptTypes ==
  ASSUME SmsTInv, NEW s \in Sockets, Attempt(s)
  PROVE  SmsTInv'
<1> USE DEF SmsTInv, SmsFacts
<1>1. CASE SocketOpens(s)
  BY <1>1 DEF SocketOpens, SmsTypeOK, stateVars, inbound
<1>2. CASE Answered(s)
  <2>1. pc' \in [Sends -> {"new", "waiting", "sent", "over"}]
    BY <1>2, GoTyped DEF Answered, SmsTypeOK
  <2>2. lastSeen \in Messages \cup {0} /\ lastSeen \in 0..lastSeen /\ lastSeen \in Nat
    BY ConstantTypes DEF SmsTypeOK, Messages
  <2> QED
    BY <1>2, <2>1, <2>2, ConstantTypes DEF Answered, SmsTypeOK, inbound
<1>3. CASE DialFails(s)
  BY <1>3, RejectTypes DEF DialFails, SmsTypeOK, inbound
<1>4. CASE AskFails(s)
  BY <1>4, RejectTypes DEF AskFails, SmsTypeOK, inbound
<1> QED
  BY <1>1, <1>2, <1>3, <1>4 DEF Attempt

LEMMA LossTypes ==
  ASSUME SmsTInv, NEW s \in Sockets, Drops(s) \/ Closes(s)
  PROVE  SmsTInv'
<1> USE DEF SmsTInv, SmsFacts
<1>1. CASE Drops(s)
  BY <1>1 DEF Drops, SmsTypeOK, stateVars, inbound
<1>2. CASE Closes(s)
  <2>1. /\ attempt' \in Sockets \cup {NoSocket}
        /\ waiting' \subseteq Sends \cup {"connect", "timer"}
        /\ pc' \in [Sends -> {"new", "waiting", "sent", "over"}]
        /\ timer' \in BOOLEAN
    <3>1. Rearms(s) \in BOOLEAN
      BY DEF Rearms
    <3>2. Reject(s, Rearms(s))
      BY <1>2 DEF Closes
    <3> QED
      BY <3>1, <3>2, RejectTypes
  <2>2. /\ readyState' = [readyState EXCEPT ![s] = "closed"]
        /\ asked' = asked \ {s}
        /\ since' = [since EXCEPT ![s] = NoRequest]
        /\ currentSocket' = IF currentSocket = s THEN NoSocket ELSE currentSocket
        /\ connected' = FALSE
        /\ UNCHANGED <<gen, ready, link, stopped, generation, inbound, phone, stops,
                       wasReady, taken>>
    BY <1>2 DEF Closes
  <2> QED
    BY <2>1, <2>2 DEF SmsTypeOK, inbound
<1> QED
  BY <1>1, <1>2

LEMMA StopTypes ==
  ASSUME SmsTInv, Disconnect \/ Restart
  PROVE  SmsTInv'
<1> USE DEF SmsTInv, SmsFacts
<1>0. /\ stops' \in 0..MaxStops /\ generation' \in 0..MaxStops /\ generation' <= stops'
      /\ UNCHANGED <<gen, ready, passedOn, again, early, caughtUp, phone, lastSeen>>
      /\ since' = [s \in Sockets |-> NoRequest]
  BY ConstantTypes DEF SmsTypeOK, Disconnect, Restart, inbound
<1>1. CASE Disconnect
  <2>1. pc' \in [Sends -> {"new", "waiting", "sent", "over"}]
    BY <1>1, GoTyped DEF Disconnect, SmsTypeOK
  <2> DEFINE cut == {s \in {currentSocket} \cup asked : s \in Sockets}
  <2>2. /\ readyState' = [s \in Sockets |-> IF s \in cut THEN "closing" ELSE readyState[s]]
        /\ link' = [s \in Sockets |-> IF s \in cut THEN {} ELSE link[s]]
        /\ asked' = {} /\ currentSocket' = NoSocket /\ connected' = FALSE
        /\ stopped' = TRUE /\ timer' = FALSE /\ wasReady' = FALSE /\ taken' = FALSE
        /\ seen' = seen
        /\ attempt' \in {NoSocket, attempt} /\ waiting' \subseteq waiting
    BY <1>1 DEF Disconnect, inbound
  <2>4. \A s \in Sockets : readyState'[s] \in {"unused", "dialing"} => readyState[s] = readyState'[s]
    BY <2>2
  <2> HIDE DEF cut
  <2>5. /\ readyState' \in [Sockets -> {"unused", "dialing", "open", "closing", "closed"}]
        /\ link' \in [Sockets -> SUBSET Messages]
        /\ \A s \in Sockets : link'[s] \subseteq 1..phone
    BY <2>2 DEF SmsTypeOK
  <2> QED
    BY <1>0, <2>1, <2>2, <2>4, <2>5 DEF SmsTypeOK
<1>2. CASE Restart
  <2>1. pc' \in [Sends -> {"new", "waiting", "sent", "over"}]
    BY <1>2, GoTyped DEF Restart, SmsTypeOK
  <2> QED
    BY <1>0, <1>2, <2>1, ZenonT(30) DEF Restart, SmsTypeOK, UnusedSockets
<1> QED
  BY <1>1, <1>2

\* The messages that are handled have been received by the phone.
LEMMA HandleTypes ==
  ASSUME SmsTypeOK, NEW M \in SUBSET (1..phone), Handle(M)
  PROVE  /\ lastSeen' \in lastSeen..phone
         /\ \A m \in M : m <= lastSeen'
         /\ lastSeen' \in M \cup {lastSeen}
         /\ seen' = seen \cup M
         /\ passedOn' = passedOn \cup Fresh(M)
         /\ again' = again \cup (Fresh(M) \cap passedOn)
<1>1. phone \in Nat /\ lastSeen \in 0..phone
  BY ConstantTypes DEF SmsTypeOK
<1>2. M \cup {lastSeen} \in SUBSET (0..phone)
  BY <1>1
<1>3. /\ Max(M \cup {lastSeen}) \in M \cup {lastSeen}
      /\ \A m \in M \cup {lastSeen} : m <= Max(M \cup {lastSeen})
  BY <1>1, <1>2, MaxFacts
<1>4. lastSeen' = Max(M \cup {lastSeen})
  BY DEF Handle
<1>5. lastSeen' \in 0..phone /\ lastSeen <= lastSeen' /\ \A m \in M : m <= lastSeen'
  BY <1>2, <1>3, <1>4
<1> QED
  BY <1>1, <1>3, <1>4, <1>5 DEF Handle

\* The oldest message on a link was received, and so was all of a history.
LEMMA PushedIsReceived ==
  ASSUME SmsTInv, NEW s \in Sockets, link[s] # {}
  PROVE  /\ Min(link[s]) \in link[s] /\ \A m \in link[s] : Min(link[s]) <= m
         /\ {Min(link[s])} \in SUBSET (1..phone)
<1>1. link[s] \subseteq 1..phone
  BY DEF SmsTInv, SmsFacts
<1>2. link[s] \in SUBSET Nat
  BY <1>1
<1>3. Min(link[s]) \in link[s] /\ \A m \in link[s] : Min(link[s]) <= m
  BY <1>2, MinFacts
<1> QED
  BY <1>1, <1>3

LEMMA HistoryIsReceived ==
  ASSUME NEW s
  PROVE  HistoryFrom(s) \in SUBSET (1..phone)
BY DEF HistoryFrom

LEMMA InboundTypes ==
  ASSUME SmsTInv, NEW s \in Sockets, Inbound(s)
  PROVE  SmsTInv'
<1>1. CASE PushArrives(s)
  <2> DEFINE m == Min(link[s])
  <2>1. m \in link[s] /\ {m} \in SUBSET (1..phone)
    BY <1>1, PushedIsReceived DEF PushArrives
  <2>2. /\ lastSeen' \in lastSeen..phone
        /\ seen' = seen \cup {m}
        /\ passedOn' = passedOn \cup Fresh({m})
        /\ again' = again \cup (Fresh({m}) \cap passedOn)
    BY <1>1, <2>1, HandleTypes DEF PushArrives, SmsTInv
  <2>3. /\ link' = [link EXCEPT ![s] = @ \ {m}]
        /\ early' = (early \/ s \notin caughtUp)
        /\ UNCHANGED <<readyState, gen, asked, ready, since, stateVars, pc, caughtUp, phone,
                       stops, wasReady, taken>>
    BY <1>1 DEF PushArrives
  <2> HIDE DEF m
  <2>4. phone \in Nat /\ lastSeen \in Nat
    BY ConstantTypes DEF SmsTInv, SmsTypeOK
  <2>a. link' \in [Sockets -> SUBSET Messages]
    BY <2>3 DEF SmsTInv, SmsTypeOK
  <2>b. early' \in BOOLEAN
    BY <2>3 DEF SmsTInv, SmsTypeOK
  <2>c. /\ lastSeen' \in 0..phone /\ seen' \subseteq passedOn'
        /\ passedOn' \subseteq 1..phone /\ again' \subseteq passedOn'
    <3>1. lastSeen' \in 0..phone
      BY <2>2, <2>4
    <3>2. seen \subseteq passedOn /\ passedOn \subseteq 1..phone /\ again \subseteq passedOn
      BY DEF SmsTInv, SmsTypeOK
    <3> QED
      BY <2>1, <2>2, <3>1, <3>2, Zenon DEF Fresh
  <2>5. SmsTypeOK'
    BY <2>3, <2>a, <2>b, <2>c DEF SmsTInv, SmsTypeOK, stateVars
  <2>6. SmsFacts'
    BY <2>2, <2>3, <2>4 DEF SmsTInv, SmsTypeOK, SmsFacts, stateVars
  <2> QED
    BY <2>5, <2>6 DEF SmsTInv
<1>2. CASE StateArrives(s)
  <2>1. phone \in Nat /\ lastSeen \in Nat
    BY ConstantTypes DEF SmsTInv, SmsTypeOK
  <2> QED
    BY <1>2, <2>1 DEF StateArrives, SmsTInv, SmsTypeOK, SmsFacts, stateVars, socketVars
<1>3. CASE HistoryArrives(s)
  <2> DEFINE M == HistoryFrom(s)
  <2>1. M \in SUBSET (1..phone)
    BY HistoryIsReceived
  <2>2. /\ lastSeen' \in lastSeen..phone
        /\ seen' = seen \cup M
        /\ passedOn' = passedOn \cup Fresh(M)
        /\ again' = again \cup (Fresh(M) \cap passedOn)
    BY <1>3, <2>1, HandleTypes DEF HistoryArrives, SmsTInv
  <2>3. /\ since' = [since EXCEPT ![s] = NoRequest]
        /\ caughtUp' = caughtUp \cup {s} /\ s \in ready
        /\ UNCHANGED <<readyState, gen, asked, ready, link, stateVars, pc, early, phone,
                       stops, wasReady, taken>>
    BY <1>3 DEF HistoryArrives, SmsTInv, SmsFacts
  <2> HIDE DEF M
  <2>4. phone \in Nat /\ lastSeen \in Nat
    BY ConstantTypes DEF SmsTInv, SmsTypeOK
  <2>5. SmsTypeOK'
    BY <2>1, <2>2, <2>3, <2>4 DEF SmsTInv, SmsTypeOK, stateVars, Fresh
  <2>6. SmsFacts'
    BY <2>2, <2>3, <2>4 DEF SmsTInv, SmsTypeOK, SmsFacts, stateVars
  <2> QED
    BY <2>5, <2>6 DEF SmsTInv
<1>4. CASE HistoryFails(s)
  BY <1>4 DEF HistoryFails, SmsTInv, SmsTypeOK, SmsFacts, stateVars, inbound
<1> QED
  BY <1>1, <1>2, <1>3, <1>4 DEF Inbound

LEMMA PhoneTypes ==
  ASSUME SmsTInv, PhoneReceives
  PROVE  SmsTInv'
<1>1. phone \in Nat /\ LastMessage \in Nat /\ phone < LastMessage /\ phone' = phone + 1
  BY ConstantTypes DEF SmsTInv, SmsTypeOK, PhoneReceives
<1>2. phone + 1 \in Messages /\ phone + 1 \in 0..LastMessage /\ 1..phone \subseteq 1..(phone + 1)
  BY <1>1 DEF Messages
<1>3. /\ link' = [s \in Sockets |-> IF readyState[s] = "open" THEN link[s] \cup {phone + 1}
                                    ELSE link[s]]
      /\ UNCHANGED <<readyState, gen, asked, ready, since, stateVars, pc, inbound, stops,
                     wasReady, taken>>
  BY DEF PhoneReceives
<1>4. SmsTypeOK'
  BY <1>1, <1>2, <1>3 DEF SmsTInv, SmsTypeOK, inbound, stateVars
<1>5. \A s \in Sockets : link'[s] \subseteq 1..phone'
  BY <1>1, <1>2, <1>3 DEF SmsTInv, SmsFacts
<1> QED
  BY <1>3, <1>4, <1>5 DEF SmsTInv, SmsFacts, inbound, stateVars

LEMMA SendEndsTypes ==
  ASSUME SmsTInv, NEW c \in Sends, SendEnds(c)
  PROVE  SmsTInv'
<1>1. pc' \in [Sends -> {"new", "waiting", "sent", "over"}]
  BY GoTyped DEF SendEnds, SmsTInv, SmsTypeOK
<1> QED
  BY <1>1 DEF SendEnds, SmsTInv, SmsTypeOK, SmsFacts, socketVars, stateVars, inbound

LEMMA InitTypes == SmsInit => SmsTInv
<1> SUFFICES ASSUME SmsInit PROVE SmsTInv
  OBVIOUS
<1>1. /\ 0 \in 0..LastMessage /\ 0 \in 0..MaxStops /\ 0 \in 0..0
      /\ NoRequest \in Messages \cup {0, NoRequest}
  BY ConstantTypes
<1>2. /\ readyState \in [Sockets -> {"unused", "dialing", "open", "closing", "closed"}]
      /\ gen \in [Sockets -> 0..MaxStops]
      /\ since \in [Sockets -> Messages \cup {0, NoRequest}]
      /\ link \in [Sockets -> SUBSET Messages]
      /\ pc \in [Sends -> {"new", "waiting", "sent", "over"}]
  BY <1>1 DEF SmsInit
<1>3. SmsTypeOK
  BY <1>1, <1>2 DEF SmsInit, SmsTypeOK
<1> QED
  BY <1>3 DEF SmsInit, SmsTInv, SmsFacts

LEMMA NextTypes == SmsTInv /\ [SmsNext]_smsVars => SmsTInv'
<1> SUFFICES ASSUME SmsTInv, [SmsNext]_smsVars PROVE SmsTInv'
  OBVIOUS
<1>1. CASE Connect \/ ReconnectTimerFires
  BY <1>1, EnsureTypes DEF Connect, ReconnectTimerFires
<1>2. ASSUME NEW c \in Sends, Send(c)
      PROVE  SmsTInv'
  BY <1>2, EnsureTypes DEF Send
<1>3. ASSUME NEW c \in Sends, SendEnds(c)
      PROVE  SmsTInv'
  BY <1>3, SendEndsTypes
<1>4. ASSUME NEW s \in Sockets, Attempt(s) \/ Drops(s) \/ Closes(s) \/ Inbound(s)
      PROVE  SmsTInv'
  BY <1>4, AttemptTypes, LossTypes, InboundTypes
<1>5. CASE Disconnect \/ Restart
  BY <1>5, StopTypes
<1>6. CASE PhoneReceives
  BY <1>6, PhoneTypes
<1>7. CASE UNCHANGED smsVars
  BY <1>7 DEF smsVars, socketVars, stateVars, inbound, SmsTInv, SmsTypeOK, SmsFacts
<1> QED
  BY <1>1, <1>2, <1>3, <1>4, <1>5, <1>6, <1>7 DEF SmsNext

\* The variables of the SMS channel keep their types: what was passed on was received,
\* a socket is never both asked and ready, and lastSeenTimestamp is not ahead.
THEOREM SmsTypesHold == SmsSpec => []SmsTypeOK
<1>1. SmsTInv => SmsTypeOK
  BY DEF SmsTInv
<1> QED
  BY <1>1, InitTypes, NextTypes, PTL DEF SmsSpec

-----------------------------------------------------------------------------
(* The SMS socket: every message once, none passed over, and reconnecting *)

\* A message that was passed on and that this process does not remember, because it
\* was restarted since, is never offered again: no link holds it and every
\* history begins after it.
DeliveryInv ==
  /\ passedOn \subseteq 1..lastSeen
  /\ \A m \in passedOn \ seen, s \in Sockets :
       m \notin link[s] /\ (since[s] # NoRequest => m <= since[s])
  /\ DeliveredOnce

\* As long as the history came first on every connection, nothing below
\* lastSeenTimestamp is missing, and a connection that has its history carries all
\* that is missing above it.
GapInv ==
  ~early => /\ 1..lastSeen \subseteq passedOn
            /\ \A s \in caughtUp : readyState[s] = "open" => 1..phone \subseteq passedOn \cup link[s]

MsgInv == DeliveryInv /\ GapInv

\* The steps in which no message arrives may lose what is on the links, give up
\* histories and close sockets.
LEMMA QuietSteps ==
  ASSUME SmsTInv, SmsTInv', MsgInv,
         UNCHANGED <<lastSeen, passedOn, again, early, caughtUp, phone, seen>>,
         \A s \in Sockets : /\ link'[s] \subseteq link[s]
                            /\ since'[s] \in {NoRequest, since[s]}
                            /\ readyState'[s] = "open" /\ s \in caughtUp
                                 => readyState[s] = "open" /\ link'[s] = link[s]
  PROVE  MsgInv'
<1>1. DeliveryInv'
  BY DEF MsgInv, DeliveryInv, DeliveredOnce
<1>2. GapInv'
  <2>1. caughtUp \subseteq Sockets
    BY DEF SmsTInv, SmsTypeOK
  <2> QED
    BY <2>1 DEF MsgInv, GapInv
<1> QED
  BY <1>1, <1>2 DEF MsgInv

LEMMA EnsureQuiet ==
  ASSUME SmsTInv, SmsTInv', MsgInv, NEW w, EnsureConnected(w)
  PROVE  MsgInv'
<1>0. UNCHANGED <<lastSeen, passedOn, again, early, caughtUp, phone, seen>>
  BY DEF EnsureConnected, inbound
<1>1. CASE AlreadyConnected(w) \/ JoinAttempt(w)
  <2>1. UNCHANGED <<link, since, readyState>>
    BY <1>1 DEF AlreadyConnected, JoinAttempt, socketVars
  <2> QED
    BY <1>0, <2>1, QuietSteps
<1>2. CASE Dial(w)
  <2>1. PICK s : readyState' = [readyState EXCEPT ![s] = "dialing"] /\ UNCHANGED <<link, since>>
    BY <1>2 DEF Dial
  <2>2. \A x \in Sockets : readyState'[x] = "open" => readyState[x] = "open"
    BY <2>1 DEF SmsTInv, SmsTypeOK
  <2> QED
    BY <1>0, <2>1, <2>2, QuietSteps
<1> QED
  BY <1>1, <1>2 DEF EnsureConnected

LEMMA AttemptQuiet ==
  ASSUME SmsTInv, SmsTInv', MsgInv, NEW s \in Sockets, Attempt(s)
  PROVE  MsgInv'
<1>0. UNCHANGED <<lastSeen, passedOn, again, early, caughtUp, phone, seen>>
  BY DEF Attempt, SocketOpens, Answered, DialFails, AskFails, inbound
<1>1. CASE SocketOpens(s)
  <2>1. s \notin caughtUp
    BY <1>1 DEF SocketOpens, SmsTInv, SmsTypeOK, SmsFacts
  <2>2. readyState' = [readyState EXCEPT ![s] = "open"] /\ UNCHANGED <<link, since>>
    BY <1>1 DEF SocketOpens
  <2>3. \A x \in Sockets : readyState'[x] = "open" /\ x \in caughtUp => readyState[x] = "open"
    BY <2>1, <2>2 DEF SmsTInv, SmsTypeOK
  <2> QED
    BY <1>0, <2>2, <2>3, QuietSteps
<1>2. CASE Answered(s)
  <2>1. since' = [since EXCEPT ![s] = lastSeen] /\ UNCHANGED <<link, readyState>>
    BY <1>2 DEF Answered
  <2>2. passedOn \subseteq 1..lastSeen /\ since \in [Sockets -> Messages \cup {0, NoRequest}]
    BY DEF MsgInv, DeliveryInv, SmsTInv, SmsTypeOK
  <2>3. DeliveryInv'
    BY <1>0, <2>1, <2>2 DEF MsgInv, DeliveryInv, DeliveredOnce
  <2>4. GapInv'
    BY <1>0, <2>1 DEF MsgInv, GapInv
  <2> QED
    BY <2>3, <2>4 DEF MsgInv
<1>3. CASE DialFails(s)
  <2>1. readyState' = [readyState EXCEPT ![s] = "closing"] /\ UNCHANGED <<link, since>>
    BY <1>3 DEF DialFails
  <2>2. \A x \in Sockets : readyState'[x] = "open" => readyState[x] = "open"
    BY <2>1 DEF SmsTInv, SmsTypeOK
  <2> QED
    BY <1>0, <2>1, <2>2, QuietSteps
<1>4. CASE AskFails(s)
  <2>1. /\ readyState' = [readyState EXCEPT ![s] = "closing"]
        /\ link' = [link EXCEPT ![s] = {}] /\ since' = since
    BY <1>4 DEF AskFails
  <2>2. \A x \in Sockets : /\ readyState'[x] = "open" => readyState[x] = "open" /\ link'[x] = link[x]
                           /\ link'[x] \subseteq link[x]
    BY <2>1 DEF SmsTInv, SmsTypeOK
  <2> QED
    BY <1>0, <2>1, <2>2, QuietSteps
<1> QED
  BY <1>1, <1>2, <1>3, <1>4 DEF Attempt

LEMMA LossQuiet ==
  ASSUME SmsTInv, SmsTInv', MsgInv, NEW s \in Sockets, Drops(s) \/ Closes(s)
  PROVE  MsgInv'
<1>0. UNCHANGED <<lastSeen, passedOn, again, early, caughtUp, phone, seen>>
  BY DEF Drops, Closes, inbound
<1>1. /\ readyState' \in {[readyState EXCEPT ![s] = "closing"], [readyState EXCEPT ![s] = "closed"]}
      /\ link' \in {link, [link EXCEPT ![s] = {}]}
      /\ since' \in {since, [since EXCEPT ![s] = NoRequest]}
  BY DEF Drops, Closes
<1>2. /\ readyState \in [Sockets -> {"unused", "dialing", "open", "closing", "closed"}]
      /\ since \in [Sockets -> Messages \cup {0, NoRequest}]
      /\ link \in [Sockets -> SUBSET Messages]
  BY DEF SmsTInv, SmsTypeOK
<1>3. \A x \in Sockets : /\ readyState'[x] = "open" => readyState[x] = "open" /\ link'[x] = link[x]
                         /\ link'[x] \subseteq link[x]
                         /\ since'[x] \in {NoRequest, since[x]}
  BY <1>1, <1>2
<1> QED
  BY <1>0, <1>3, QuietSteps

LEMMA DisconnectQuiet ==
  ASSUME SmsTInv, SmsTInv', MsgInv, Disconnect
  PROVE  MsgInv'
<1> DEFINE cut == {s \in {currentSocket} \cup asked : s \in Sockets}
<1>1. /\ readyState' = [s \in Sockets |-> IF s \in cut THEN "closing" ELSE readyState[s]]
      /\ link' = [s \in Sockets |-> IF s \in cut THEN {} ELSE link[s]]
      /\ since' = [s \in Sockets |-> NoRequest]
      /\ UNCHANGED <<lastSeen, passedOn, again, early, caughtUp, phone, seen>>
  BY DEF Disconnect, inbound
<1> HIDE DEF cut
<1>2. \A x \in Sockets : /\ readyState'[x] = "open" => readyState[x] = "open" /\ link'[x] = link[x]
                         /\ link'[x] \subseteq link[x]
                         /\ since'[x] \in {NoRequest, since[x]}
  BY <1>1
<1> QED
  BY <1>1, <1>2, QuietSteps

\* A restart forgets what was seen; but it ends every connection and request.
LEMMA RestartDelivery ==
  ASSUME SmsTInv, SmsTInv', MsgInv, Restart
  PROVE  MsgInv'
<1>1. /\ link' = [s \in Sockets |-> {}]
      /\ since' = [s \in Sockets |-> NoRequest]
      /\ readyState' = [s \in Sockets |-> IF s \in UnusedSockets THEN "unused" ELSE "closed"]
      /\ UNCHANGED <<lastSeen, passedOn, again, early, caughtUp>>
  BY DEF Restart
<1>2. DeliveryInv'
  BY <1>1 DEF MsgInv, DeliveryInv, DeliveredOnce
<1>3. GapInv'
  <2>1. \A s \in caughtUp' : readyState'[s] # "open"
    BY <1>1 DEF SmsTInv, SmsTypeOK
  <2> QED
    BY <1>1, <2>1 DEF MsgInv, GapInv
<1> QED
  BY <1>2, <1>3 DEF MsgInv

\* A new message was not passed on yet.
LEMMA PhoneDelivery ==
  ASSUME SmsTInv, SmsTInv', MsgInv, PhoneReceives
  PROVE  MsgInv'
<1>1. phone \in Nat /\ phone' = phone + 1 /\ lastSeen \in 0..phone /\ passedOn \subseteq 1..phone
  BY ConstantTypes DEF PhoneReceives, SmsTInv, SmsTypeOK
<1>2. /\ link' = [s \in Sockets |-> IF readyState[s] = "open" THEN link[s] \cup {phone + 1}
                                    ELSE link[s]]
      /\ UNCHANGED <<since, readyState, lastSeen, passedOn, again, early, caughtUp, seen>>
  BY DEF PhoneReceives, inbound
<1>3. phone + 1 \notin passedOn
  BY <1>1
<1>4. DeliveryInv'
  BY <1>2, <1>3 DEF MsgInv, DeliveryInv, DeliveredOnce
<1>5. GapInv'
  <2> SUFFICES ASSUME ~early PROVE /\ 1..lastSeen \subseteq passedOn
                                   /\ \A s \in caughtUp : readyState[s] = "open"
                                        => 1..phone' \subseteq passedOn \cup link'[s]
    BY <1>2 DEF GapInv
  <2>1. 1..phone' \subseteq (1..phone) \cup {phone + 1}
    BY <1>1
  <2>2. caughtUp \subseteq Sockets
    BY DEF SmsTInv, SmsTypeOK
  <2> QED
    BY <1>2, <2>1, <2>2 DEF MsgInv, GapInv
<1> QED
  BY <1>4, <1>5 DEF MsgInv

\* A pushed message: if it was passed on before, it is remembered; and as the
\* oldest on its link, it leaves nothing behind below it.
LEMMA PushDelivery ==
  ASSUME SmsTInv, SmsTInv', MsgInv, NEW s \in Sockets, PushArrives(s)
  PROVE  MsgInv'
<1> DEFINE m == Min(link[s])
<1>1. m \in link[s] /\ (\A k \in link[s] : m <= k) /\ {m} \in SUBSET (1..phone)
  BY PushedIsReceived DEF PushArrives
<1>2. /\ lastSeen' \in lastSeen..phone
      /\ m <= lastSeen' /\ lastSeen' \in {m, lastSeen}
      /\ seen' = seen \cup {m}
      /\ passedOn' = passedOn \cup ({m} \ seen)
      /\ again' = again \cup (({m} \ seen) \cap passedOn)
  BY <1>1, HandleTypes DEF PushArrives, SmsTInv, Fresh
<1>3. /\ link' = [link EXCEPT ![s] = @ \ {m}]
      /\ early' = (early \/ s \notin caughtUp) /\ readyState[s] = "open"
      /\ UNCHANGED <<readyState, since, caughtUp, phone>>
  BY DEF PushArrives
<1>4. /\ phone \in Nat /\ lastSeen \in Nat /\ m \in Nat /\ m >= 1
      /\ seen \subseteq passedOn /\ passedOn \subseteq 1..phone /\ passedOn \subseteq 1..lastSeen
      /\ link \in [Sockets -> SUBSET Messages] /\ caughtUp \subseteq Sockets
  BY <1>1, ConstantTypes DEF SmsTInv, SmsTypeOK, MsgInv, DeliveryInv
<1> HIDE DEF m
<1>5. passedOn' = passedOn \cup {m}
  BY <1>2, <1>4
<1>6. DeliveryInv'
  <2>1. again' = {}
    BY <1>1, <1>2 DEF MsgInv, DeliveryInv, DeliveredOnce
  <2>2. passedOn' \subseteq 1..lastSeen'
    BY <1>2, <1>4, <1>5
  <2>3. passedOn' \ seen' \subseteq passedOn \ seen
    BY <1>2, <1>5
  <2>4. \A x \in Sockets : link'[x] \subseteq link[x]
    BY <1>3, <1>4
  <2> QED
    BY <1>3, <2>1, <2>2, <2>3, <2>4 DEF MsgInv, DeliveryInv, DeliveredOnce
<1>7. GapInv'
  <2> SUFFICES ASSUME ~early'
               PROVE  /\ 1..lastSeen' \subseteq passedOn'
                      /\ \A x \in caughtUp : readyState[x] = "open"
                           => 1..phone \subseteq passedOn' \cup link'[x]
    BY <1>3 DEF GapInv
  <2>1. ~early /\ s \in caughtUp
    BY <1>3 DEF SmsTInv, SmsTypeOK
  <2>2. /\ 1..lastSeen \subseteq passedOn
        /\ \A x \in caughtUp : readyState[x] = "open" => 1..phone \subseteq passedOn \cup link[x]
    BY <2>1 DEF MsgInv, GapInv
  <2>3. 1..m \subseteq passedOn'
    <3>1. 1..phone \subseteq passedOn \cup link[s]
      BY <1>3, <2>1, <2>2
    <3>2. ASSUME NEW k \in 1..m PROVE k \in passedOn'
      <4>1. k \in 1..phone /\ k <= m /\ k \in Nat
        BY <1>1, <1>4, <3>2
      <4>2. k \in passedOn \/ m <= k
        BY <1>1, <3>1, <4>1
      <4> QED
        BY <1>4, <1>5, <4>1, <4>2
    <3> QED
      BY <3>2
  <2>4. 1..lastSeen' \subseteq passedOn'
    BY <1>2, <1>5, <2>2, <2>3
  <2>5. \A x \in caughtUp : link[x] \subseteq link'[x] \cup {m}
    BY <1>3, <1>4
  <2> QED
    BY <1>5, <2>2, <2>4, <2>5
<1> QED
  BY <1>6, <1>7 DEF MsgInv

\* A gateway.state event advances the time; nothing older is missing, because the
\* link is empty.
LEMMA StateDelivery ==
  ASSUME SmsTInv, SmsTInv', MsgInv, NEW s \in Sockets, StateArrives(s)
  PROVE  MsgInv'
<1>1. /\ lastSeen' = phone /\ lastSeen < phone /\ link[s] = {} /\ readyState[s] = "open"
      /\ early' = (early \/ s \notin caughtUp)
      /\ UNCHANGED <<readyState, since, link, seen, passedOn, again, caughtUp, phone>>
  BY DEF StateArrives, socketVars
<1>2. passedOn \subseteq 1..phone /\ early \in BOOLEAN
  BY DEF SmsTInv, SmsTypeOK
<1>3. DeliveryInv'
  BY <1>1, <1>2 DEF MsgInv, DeliveryInv, DeliveredOnce
<1>4. GapInv'
  BY <1>1, <1>2 DEF MsgInv, GapInv
<1> QED
  BY <1>3, <1>4 DEF MsgInv

\* A history holds what the request asked for: nothing that was passed on and
\* forgotten, and everything that is missing.
LEMMA HistoryDelivery ==
  ASSUME SmsTInv, SmsTInv', MsgInv, NEW s \in Sockets, HistoryArrives(s)
  PROVE  MsgInv'
<1> DEFINE M == HistoryFrom(s)
<1>1. /\ M \in SUBSET (1..phone) /\ \A m \in M : m > since[s]
      /\ \A m \in 1..phone : m > since[s] => m \in M
  BY DEF HistoryFrom
<1>2. /\ lastSeen' \in lastSeen..phone
      /\ \A m \in M : m <= lastSeen'
      /\ seen' = seen \cup M
      /\ passedOn' = passedOn \cup (M \ seen)
      /\ again' = again \cup ((M \ seen) \cap passedOn)
  BY <1>1, HandleTypes DEF HistoryArrives, SmsTInv, Fresh
<1>3. /\ since' = [since EXCEPT ![s] = NoRequest] /\ since[s] # NoRequest
      /\ caughtUp' = caughtUp \cup {s}
      /\ UNCHANGED <<readyState, link, early, phone>>
  BY DEF HistoryArrives
<1>4. /\ phone \in Nat /\ lastSeen \in Nat /\ since[s] \in 0..lastSeen
      /\ seen \subseteq passedOn /\ passedOn \subseteq 1..lastSeen
      /\ since \in [Sockets -> Messages \cup {0, NoRequest}] /\ caughtUp \subseteq Sockets
  BY <1>3, ConstantTypes DEF SmsTInv, SmsTypeOK, SmsFacts, MsgInv, DeliveryInv
<1> HIDE DEF M
<1>5. passedOn' = passedOn \cup M
  BY <1>2, <1>4
<1>6. DeliveryInv'
  <2>1. again' = {}
    <3>1. ASSUME NEW m \in M, m \notin seen, m \in passedOn PROVE FALSE
      <4>1. m <= since[s]
        BY <1>3, <3>1 DEF MsgInv, DeliveryInv
      <4> QED
        BY <1>1, <1>4, <3>1, <4>1
    <3> QED
      BY <1>2, <3>1 DEF MsgInv, DeliveryInv, DeliveredOnce
  <2>2. passedOn' \subseteq 1..lastSeen'
    <3>1. \A m \in M : m \in 1..lastSeen'
      BY <1>1, <1>2, <1>4
    <3>2. 1..lastSeen \subseteq 1..lastSeen'
      BY <1>2, <1>4
    <3> QED
      BY <1>4, <1>5, <3>1, <3>2
  <2>3. passedOn' \ seen' \subseteq passedOn \ seen
    BY <1>2, <1>5
  <2>4. \A x \in Sockets : since'[x] \in {since[x], NoRequest}
    BY <1>3, <1>4
  <2> QED
    BY <1>3, <2>1, <2>2, <2>3, <2>4 DEF MsgInv, DeliveryInv, DeliveredOnce
<1>7. GapInv'
  <2> SUFFICES ASSUME ~early
               PROVE  /\ 1..lastSeen' \subseteq passedOn'
                      /\ \A x \in caughtUp' : readyState[x] = "open"
                           => 1..phone \subseteq passedOn' \cup link[x]
    BY <1>3 DEF GapInv
  <2>1. 1..lastSeen \subseteq passedOn
    BY DEF MsgInv, GapInv
  <2>2. 1..phone \subseteq passedOn'
    <3>1. ASSUME NEW k \in 1..phone PROVE k \in passedOn \/ k \in M
      <4>1. k \in 1..lastSeen \/ k > since[s]
        BY <1>4, <3>1
      <4> QED
        BY <1>1, <2>1, <4>1
    <3> QED
      BY <1>5, <3>1
  <2>3. 1..lastSeen' \subseteq 1..phone
    BY <1>2, <1>4
  <2> QED
    BY <2>2, <2>3
<1> QED
  BY <1>6, <1>7 DEF MsgInv

LEMMA InitMsg == SmsInit => MsgInv
BY DEF SmsInit, MsgInv, DeliveryInv, DeliveredOnce, GapInv

LEMMA NextMsg == SmsTInv /\ SmsTInv' /\ MsgInv /\ [SmsNext]_smsVars => MsgInv'
<1> SUFFICES ASSUME SmsTInv, SmsTInv', MsgInv, [SmsNext]_smsVars PROVE MsgInv'
  OBVIOUS
<1>1. CASE Connect \/ ReconnectTimerFires
  BY <1>1, EnsureQuiet DEF Connect, ReconnectTimerFires
<1>2. ASSUME NEW c \in Sends, Send(c)
      PROVE  MsgInv'
  BY <1>2, EnsureQuiet DEF Send
<1>3. ASSUME NEW c \in Sends, SendEnds(c)
      PROVE  MsgInv'
  BY <1>3, QuietSteps DEF SendEnds, socketVars, inbound
<1>4. ASSUME NEW s \in Sockets, Attempt(s) \/ Drops(s) \/ Closes(s)
      PROVE  MsgInv'
  BY <1>4, AttemptQuiet, LossQuiet
<1>5. ASSUME NEW s \in Sockets, Inbound(s)
      PROVE  MsgInv'
  <2>1. CASE HistoryFails(s)
    <3>1. since' = [since EXCEPT ![s] = NoRequest]
      BY <2>1 DEF HistoryFails
    <3>2. \A x \in Sockets : since'[x] \in {since[x], NoRequest}
      BY <3>1 DEF SmsTInv, SmsTypeOK
    <3> QED
      BY <2>1, <3>2, QuietSteps DEF HistoryFails, inbound
  <2> QED
    BY <1>5, <2>1, PushDelivery, StateDelivery, HistoryDelivery DEF Inbound
<1>6. CASE Disconnect
  BY <1>6, DisconnectQuiet
<1>7. CASE Restart
  BY <1>7, RestartDelivery
<1>8. CASE PhoneReceives
  BY <1>8, PhoneDelivery
<1>9. CASE UNCHANGED smsVars
  BY <1>9, QuietSteps DEF smsVars, socketVars, inbound
<1> QED
  BY <1>1, <1>2, <1>3, <1>4, <1>5, <1>6, <1>7, <1>8, <1>9 DEF SmsNext

\* A connection that is in use, or whose onclose is still to come, in this generation.
Live == \E s \in ready : gen[s] = generation /\ readyState[s] \in {"open", "closing"}

\* Only what onclose and the timer's own attempt arm keeps a connection coming back:
\* an attempt that sends alone wait for does not.
TimerAttempt == attempt # NoSocket /\ "timer" \in waiting
ComesBack == timer \/ TimerAttempt \/ Live

ReconnectInv ==
  /\ \A s \in Sockets : readyState[s] = "dialing" \/ s \in asked => gen[s] = generation
  /\ stopped => ~wasReady
  /\ connected => Live
  /\ wasReady /\ ~stopped /\ ~taken => ComesBack

SmsBase == SmsTInv /\ SInv

LEMMA EnsureReconnects ==
  ASSUME SmsBase, ReconnectInv, NEW w \in Sends \cup {"connect", "timer"}, EnsureConnected(w),
         w = "connect" => ~wasReady
  PROVE  ReconnectInv'
<1>0. UNCHANGED <<connected, generation, wasReady>>
  BY DEF EnsureConnected
<1>1. CASE AlreadyConnected(w)
  <2>1. /\ connected /\ stopped' = (stopped /\ w # "connect")
        /\ UNCHANGED <<readyState, gen, asked, ready, taken>>
    BY <1>1 DEF AlreadyConnected, socketVars
  <2>2. Live /\ Live'
    BY <1>0, <2>1 DEF ReconnectInv, Live
  <2> QED
    BY <1>0, <2>1, <2>2 DEF ReconnectInv, ComesBack
<1>2. CASE JoinAttempt(w)
  <2>1. /\ attempt # NoSocket /\ waiting' = waiting \cup {w} /\ attempt' = attempt
        /\ stopped' = (stopped /\ w # "connect") /\ timer' = (timer /\ w # "timer")
        /\ UNCHANGED <<readyState, gen, asked, ready, taken>>
    BY <1>2 DEF JoinAttempt, socketVars
  <2>2. Live' <=> Live
    BY <1>0, <2>1 DEF Live
  <2>3. ComesBack => ComesBack'
    BY <2>1, <2>2 DEF ComesBack, TimerAttempt
  <2> QED
    BY <1>0, <2>1, <2>2, <2>3 DEF ReconnectInv
<1>3. CASE Dial(w)
  <2> DEFINE s == Min(UnusedSockets)
  <2>1. s \in Sockets /\ readyState[s] = "unused"
    BY <1>3, MinUnused DEF Dial, UnusedSockets
  <2>2. /\ readyState' = [readyState EXCEPT ![s] = "dialing"]
        /\ gen' = [gen EXCEPT ![s] = generation]
        /\ attempt = NoSocket /\ attempt' = s /\ waiting' = {w} /\ stopped' = FALSE
        /\ taken' = (taken \/ (timer /\ w # "timer")) /\ timer' = FALSE
        /\ UNCHANGED <<asked, ready>>
    BY <1>3 DEF Dial
  <2> HIDE DEF s
  <2>3. /\ readyState \in [Sockets -> {"unused", "dialing", "open", "closing", "closed"}]
        /\ gen \in [Sockets -> 0..MaxStops] /\ ready \subseteq Sockets
    BY DEF SmsBase, SmsTInv, SmsTypeOK
  <2>4. Live => Live'
    <3>1. \A x \in Sockets : x # s => gen'[x] = gen[x] /\ readyState'[x] = readyState[x]
      BY <2>2, <2>3
    <3> QED
      BY <1>0, <2>1, <2>2, <2>3, <3>1 DEF Live
  <2>5. attempt' # NoSocket
    BY <2>1, <2>2, NoSocketIsNone
  <2>6. \A x \in Sockets : readyState'[x] = "dialing" \/ x \in asked' => gen'[x] = generation'
    BY <1>0, <2>1, <2>2, <2>3 DEF ReconnectInv
  <2>7. wasReady /\ ~stopped' /\ ~taken' => ComesBack'
    BY <2>2, <2>4, <2>5 DEF ReconnectInv, ComesBack, TimerAttempt
  <2> QED
    BY <1>0, <2>2, <2>4, <2>6, <2>7 DEF ReconnectInv
<1> QED
  BY <1>1, <1>2, <1>3 DEF EnsureConnected

\* A failed attempt that the timer waits for arms the timer again.
LEMMA RejectComesBack ==
  ASSUME NEW s, NEW rearm, Reject(s, rearm), TimerAttempt, ~stopped
  PROVE  timer' \/ TimerAttempt'
BY DEF Reject, TimerAttempt

LEMMA AttemptReconnects ==
  ASSUME SmsBase, ReconnectInv, NEW s \in Sockets, Attempt(s)
  PROVE  ReconnectInv'
<1>0. /\ readyState \in [Sockets -> {"unused", "dialing", "open", "closing", "closed"}]
      /\ ready \subseteq Sockets \ asked /\ asked \subseteq Sockets
      /\ \A x \in Sockets : readyState[x] = "dialing" => x \notin ready
  BY DEF SmsBase, SmsTInv, SmsTypeOK, SmsFacts
<1>1. CASE SocketOpens(s)
  <2>1. /\ readyState[s] = "dialing" /\ readyState' = [readyState EXCEPT ![s] = "open"]
        /\ asked' = asked \cup {s}
        /\ UNCHANGED <<gen, ready, generation, connected, stopped, timer, attempt, waiting,
                       wasReady, taken>>
    BY <1>1 DEF SocketOpens, stateVars
  <2>2. Live => Live'
    BY <1>0, <2>1 DEF Live
  <2>3. \A x \in Sockets : readyState'[x] = "dialing" \/ x \in asked' => gen'[x] = generation'
    BY <1>0, <2>1 DEF ReconnectInv
  <2> QED
    BY <2>1, <2>2, <2>3 DEF ReconnectInv, ComesBack, TimerAttempt
<1>2. CASE Answered(s)
  <2>1. /\ readyState[s] = "open" /\ s \in asked /\ s \in ready' /\ asked' = asked \ {s}
        /\ UNCHANGED <<readyState, gen, stopped, generation>>
    BY <1>2 DEF Answered
  <2>2. Live' /\ ~stopped
    BY <2>1 DEF ReconnectInv, Live, SmsBase, SInv
  <2> QED
    BY <2>1, <2>2 DEF ReconnectInv, ComesBack
<1>3. CASE DialFails(s) \/ AskFails(s)
  <2>1. /\ s \notin ready /\ readyState' = [readyState EXCEPT ![s] = "closing"]
        /\ asked' \subseteq asked
        /\ Reject(s, FALSE)
        /\ UNCHANGED <<gen, ready, generation, connected, stopped, wasReady, taken>>
    BY <1>0, <1>3 DEF DialFails, AskFails
  <2>2. Live => Live'
    BY <1>0, <2>1 DEF Live
  <2>3. \A x \in Sockets : readyState'[x] = "dialing" \/ x \in asked' => gen'[x] = generation'
    BY <1>0, <2>1 DEF ReconnectInv
  <2>4. timer => timer'
    BY <2>1 DEF Reject
  <2>5. ComesBack /\ ~stopped => ComesBack'
    BY <2>1, <2>2, <2>4, RejectComesBack DEF ComesBack
  <2> QED
    BY <2>1, <2>2, <2>3, <2>5 DEF ReconnectInv
<1> QED
  BY <1>1, <1>2, <1>3 DEF Attempt

\* The end of a live connection arms the timer.
LEMMA LossReconnects ==
  ASSUME SmsBase, ReconnectInv, NEW s \in Sockets, Drops(s) \/ Closes(s)
  PROVE  ReconnectInv'
<1>0. /\ readyState \in [Sockets -> {"unused", "dialing", "open", "closing", "closed"}]
      /\ ready \subseteq Sockets
  BY DEF SmsBase, SmsTInv, SmsTypeOK
<1>1. CASE Drops(s)
  <2>1. /\ readyState[s] = "open" /\ readyState' = [readyState EXCEPT ![s] = "closing"]
        /\ UNCHANGED <<gen, asked, ready, generation, connected, stopped, timer, attempt,
                       waiting, wasReady, taken>>
    BY <1>1 DEF Drops, stateVars
  <2>2. Live => Live'
    BY <1>0, <2>1 DEF Live
  <2>3. \A x \in Sockets : readyState'[x] = "dialing" => readyState[x] = "dialing"
    BY <1>0, <2>1
  <2> QED
    BY <2>1, <2>2, <2>3 DEF ReconnectInv, ComesBack, TimerAttempt
<1>2. CASE Closes(s)
  <2>1. /\ readyState' = [readyState EXCEPT ![s] = "closed"] /\ asked' = asked \ {s}
        /\ connected' = FALSE /\ Reject(s, Rearms(s))
        /\ UNCHANGED <<gen, ready, generation, stopped, wasReady, taken>>
    BY <1>2 DEF Closes
  <2>2. \A x \in Sockets : readyState'[x] = "dialing" \/ x \in asked' => gen'[x] = generation'
    BY <1>0, <2>1 DEF ReconnectInv
  <2>3. Live /\ ~stopped => timer' \/ Live'
    <3> SUFFICES ASSUME Live, ~stopped PROVE timer' \/ Live'
      OBVIOUS
    <3>1. PICK x \in ready : gen[x] = generation /\ readyState[x] \in {"open", "closing"}
      BY DEF Live
    <3>2. CASE x = s
      <4>1. Rearms(s)
        BY <3>1, <3>2 DEF Rearms
      <4> QED
        BY <2>1, <4>1 DEF Reject
    <3>3. CASE x # s
      <4>1. x \in ready' /\ gen'[x] = generation' /\ readyState'[x] \in {"open", "closing"}
        BY <1>0, <2>1, <3>1, <3>3
      <4> QED
        BY <4>1 DEF Live
    <3> QED
      BY <3>2, <3>3
  <2>4. timer => timer'
    BY <2>1 DEF Reject
  <2>5. ComesBack /\ ~stopped => ComesBack'
    BY <2>1, <2>3, <2>4, RejectComesBack DEF ComesBack
  <2> QED
    BY <2>1, <2>2, <2>5 DEF ReconnectInv
<1> QED
  BY <1>1, <1>2

LEMMA StopReconnects ==
  ASSUME SmsBase, SmsBase', Disconnect \/ Restart
  PROVE  ReconnectInv'
<1>1. ~wasReady' /\ ~connected' /\ asked' = {}
  BY DEF Disconnect, Restart
<1>2. \A s \in Sockets : readyState'[s] # "dialing"
  <2>1. currentSocket' = NoSocket
    BY DEF Disconnect, Restart
  <2> QED
    BY <2>1, NoSocketIsNone DEF SmsBase, SInv
<1> QED
  BY <1>1, <1>2 DEF ReconnectInv

LEMMA QuietReconnects ==
  ASSUME ReconnectInv,
         UNCHANGED <<readyState, gen, asked, ready, stateVars, wasReady, taken>>
  PROVE  ReconnectInv'
BY DEF ReconnectInv, ComesBack, TimerAttempt, Live, stateVars

LEMMA InitReconnects == SmsInit => ReconnectInv
BY DEF SmsInit, ReconnectInv

LEMMA NextReconnects == SmsBase /\ SmsBase' /\ ReconnectInv /\ [SmsNext]_smsVars => ReconnectInv'
<1> SUFFICES ASSUME SmsBase, SmsBase', ReconnectInv, [SmsNext]_smsVars PROVE ReconnectInv'
  OBVIOUS
<1>1. CASE Connect \/ ReconnectTimerFires
  BY <1>1, EnsureReconnects DEF Connect, ReconnectTimerFires
<1>2. ASSUME NEW c \in Sends, Send(c)
      PROVE  ReconnectInv'
  <2>1. c # "connect"
    BY SmsSocketAssumption
  <2> QED
    BY <1>2, <2>1, EnsureReconnects DEF Send
<1>3. ASSUME NEW c \in Sends, SendEnds(c)
      PROVE  ReconnectInv'
  BY <1>3, QuietReconnects DEF SendEnds, socketVars
<1>4. ASSUME NEW s \in Sockets, Attempt(s) \/ Drops(s) \/ Closes(s)
      PROVE  ReconnectInv'
  BY <1>4, AttemptReconnects, LossReconnects
<1>5. ASSUME NEW s \in Sockets, Inbound(s)
      PROVE  ReconnectInv'
  BY <1>5, QuietReconnects
  DEF Inbound, PushArrives, StateArrives, HistoryArrives, HistoryFails, socketVars
<1>6. CASE Disconnect \/ Restart
  BY <1>6, StopReconnects
<1>7. CASE PhoneReceives
  BY <1>7, QuietReconnects DEF PhoneReceives
<1>8. CASE UNCHANGED smsVars
  BY <1>8, QuietReconnects DEF smsVars, socketVars
<1> QED
  BY <1>1, <1>2, <1>3, <1>4, <1>5, <1>6, <1>7, <1>8 DEF SmsNext

SmsInv == SmsTInv /\ SInv /\ MsgInv /\ ReconnectInv

LEMMA SmsInvHolds == SmsSpec => []SmsInv
<1>1. SmsInit => SmsInv
  BY InitTypes, InitSInv, InitMsg, InitReconnects DEF SmsInv
<1>2. SmsInv /\ [SmsNext]_smsVars => SmsInv'
  BY NextTypes, NextSInv, NextMsg, NextReconnects DEF SmsInv, SmsBase
<1> QED
  BY <1>1, <1>2, PTL DEF SmsSpec

LEMMA SmsInvCorrect == SmsInv => SmsCorrect
<1> SUFFICES ASSUME SmsInv PROVE SmsCorrect
  OBVIOUS
<1>1. DeliveredOnce
  BY DEF SmsInv, MsgInv, DeliveryInv
<1>2. NoGap
  <2> SUFFICES ASSUME ~early, NEW m \in 1..phone, ~(m > lastSeen)
               PROVE  m \in passedOn
    BY DEF NoGap
  <2>1. lastSeen \in Int /\ phone \in Int
    BY DEF SmsInv, SmsTInv, SmsTypeOK
  <2>2. m \in 1..lastSeen
    BY <2>1
  <2> QED
    BY <2>2 DEF SmsInv, MsgInv, GapInv
<1>3. KeepsReconnecting
  BY DEF SmsInv, ReconnectInv, KeepsReconnecting, Reconnecting, ComesBack, TimerAttempt, Live
<1> QED
  BY <1>1, <1>2, <1>3 DEF SmsCorrect

\* Every SMS is handed to the router at most once, across sockets, histories and
\* restarts; none is passed over as long as the history comes first on each
\* connection; and a channel that was ready reconnects until it is stopped or a
\* send takes the place of its timer.
THEOREM SmsIsCorrect == SmsSpec => []SmsCorrect
BY SmsInvHolds, SmsInvCorrect, PTL

-----------------------------------------------------------------------------
(* Remote control *)

\* As long as no starts overlapped and the host did not go during one: what runs is
\* the session's process or the one that the only waiting start spawned, the file
\* holds no URL but that one's, and a waiting start means that no session runs.
Alone ==
  /\ NoStray
  /\ session.url = session.pid
  /\ \A c, d \in Starts : Waiting(c) /\ Waiting(d) => c = d
  /\ \A c \in Starts : Waiting(c) => ~IsAlive(session.pid) /\ printed \subseteq {starting[c]}

RemoteInv ==
  /\ process \in [Processes -> {"unused", "mute", "ready", "gone"}]
  /\ starting \in [Starts -> Processes \cup {0}]
  /\ FoundAgain
  /\ ~crowded /\ ~deserted => Alone

LEMMA MinSpawnable ==
  ASSUME Spawnable # {}
  PROVE  Min(Spawnable) \in Processes /\ process[Min(Spawnable)] = "unused" /\ Min(Spawnable) # 0
<1>1. Spawnable \in SUBSET Nat
  BY RemoteAssumption DEF Spawnable
<1>2. Min(Spawnable) \in Spawnable
  BY <1>1, MinFacts
<1> QED
  BY <1>2, RemoteAssumption DEF Spawnable

LEMMA NoProcessIsNone == 0 \notin Processes /\ NoSession.pid = 0 /\ NoSession.url = 0
BY RemoteAssumption DEF NoSession

LEMMA SpawnKeeps ==
  ASSUME RemoteInv, NEW c \in Starts, StartSpawns(c)
  PROVE  RemoteInv'
<1> DEFINE p == Min(Spawnable)
<1>1. p \in Processes /\ process[p] = "unused" /\ p # 0
  BY MinSpawnable DEF StartSpawns
<1>2. /\ ~IsAlive(session.pid)
      /\ process' = [process EXCEPT ![p] = "mute"]
      /\ starting' = [starting EXCEPT ![c] = p]
      /\ printed' = {} /\ session' = NoSession /\ stateFile' = NoSession
      /\ crowded' = (crowded \/ \E d \in Starts : Waiting(d))
      /\ deserted' = deserted
  BY DEF StartSpawns, Emptied, Cleared, RemoteInv, FoundAgain
<1> HIDE DEF p
<1>3. /\ process' \in [Processes -> {"unused", "mute", "ready", "gone"}]
      /\ starting' \in [Starts -> Processes \cup {0}]
      /\ FoundAgain'
  BY <1>1, <1>2 DEF RemoteInv, FoundAgain
<1>4. ASSUME ~crowded', ~deserted'
      PROVE  Alone'
  <2>1. ~crowded /\ ~deserted /\ \A d \in Starts : starting[d] = 0
    BY <1>2, <1>4 DEF Waiting
  <2>2. Alone
    BY <2>1 DEF RemoteInv
  <2>3. \A d \in Starts : starting'[d] = IF d = c THEN p ELSE 0
    BY <1>2, <2>1 DEF RemoteInv
  <2>4. NoStray'
    <3> SUFFICES ASSUME NEW x \in Processes, IsAlive(x)' PROVE x = p
      BY <2>3 DEF NoStray
    <3>1. x = p \/ IsAlive(x)
      BY <1>2 DEF IsAlive, RemoteInv
    <3> QED
      BY <1>2, <2>1, <2>2, <3>1, NoProcessIsNone DEF Alone, NoStray
  <2> QED
    BY <1>1, <1>2, <2>3, <2>4, NoProcessIsNone DEF Alone, Waiting, IsAlive
<1> QED
  BY <1>3, <1>4 DEF RemoteInv

LEMMA SpawnFailsKeeps ==
  ASSUME RemoteInv, NEW c \in Starts, SpawnFails(c)
  PROVE  RemoteInv'
<1>1. /\ ~IsAlive(session.pid) /\ printed' = {} /\ session' = NoSession /\ stateFile' = NoSession
      /\ UNCHANGED <<process, starting, crowded, deserted>>
  BY DEF SpawnFails, Emptied, Cleared, RemoteInv, FoundAgain
<1> QED
  BY <1>1, NoProcessIsNone DEF RemoteInv, FoundAgain, Alone, NoStray, Waiting, IsAlive

\* What runs may print its URL only into its own start's file.
LEMMA PrintsKeeps ==
  ASSUME RemoteInv, NEW p \in Processes, Prints(p)
  PROVE  RemoteInv'
<1>1. /\ process[p] = "mute" /\ process' = [process EXCEPT ![p] = "ready"]
      /\ printed' = printed \cup {p}
      /\ UNCHANGED <<starting, session, stateFile, crowded, deserted>>
  BY DEF Prints
<1>2. \A x : IsAlive(x)' <=> IsAlive(x)
  BY <1>1 DEF IsAlive, RemoteInv
<1>3. ASSUME ~crowded, ~deserted
      PROVE  Alone'
  <2>1. Alone /\ IsAlive(p)
    BY <1>1, <1>3 DEF RemoteInv, IsAlive
  <2>2. \A c \in Starts : Waiting(c) => p = starting[c]
    <3> SUFFICES ASSUME NEW c \in Starts, Waiting(c) PROVE p = starting[c]
      OBVIOUS
    <3>1. session.pid # p
      BY <2>1 DEF Alone
    <3>2. PICK d \in Starts : starting[d] = p
      BY <1>3, <2>1, <3>1 DEF Alone, NoStray
    <3>3. Waiting(d)
      BY <3>2, NoProcessIsNone DEF Waiting
    <3> QED
      BY <2>1, <3>2, <3>3 DEF Alone
  <2> QED
    BY <1>1, <1>2, <2>1, <2>2 DEF Alone, NoStray, Waiting
<1> QED
  BY <1>1, <1>3 DEF RemoteInv, FoundAgain

\* A process less leaves nothing more to be known.
LEMMA KillKeeps ==
  ASSUME RemoteInv, NEW p, process' \in {process, Killed(p)},
         UNCHANGED <<printed, crowded, deserted, stateFile>>,
         starting' \in [Starts -> Processes \cup {0}], session' = session,
         \A c \in Starts :
           starting'[c] # starting[c]
             => starting'[c] = 0 /\ process'[starting[c]] \notin {"mute", "ready"}
  PROVE  RemoteInv'
<1>1. /\ process' \in [Processes -> {"unused", "mute", "ready", "gone"}]
      /\ \A x : IsAlive(x)' => IsAlive(x)
  BY DEF Killed, IsAlive, RemoteInv
<1>2. FoundAgain'
  BY DEF RemoteInv, FoundAgain
<1>3. ASSUME NEW x \in Processes, IsAlive(x)', NEW c \in Starts, starting[c] = x
      PROVE  starting'[c] = x
  BY <1>3 DEF IsAlive
<1>4. ASSUME ~crowded, ~deserted PROVE Alone'
  <2>1. Alone
    BY <1>4 DEF RemoteInv
  <2>2. NoStray'
    BY <1>1, <1>3, <2>1 DEF Alone, NoStray
  <2> QED
    BY <1>1, <2>1, <2>2 DEF Alone, Waiting
<1> QED
  BY <1>1, <1>2, <1>4 DEF RemoteInv

LEMMA UrlKeeps ==
  ASSUME RemoteInv, NEW c \in Starts, PollFindsUrl(c)
  PROVE  RemoteInv'
<1>1. PICK u \in printed : session' = [pid |-> starting[c], url |-> u]
  BY DEF PollFindsUrl
<1>2. /\ Waiting(c) /\ IsAlive(starting[c]) /\ stateFile' = session'
      /\ starting' = [starting EXCEPT ![c] = 0]
      /\ UNCHANGED <<process, printed, crowded, deserted>>
  BY DEF PollFindsUrl
<1>3. ASSUME ~crowded, ~deserted PROVE Alone'
  <2>1. Alone
    BY <1>3 DEF RemoteInv
  <2>2. u = starting[c] /\ session'.pid = starting[c] /\ session'.url = u
    BY <1>1, <1>2, <2>1 DEF Alone
  <2>3. \A d \in Starts : starting'[d] = 0
    BY <1>2, <2>1 DEF Alone, Waiting, RemoteInv
  <2>4. NoStray'
    <3> SUFFICES ASSUME NEW x \in Processes, IsAlive(x) PROVE x = starting[c]
      BY <1>2, <2>2 DEF NoStray, IsAlive
    <3>1. x = session.pid \/ \E d \in Starts : starting[d] = x
      BY <1>3, <2>1 DEF Alone, NoStray
    <3>2. ~IsAlive(session.pid)
      BY <1>2, <2>1 DEF Alone
    <3>3. \A d \in Starts : starting[d] = x => Waiting(d)
      BY NoProcessIsNone DEF Waiting
    <3> QED
      BY <1>2, <2>1, <3>1, <3>2, <3>3 DEF Alone
  <2> QED
    BY <2>2, <2>3, <2>4 DEF Alone, Waiting
<1>4. starting' \in [Starts -> Processes \cup {0}]
  BY <1>2 DEF RemoteInv
<1> QED
  BY <1>2, <1>3, <1>4 DEF RemoteInv, FoundAgain

LEMMA StopRemoteKeeps ==
  ASSUME RemoteInv, StopRemote
  PROVE  RemoteInv'
<1>1. /\ process' = Killed(session.pid) /\ session' = NoSession /\ stateFile' = NoSession
      /\ UNCHANGED <<printed, starting, crowded, deserted>>
  BY DEF StopRemote, FileAfterStop
<1>2. /\ process' \in [Processes -> {"unused", "mute", "ready", "gone"}]
      /\ \A x : IsAlive(x)' => IsAlive(x) /\ x # session.pid
  BY <1>1 DEF Killed, IsAlive, RemoteInv
<1> QED
  BY <1>1, <1>2, NoProcessIsNone DEF RemoteInv, FoundAgain, Alone, NoStray, Waiting, IsAlive

\* The new host adopts what the file names.
LEMMA HostRestartsKeeps ==
  ASSUME RemoteInv, HostRestarts
  PROVE  RemoteInv'
<1>1. /\ session' = Adopted /\ stateFile' = Adopted
      /\ starting' = [c \in Starts |-> 0]
      /\ deserted' = (deserted \/ \E c \in Starts : Waiting(c))
      /\ UNCHANGED <<process, printed, crowded>>
  BY DEF HostRestarts
<1>2. Adopted = IF IsAlive(session.pid) THEN session ELSE NoSession
  BY DEF Adopted, RemoteInv, FoundAgain
<1>3. ASSUME ~crowded', ~deserted' PROVE Alone'
  <2>1. Alone /\ ~crowded /\ ~deserted /\ \A c \in Starts : ~Waiting(c)
    BY <1>1, <1>3 DEF RemoteInv
  <2>2. session'.url = session'.pid
    BY <1>1, <1>2, <2>1, NoProcessIsNone DEF Alone
  <2>3. NoStray'
    <3> SUFFICES ASSUME NEW x \in Processes, IsAlive(x) PROVE session'.pid = x
      BY <1>1 DEF NoStray, IsAlive
    <3>1. session.pid = x
      BY <2>1, NoProcessIsNone DEF Alone, NoStray, Waiting
    <3> QED
      BY <1>1, <1>2, <3>1
  <2> QED
    BY <1>1, <2>2, <2>3 DEF Alone, Waiting
<1> QED
  BY <1>1, <1>3 DEF RemoteInv, FoundAgain

LEMMA InitRemote == RemoteInit => RemoteInv
BY NoProcessIsNone DEF RemoteInit, RemoteInv, FoundAgain, Alone, NoStray, IsAlive, Waiting

LEMMA NextRemote == RemoteInv /\ [RemoteNext]_remoteVars => RemoteInv'
<1> SUFFICES ASSUME RemoteInv, [RemoteNext]_remoteVars PROVE RemoteInv'
  OBVIOUS
<1> DEFINE Keep == UNCHANGED <<process, printed, starting, session, stateFile, crowded, deserted>>
<1>0. ASSUME Keep PROVE RemoteInv'
  BY <1>0 DEF RemoteInv, FoundAgain, Alone, NoStray, Waiting, IsAlive
<1>1. ASSUME NEW c \in Starts, StartFinds(c)
      PROVE  RemoteInv'
  BY <1>0, <1>1 DEF StartFinds
<1>2. ASSUME NEW c \in Starts, StartSpawns(c) \/ SpawnFails(c) \/ PollFindsUrl(c)
      PROVE  RemoteInv'
  BY <1>2, SpawnKeeps, SpawnFailsKeeps, UrlKeeps
<1>3. ASSUME NEW c \in Starts, PollFindsDead(c)
      PROVE  RemoteInv'
  <2>1. starting[c] # 0 => process[starting[c]] \notin {"mute", "ready"}
    BY <1>3 DEF PollFindsDead, IsAlive, RemoteInv
  <2>2. /\ starting' = [starting EXCEPT ![c] = 0]
        /\ UNCHANGED <<process, printed, session, stateFile, crowded, deserted>>
    BY <1>3 DEF PollFindsDead
  <2>3. starting \in [Starts -> Processes \cup {0}]
    BY DEF RemoteInv
  <2> QED
    BY <2>1, <2>2, <2>3, KillKeeps
<1>4. ASSUME NEW c \in Starts, PollTimesOut(c)
      PROVE  RemoteInv'
  <2>1. PICK x \in Processes : x = starting[c] /\ process' = Killed(x)
    BY <1>4 DEF PollTimesOut, AfterTimeout, IsAlive
  <2>2. process'[x] = "gone"
    BY <2>1 DEF Killed, RemoteInv
  <2>3. /\ starting' = [starting EXCEPT ![c] = 0]
        /\ UNCHANGED <<printed, session, stateFile, crowded, deserted>>
    BY <1>4 DEF PollTimesOut
  <2>4. starting \in [Starts -> Processes \cup {0}]
    BY DEF RemoteInv
  <2> QED
    BY <2>1, <2>2, <2>3, <2>4, KillKeeps
<1>5. ASSUME NEW p \in Processes, Prints(p) \/ Dies(p)
      PROVE  RemoteInv'
  BY <1>5, PrintsKeeps, KillKeeps DEF Dies, RemoteInv
<1>6. CASE StopRemote \/ HostRestarts
  BY <1>6, StopRemoteKeeps, HostRestartsKeeps
<1>7. CASE UNCHANGED remoteVars
  BY <1>0, <1>7 DEF remoteVars
<1> QED
  BY <1>1, <1>2, <1>3, <1>4, <1>5, <1>6, <1>7 DEF RemoteNext

\* No process of remote control runs unknown to the host and the URL is that of the
\* process that stop will kill, unless starts overlapped or the host went during
\* one; and a restart finds the session again: for any number of processes.
THEOREM RemoteIsCorrect == ChannelsSpec => []RemoteCorrect
<1>1. RemoteInv => RemoteCorrect
  BY DEF RemoteInv, Alone, RemoteCorrect, NoStray, UrlIsItsOwn
<1>2. ChannelsInit => RemoteInv
  BY InitRemote DEF ChannelsInit
<1>3. RemoteInv /\ [ChannelsNext]_<<part, smsVars, slackVars, inboundVars, remoteVars>> => RemoteInv'
  BY NextRemote DEF ChannelsNext
<1> QED
  BY <1>1, <1>2, <1>3, PTL DEF ChannelsSpec

-----------------------------------------------------------------------------
(* Inbound messages *)

InboundTypeInv ==
  /\ route \in [InboundIds -> Routes]
  /\ stamp \in [InboundIds -> Nat]
  /\ delivery \in [Deliveries -> {"coming", "decision", "guard", "over"}]
  /\ handled \in [InboundIds -> Nat]
  /\ rows \subseteq InboundIds
  /\ given \subseteq rows
  /\ agentCursor \in Nat /\ lastTimestamp \in Nat /\ runPrev \in Nat
  /\ crashes \in Nat /\ remembers \in BOOLEAN
  /\ \A d \in Deliveries : delivery[d] = "decision" => route[d[1]] \in {"command", "reply"}

\* What the cursors promise.  While a run goes on, what is stored and newer than
\* where its cursor would be rolled back to was given, or a check is owed; and the
\* rollback goes back.
CursorInv ==
  /\ StoredIsNoticed
  /\ PassedOverOnlyLate
  /\ Running => /\ runPrev < agentCursor /\ \E m \in rows : stamp[m] > runPrev
                /\ \A m \in rows \ given : /\ stamp[m] > runPrev => checkOwed
                                           /\ stamp[m] > runPrev \/ m \in late

\* A channel that remembers lets one delivery of a message in; it acts when it is over.
OnceInv ==
  remembers /\ crashes = 0 =>
    /\ \A m \in InboundIds : /\ m \notin seenIds => handled[m] = 0 /\ m \notin rows
                             /\ handled[m] = 0 \/ (handled[m] = 1 /\ m \notin rows)
    /\ \A d \in InFlight : /\ d[1] \in seenIds /\ handled[d[1]] = 0 /\ d[1] \notin rows
                           /\ \A e \in InFlight : e[1] = d[1] => e = d

\* Where a message has got to that the channel took or that was delivered.
Settled(m) ==
  \/ m \in rows \cup blocked
  \/ handled[m] > 0
  \/ \E f \in faulted : f[1] = m /\ (f[2] = "decision" => route[m] = "command")
Taken(m) == m \in seenIds \/ \E d \in Deliveries : d[1] = m /\ delivery[d] = "over"
Pending(m) == \E d \in InFlight : d[1] = m
KeptInv == \A m \in InboundIds : Taken(m) => Settled(m) \/ Pending(m)

InboundInv == InboundTypeInv /\ CursorInv /\ OnceInv /\ KeptInv

LEMMA DeliveryIds == \A d \in Deliveries : d[1] \in InboundIds
BY DEF Deliveries

\* The newest time of some rows, and of all rows that are newer than a cursor.
LEMMA NewestOf ==
  ASSUME InboundTypeInv, NEW S \in SUBSET rows, S # {}
  PROVE  /\ NewestStamp(S) \in Nat
         /\ \E m \in S : stamp[m] = NewestStamp(S)
         /\ \A m \in S : stamp[m] <= NewestStamp(S)
<1> DEFINE T == {stamp[m] : m \in S}
<1>1. T \in SUBSET Nat /\ T # {}
  BY DEF InboundTypeInv
<1>2. IsFiniteSet(T)
  <2>1. IsFiniteSet(S)
    <3>1. S \in SUBSET InboundIds
      BY DEF InboundTypeInv
    <3> QED
      BY <3>1, FS_Subset, InboundAssumption
  <2> QED
    BY <2>1, ImageIsFinite
<1> HIDE DEF T
<1>3. Max(T) \in T /\ \A y \in T : y <= Max(T)
  BY <1>1, <1>2, MaxOfFinite
<1> QED
  BY <1>1, <1>3 DEF T, NewestStamp

LEMMA NewestAfter ==
  ASSUME InboundTypeInv, NEW c \in Nat, After(c) # {}
  PROVE  /\ NewestStamp(After(c)) \in Nat /\ NewestStamp(After(c)) > c
         /\ \A m \in rows : stamp[m] <= NewestStamp(After(c))
<1>1. After(c) \in SUBSET rows
  BY DEF After
<1>2. /\ NewestStamp(After(c)) \in Nat
      /\ \E m \in After(c) : stamp[m] = NewestStamp(After(c))
      /\ \A m \in After(c) : stamp[m] <= NewestStamp(After(c))
  BY <1>1, NewestOf
<1>3. \A m \in rows : stamp[m] \in Nat /\ (m \in After(c) <=> stamp[m] > c)
  BY DEF InboundTypeInv, After
<1> QED
  BY <1>1, <1>2, <1>3

\* Types: how far a delivery's storing gets.
LEMMA StoringTypes ==
  ASSUME InboundTypeInv, NEW d \in Deliveries,
         Store(d) \/ (\E why : LoseDelivery(d, why)) \/ StoreInbound(d)
  PROVE  /\ delivery' \in [Deliveries -> {"coming", "decision", "guard", "over"}]
         /\ \A e \in Deliveries : delivery'[e] = "decision" => delivery[e] = "decision"
         /\ \/ /\ UNCHANGED <<rows, checkOwed, late>>
               /\ \/ delivery' = [delivery EXCEPT ![d] = "guard"] /\ faulted' = faulted
                  \/ delivery' = [delivery EXCEPT ![d] = "over"] /\ \E why : LoseDelivery(d, why)
            \/ Store(d)
<1>1. ASSUME Store(d) \/ \E why : LoseDelivery(d, why)
      PROVE  delivery' = [delivery EXCEPT ![d] = "over"]
  BY <1>1 DEF Store, LoseDelivery
<1>2. CASE Store(d) \/ \E why : LoseDelivery(d, why)
  BY <1>1, <1>2 DEF InboundTypeInv, LoseDelivery
<1>3. CASE StoreInbound(d)
  <2>1. CASE Store(d) \/ LoseDelivery(d, "store")
    BY <1>2, <2>1
  <2>2. CASE delivery' = [delivery EXCEPT ![d] = "guard"] /\ UNCHANGED <<rows, checkOwed, late, faulted>>
    BY <2>2 DEF InboundTypeInv
  <2> QED
    BY <1>3, <2>1, <2>2 DEF StoreInbound
<1> QED
  BY <1>2, <1>3

DeliveryStep(d) ==
  \/ Repeated(d) \/ Receive(d) \/ ReceiveThrows(d)
  \/ DecisionHandles(d) \/ DecisionPasses(d) \/ DecisionFails(d)
  \/ GuardPasses(d) \/ GuardBlocks(d)

LEMMA DeliveryTypes ==
  ASSUME InboundTypeInv, NEW d \in Deliveries, DeliveryStep(d)
  PROVE  /\ InboundTypeInv'
         /\ UNCHANGED <<route, stamp, remembers, given, agentCursor, lastTimestamp, runGiven,
                        runPrev, crashes>>
         /\ UNCHANGED <<rows, checkOwed, late>> \/ Store(d)
<1>0. UNCHANGED <<route, stamp, remembers, given, agentCursor, lastTimestamp, runGiven,
                  runPrev, crashes>>
  BY DEF DeliveryStep, Repeated, Receive, ReceiveThrows, DecisionHandles, DecisionPasses,
         DecisionFails, GuardPasses, GuardBlocks
<1>1. ASSUME UNCHANGED <<rows, checkOwed, late>> \/ Store(d), handled' = handled,
             delivery' \in [Deliveries -> {"coming", "decision", "guard", "over"}],
             \A e \in Deliveries : delivery'[e] = "decision"
               => delivery[e] = "decision" \/ route[e[1]] \in {"command", "reply"}
      PROVE  InboundTypeInv'
  BY <1>0, <1>1, DeliveryIds DEF InboundTypeInv, Store
<1>2. CASE Repeated(d) \/ GuardBlocks(d)
  <2>1. /\ delivery' = [delivery EXCEPT ![d] = "over"]
        /\ UNCHANGED <<rows, checkOwed, late, handled>>
    BY <1>2 DEF Repeated, GuardBlocks
  <2> QED
    BY <1>0, <1>1, <2>1 DEF InboundTypeInv
<1>3. CASE Receive(d) \/ DecisionPasses(d) \/ DecisionFails(d) \/ GuardPasses(d)
  <2>1. handled' = handled
    BY <1>3 DEF Receive, DecisionPasses, DecisionFails, GuardPasses
  <2>2. CASE route[d[1]] \in {"command", "reply"} /\ delivery' = [delivery EXCEPT ![d] = "decision"]
             /\ UNCHANGED <<rows, checkOwed, late, faulted>>
    BY <1>0, <1>1, <2>1, <2>2 DEF InboundTypeInv
  <2>3. CASE Store(d) \/ (\E why : LoseDelivery(d, why)) \/ StoreInbound(d)
    <3>1. /\ delivery' \in [Deliveries -> {"coming", "decision", "guard", "over"}]
          /\ \A e \in Deliveries : delivery'[e] = "decision" => delivery[e] = "decision"
          /\ UNCHANGED <<rows, checkOwed, late>> \/ Store(d)
      BY <2>3, StoringTypes
    <3> QED
      BY <1>0, <1>1, <2>1, <3>1
  <2> QED
    BY <1>3, <2>2, <2>3 DEF Receive, DecisionPasses, DecisionFails, GuardPasses, AfterError
<1>4. CASE ReceiveThrows(d)
  <2>1. PICK rest \in SUBSET {e \in Deliveries : delivery[e] = "coming"} :
          delivery' = [e \in Deliveries |-> IF e \in rest THEN "over" ELSE delivery[e]]
    BY <1>4 DEF ReceiveThrows
  <2>2. UNCHANGED <<rows, checkOwed, late, handled>>
    BY <1>4 DEF ReceiveThrows
  <2> QED
    BY <1>0, <1>1, <2>1, <2>2 DEF InboundTypeInv
<1>5. CASE DecisionHandles(d)
  <2>1. /\ delivery' = [delivery EXCEPT ![d] = "over"]
        /\ handled' = [handled EXCEPT ![d[1]] = @ + 1]
        /\ UNCHANGED <<rows, checkOwed, late>>
    BY <1>5 DEF DecisionHandles
  <2>2. handled' \in [InboundIds -> Nat]
    BY <2>1, DeliveryIds DEF InboundTypeInv
  <2> QED
    BY <1>0, <2>1, <2>2 DEF InboundTypeInv
<1> QED
  BY <1>0, <1>2, <1>3, <1>4, <1>5 DEF DeliveryStep

LEMMA RunTypes ==
  ASSUME InboundTypeInv, PollPending \/ CheckStarts \/ RunSettles \/ RunRollsBack \/ HostCrashes
  PROVE  InboundTypeInv'
<1>1. CASE PollPending
  <2>1. NewestStamp(After(lastTimestamp)) \in Nat
    BY <1>1, NewestAfter DEF PollPending, InboundTypeInv
  <2>2. ToPipe \subseteq rows /\ NewestStamp(ToPipe) \in Nat
    <3>1. ToPipe \in SUBSET rows /\ ToPipe # {}
      BY <1>1 DEF PollPending, ToPipe, After
    <3> QED
      BY <3>1, NewestOf
  <2>3. /\ UNCHANGED <<route, stamp, remembers, delivery, rows, runPrev, crashes, handled>>
        /\ lastTimestamp' = NewestStamp(After(lastTimestamp))
        /\ \/ agentCursor' = NewestStamp(ToPipe) /\ given' = given \cup ToPipe
           \/ agentCursor' = agentCursor /\ given' = given
    BY <1>1 DEF PollPending, CursorAfterAsking
  <2> QED
    BY <2>1, <2>2, <2>3 DEF InboundTypeInv
<1>2. CASE CheckStarts
  <2>1. /\ UNCHANGED <<route, stamp, remembers, delivery, rows, lastTimestamp, crashes, handled>>
        /\ \/ UNCHANGED <<agentCursor, given, runPrev>>
           \/ /\ After(agentCursor) # {} /\ runPrev' = agentCursor
              /\ agentCursor' = NewestStamp(After(agentCursor))
              /\ given' = given \cup After(agentCursor)
    BY <1>2 DEF CheckStarts
  <2>2. After(agentCursor) # {} => NewestStamp(After(agentCursor)) \in Nat
    BY NewestAfter DEF InboundTypeInv
  <2>3. After(agentCursor) \subseteq rows
    BY DEF After
  <2> QED
    BY <2>1, <2>2, <2>3 DEF InboundTypeInv
<1>3. CASE RunSettles
  BY <1>3 DEF RunSettles, InboundTypeInv
<1>4. CASE RunRollsBack
  BY <1>4 DEF RunRollsBack, InboundTypeInv
<1>5. CASE HostCrashes
  BY <1>5 DEF HostCrashes, InboundTypeInv
<1> QED
  BY <1>1, <1>2, <1>3, <1>4, <1>5

\* The cursors.
LEMMA StoreCursors ==
  ASSUME InboundTypeInv, CursorInv, NEW d \in Deliveries, DeliveryStep(d)
  PROVE  CursorInv'
<1>1. /\ UNCHANGED <<stamp, given, agentCursor, lastTimestamp, runGiven, runPrev>>
      /\ UNCHANGED <<rows, checkOwed, late>> \/ Store(d)
  BY DeliveryTypes
<1>2. CASE UNCHANGED <<rows, checkOwed, late>>
  BY <1>1, <1>2 DEF CursorInv, StoredIsNoticed, PassedOverOnlyLate, Running
<1>3. CASE Store(d)
  <2> DEFINE m == d[1]
  <2>1. /\ rows' = rows \cup {m} /\ (checkOwed' <=> checkOwed \/ m \notin rows)
        /\ late' = IF m \notin rows /\ stamp[m] <= agentCursor THEN late \cup {m} ELSE late
    BY <1>3 DEF Store, OwedAfterStore, IsNew
  <2>2. /\ m \in InboundIds /\ stamp[m] \in Nat /\ agentCursor \in Nat /\ runPrev \in Nat
        /\ (Running' <=> Running)
    BY <1>1, DeliveryIds DEF InboundTypeInv, Running
  <2> HIDE DEF m
  <2>3. \A x \in rows' \ given : x \in rows \ given \/ (x = m /\ m \notin rows)
    BY <2>1
  <2>4. stamp[m] > agentCursor \/ m \in late' \/ m \in rows
    BY <2>1, <2>2
  <2>5. StoredIsNoticed' /\ PassedOverOnlyLate'
    BY <1>1, <2>1, <2>3, <2>4 DEF CursorInv, StoredIsNoticed, PassedOverOnlyLate
  <2>6. ASSUME Running
        PROVE  /\ runPrev < agentCursor /\ \E x \in rows' : stamp[x] > runPrev
               /\ \A x \in rows' \ given : /\ stamp[x] > runPrev => checkOwed'
                                           /\ stamp[x] > runPrev \/ x \in late'
    BY <2>1, <2>2, <2>3, <2>4, <2>6 DEF CursorInv
  <2> QED
    BY <1>1, <2>2, <2>5, <2>6 DEF CursorInv
<1> QED
  BY <1>1, <1>2, <1>3

LEMMA PollCursors ==
  ASSUME InboundTypeInv, CursorInv, PollPending
  PROVE  CursorInv'
<1>1. /\ After(lastTimestamp) # {} /\ lastTimestamp' = NewestStamp(After(lastTimestamp))
      /\ UNCHANGED <<stamp, rows, runGiven, runPrev, late>>
  BY DEF PollPending
<1>2. \A m \in rows : stamp[m] \in Nat /\ stamp[m] <= lastTimestamp'
  BY <1>1, NewestAfter DEF InboundTypeInv
<1>3. CASE Running /\ agentCursor' = NewestStamp(ToPipe) /\ given' = given \cup ToPipe
           /\ checkOwed' = checkOwed
  <2>1. /\ agentCursor' \in Nat /\ \A m \in rows : stamp[m] <= agentCursor'
        /\ \A m \in rows : m \notin given' => stamp[m] <= agentCursor
    <3>1. CASE After(agentCursor) # {}
      BY <1>3, <3>1, NewestAfter DEF ToPipe, InboundTypeInv, After
    <3>2. CASE After(agentCursor) = {}
      BY <1>1, <1>3, <3>2, NewestAfter DEF ToPipe, InboundTypeInv, After
    <3> QED
      BY <3>1, <3>2
  <2>2. PassedOverOnlyLate'
    BY <1>1, <1>3, <2>1 DEF CursorInv, PassedOverOnlyLate, InboundTypeInv
  <2>3. StoredIsNoticed'
    BY <1>1, <1>2, <2>1 DEF StoredIsNoticed
  <2>4. runPrev < agentCursor'
    <3>1. PICK m \in rows : stamp[m] > runPrev
      BY <1>3 DEF CursorInv
    <3>2. stamp[m] \in Nat /\ runPrev \in Nat /\ stamp[m] <= agentCursor'
      BY <2>1 DEF InboundTypeInv
    <3> QED
      BY <2>1, <3>1, <3>2
  <2> QED
    BY <1>1, <1>3, <2>2, <2>3, <2>4 DEF CursorInv, Running
<1>4. CASE ~Running /\ checkOwed' = TRUE /\ agentCursor' = agentCursor /\ given' = given
  BY <1>1, <1>4 DEF CursorInv, StoredIsNoticed, PassedOverOnlyLate, Running
<1> QED
  BY <1>3, <1>4 DEF PollPending, CursorAfterAsking

LEMMA RunCursors ==
  ASSUME InboundTypeInv, CursorInv, CheckStarts \/ RunSettles \/ RunRollsBack \/ HostCrashes
  PROVE  CursorInv'
<1>0. UNCHANGED <<stamp, rows, lastTimestamp, late>>
  BY DEF CheckStarts, RunSettles, RunRollsBack, HostCrashes
<1>1. CASE CheckStarts
  <2>1. CASE After(agentCursor) = {} /\ UNCHANGED <<agentCursor, given, runGiven, runPrev>>
    <3>1. ~Running
      BY <1>1 DEF CheckStarts
    <3> QED
      BY <1>0, <2>1, <3>1 DEF CursorInv, StoredIsNoticed, PassedOverOnlyLate, Running, After
  <2>2. CASE /\ After(agentCursor) # {} /\ runPrev' = agentCursor
             /\ agentCursor' = NewestStamp(After(agentCursor))
             /\ given' = given \cup After(agentCursor)
    <3>1. /\ agentCursor' > agentCursor /\ agentCursor' \in Nat
          /\ \A m \in rows : stamp[m] <= agentCursor'
      BY <2>2, NewestAfter DEF InboundTypeInv
    <3>2. \A m \in rows : stamp[m] > agentCursor => m \in given'
      BY <2>2 DEF After
    <3>3. \A m \in rows : stamp[m] \in Nat
      BY DEF InboundTypeInv
    <3>4. \E m \in rows : stamp[m] > agentCursor
      BY <2>2 DEF After
    <3> QED
      BY <1>0, <2>2, <3>1, <3>2, <3>3, <3>4 DEF CursorInv, StoredIsNoticed, PassedOverOnlyLate
  <2> QED
    BY <1>1, <2>1, <2>2 DEF CheckStarts
<1>2. CASE RunSettles
  BY <1>0, <1>2 DEF RunSettles, CursorInv, StoredIsNoticed, PassedOverOnlyLate, Running
<1>3. CASE RunRollsBack
  <2>1. /\ Running /\ ~Running' /\ agentCursor' = runPrev /\ given' = given
    BY <1>3 DEF RunRollsBack, Running
  <2>2. checkOwed => checkOwed'
    BY <1>3, Zenon DEF RunRollsBack
  <2> QED
    BY <1>0, <2>1, <2>2 DEF CursorInv, StoredIsNoticed, PassedOverOnlyLate
<1>4. CASE HostCrashes
  <2>1. ~Running' /\ UNCHANGED <<agentCursor, given>> /\ checkOwed' = (After(agentCursor) # {})
    BY <1>4 DEF HostCrashes, Running, OwedAfterRestart
  <2> QED
    BY <1>0, <2>1 DEF CursorInv, StoredIsNoticed, PassedOverOnlyLate, After
<1> QED
  BY <1>1, <1>2, <1>3, <1>4

\* What a delivery's step does for "once" and "kept".
LEMMA DeliveryShape ==
  ASSUME InboundTypeInv, NEW d \in Deliveries, DeliveryStep(d)
  PROVE  \/ /\ Repeated(d)
            /\ delivery[d] = "coming" /\ d[1] \in seenIds
            /\ delivery' = [delivery EXCEPT ![d] = "over"]
            /\ UNCHANGED <<seenIds, rows, handled, blocked, faulted>>
         \/ ReceiveThrows(d)
         \/ DecisionHandles(d)
         \/ /\ \/ delivery[d] = "coming" /\ d[1] \notin seenIds /\ seenIds' = SeenAfter(d[1])
               \/ d \in InFlight /\ seenIds' = seenIds
            /\ handled' = handled
            /\ \/ /\ delivery' \in {[delivery EXCEPT ![d] = "decision"],
                                    [delivery EXCEPT ![d] = "guard"]}
                  /\ UNCHANGED <<rows, blocked, faulted>>
               \/ /\ delivery' = [delivery EXCEPT ![d] = "over"]
                  /\ rows' \in {rows, rows \cup {d[1]}} /\ blocked \subseteq blocked'
                  /\ faulted \subseteq faulted'
                  /\ Settled(d[1])'
<1>1. CASE Repeated(d)
  BY <1>1 DEF Repeated, Known
<1>2. CASE ReceiveThrows(d) \/ DecisionHandles(d)
  BY <1>2
<1>3. ASSUME Store(d), blocked' = blocked
      PROVE  /\ delivery' = [delivery EXCEPT ![d] = "over"]
             /\ rows' \in {rows, rows \cup {d[1]}} /\ blocked \subseteq blocked'
             /\ faulted \subseteq faulted'
             /\ Settled(d[1])'
  BY <1>3 DEF Store, Settled
<1>4. ASSUME NEW why, LoseDelivery(d, why), blocked' = blocked, route' = route,
             why = "decision" => route[d[1]] = "command"
      PROVE  /\ delivery' = [delivery EXCEPT ![d] = "over"]
             /\ rows' \in {rows, rows \cup {d[1]}} /\ blocked \subseteq blocked'
             /\ faulted \subseteq faulted'
             /\ Settled(d[1])'
  <2>1. <<d[1], why>> \in faulted' /\ <<d[1], why>>[1] = d[1] /\ <<d[1], why>>[2] = why
    BY <1>4 DEF LoseDelivery
  <2> QED
    BY <1>4, <2>1 DEF LoseDelivery, Settled
<1>5. CASE Receive(d)
  <2>1. /\ delivery[d] = "coming" /\ d[1] \notin seenIds /\ seenIds' = SeenAfter(d[1])
        /\ UNCHANGED <<handled, blocked, route>>
    BY <1>5 DEF Receive, Known
  <2> QED
    BY <1>3, <1>4, <1>5, <2>1 DEF Receive, StoreInbound
<1>6. CASE DecisionPasses(d)
  BY <1>3, <1>4, <1>6 DEF DecisionPasses, StoreInbound, InFlight
<1>7. CASE DecisionFails(d)
  <2>1. /\ d \in InFlight /\ UNCHANGED <<seenIds, handled, blocked, route>>
    BY <1>7 DEF DecisionFails, InFlight
  <2>2. CASE route[d[1]] = "reply"
    BY <1>3, <1>4, <1>7, <2>1, <2>2 DEF DecisionFails, AfterError, StoreInbound
  <2>3. CASE route[d[1]] # "reply"
    <3>1. LoseDelivery(d, "decision") /\ route[d[1]] = "command"
      BY <1>7, <2>3 DEF DecisionFails, AfterError, InboundTypeInv
    <3> QED
      BY <1>4, <2>1, <3>1
  <2> QED
    BY <2>2, <2>3
<1>8. CASE GuardPasses(d)
  BY <1>3, <1>4, <1>8 DEF GuardPasses, InFlight
<1>9. CASE GuardBlocks(d)
  BY <1>9 DEF GuardBlocks, InFlight, Settled
<1> QED
  BY <1>1, <1>2, <1>5, <1>6, <1>7, <1>8, <1>9 DEF DeliveryStep

\* A message acts once.
LEMMA DeliveryOnce ==
  ASSUME InboundTypeInv, InboundTypeInv', OnceInv, NEW d \in Deliveries, DeliveryStep(d)
  PROVE  OnceInv'
<1> SUFFICES ASSUME remembers, crashes = 0
             PROVE  /\ \A m \in InboundIds :
                         /\ m \notin seenIds' => handled'[m] = 0 /\ m \notin rows'
                         /\ handled'[m] = 0 \/ (handled'[m] = 1 /\ m \notin rows')
                    /\ \A e \in InFlight' :
                         /\ e[1] \in seenIds' /\ handled'[e[1]] = 0 /\ e[1] \notin rows'
                         /\ \A f \in InFlight' : f[1] = e[1] => f = e
  BY DeliveryTypes DEF OnceInv
<1>1. /\ \A m \in InboundIds : /\ m \notin seenIds => handled[m] = 0 /\ m \notin rows
                               /\ handled[m] = 0 \/ (handled[m] = 1 /\ m \notin rows)
      /\ \A e \in InFlight : /\ e[1] \in seenIds /\ handled[e[1]] = 0 /\ e[1] \notin rows
                             /\ \A f \in InFlight : f[1] = e[1] => f = e
  BY DEF OnceInv
<1>2. d[1] \in InboundIds /\ delivery \in [Deliveries -> {"coming", "decision", "guard", "over"}]
  BY DeliveryIds DEF InboundTypeInv
<1>3. CASE Repeated(d) /\ delivery[d] = "coming" /\ delivery' = [delivery EXCEPT ![d] = "over"]
           /\ UNCHANGED <<seenIds, rows, handled>>
  <2>1. InFlight' = InFlight
    BY <1>2, <1>3 DEF InFlight
  <2> QED
    BY <1>1, <1>3, <2>1
<1>4. CASE ReceiveThrows(d)
  <2>1. PICK rest \in SUBSET {e \in Deliveries : delivery[e] = "coming"} :
          delivery' = [e \in Deliveries |-> IF e \in rest THEN "over" ELSE delivery[e]]
    BY <1>4 DEF ReceiveThrows
  <2>2. InFlight' = InFlight
    BY <1>2, <2>1 DEF InFlight
  <2>3. seenIds \subseteq seenIds' /\ UNCHANGED <<rows, handled>>
    BY <1>4 DEF ReceiveThrows, SeenAfter
  <2> QED
    BY <1>1, <2>2, <2>3
<1>5. CASE DecisionHandles(d)
  <2>1. /\ d \in InFlight /\ delivery' = [delivery EXCEPT ![d] = "over"]
        /\ handled' = [handled EXCEPT ![d[1]] = @ + 1]
        /\ UNCHANGED <<seenIds, rows>>
    BY <1>5 DEF DecisionHandles, InFlight
  <2>2. InFlight' = InFlight \ {d}
    BY <1>2, <2>1 DEF InFlight
  <2>3. /\ handled'[d[1]] = 1 /\ d[1] \notin rows /\ d[1] \in seenIds
        /\ \A m \in InboundIds : m # d[1] => handled'[m] = handled[m]
    BY <1>1, <1>2, <2>1 DEF InboundTypeInv
  <2>4. \A e \in InFlight' : e \in InFlight /\ e[1] # d[1] /\ e[1] \in InboundIds
    BY <1>1, <2>1, <2>2, DeliveryIds DEF InFlight
  <2> QED
    BY <1>1, <2>1, <2>3, <2>4
<1>6. CASE /\ \/ delivery[d] = "coming" /\ d[1] \notin seenIds /\ seenIds' = SeenAfter(d[1])
              \/ d \in InFlight /\ seenIds' = seenIds
           /\ handled' = handled
           /\ \/ delivery' \in {[delivery EXCEPT ![d] = "decision"], [delivery EXCEPT ![d] = "guard"]}
                 /\ rows' = rows
              \/ delivery' = [delivery EXCEPT ![d] = "over"] /\ rows' \in {rows, rows \cup {d[1]}}
  <2>1. seenIds' = seenIds \cup {d[1]}
    BY <1>1, <1>6 DEF SeenAfter
  <2>2. handled[d[1]] = 0 /\ d[1] \notin rows
    BY <1>1, <1>2, <1>6
  <2>3. \A e \in InFlight : e[1] = d[1] => e = d
    BY <1>1, <1>6 DEF InFlight
  <2>4. /\ \A e \in InFlight' : e \in InFlight \/ e = d
        /\ rows' = rows \/ (d \notin InFlight' /\ rows' = rows \cup {d[1]})
    BY <1>2, <1>6 DEF InFlight
  <2>5. \A e \in InFlight' : \A f \in InFlight' : f[1] = e[1] => f = e
    BY <1>1, <2>3, <2>4
  <2>6. \A e \in InFlight' : e[1] \in seenIds' /\ handled'[e[1]] = 0 /\ e[1] \notin rows'
    BY <1>1, <1>6, <2>1, <2>2, <2>3, <2>4
  <2>7. \A m \in InboundIds : /\ m \notin seenIds' => handled'[m] = 0 /\ m \notin rows'
                              /\ handled'[m] = 0 \/ (handled'[m] = 1 /\ m \notin rows')
    BY <1>1, <1>6, <2>1, <2>2, <2>4
  <2> QED
    BY <2>5, <2>6, <2>7
<1> QED
  BY <1>3, <1>4, <1>5, <1>6, DeliveryShape

\* What is settled stays settled.
LEMMA SettledStays ==
  ASSUME NEW m \in InboundIds, Settled(m), route' = route,
         rows \subseteq rows', blocked \subseteq blocked', faulted \subseteq faulted',
         handled[m] > 0 => handled'[m] > 0
  PROVE  Settled(m)'
BY DEF Settled

LEMMA DeliveryKept ==
  ASSUME InboundTypeInv, InboundTypeInv', KeptInv, NEW d \in Deliveries, DeliveryStep(d)
  PROVE  KeptInv'
<1> SUFFICES ASSUME NEW m \in InboundIds, Taken(m)' PROVE Settled(m)' \/ Pending(m)'
  BY DEF KeptInv
<1>0. /\ route' = route /\ delivery \in [Deliveries -> {"coming", "decision", "guard", "over"}]
      /\ Taken(m) => Settled(m) \/ Pending(m)
  BY DeliveryTypes DEF KeptInv, InboundTypeInv
<1>1. CASE /\ delivery[d] = "coming" /\ d[1] \in seenIds
           /\ delivery' = [delivery EXCEPT ![d] = "over"]
           /\ UNCHANGED <<seenIds, rows, handled, blocked, faulted>>
  <2>1. InFlight' = InFlight
    BY <1>0, <1>1 DEF InFlight
  <2>2. Taken(m)
    BY <1>0, <1>1 DEF Taken
  <2>3. Settled(m) => Settled(m)'
    BY <1>0, <1>1, SettledStays
  <2> QED
    BY <1>0, <2>1, <2>2, <2>3 DEF Pending
<1>2. CASE ReceiveThrows(d)
  <2>1. PICK rest \in SUBSET {e \in Deliveries : delivery[e] = "coming"} :
          /\ d \in rest
          /\ delivery' = [e \in Deliveries |-> IF e \in rest THEN "over" ELSE delivery[e]]
          /\ faulted' = faulted \cup {<<e[1], "receive">> : e \in rest}
    BY <1>2 DEF ReceiveThrows
  <2>2. /\ seenIds' \subseteq seenIds \cup {d[1]} /\ UNCHANGED <<rows, handled, blocked>>
    BY <1>2 DEF ReceiveThrows, SeenAfter
  <2>3. InFlight' = InFlight
    BY <1>0, <2>1 DEF InFlight
  <2>4. CASE \E e \in rest : e[1] = m
    <3>1. PICK e \in rest : e[1] = m
      BY <2>4
    <3>2. <<m, "receive">> \in faulted' /\ <<m, "receive">>[1] = m /\ <<m, "receive">>[2] = "receive"
      BY <2>1, <3>1
    <3> QED
      BY <3>2 DEF Settled
  <2>5. CASE \A e \in rest : e[1] # m
    <3>1. Taken(m)
      BY <1>0, <2>1, <2>2, <2>5 DEF Taken
    <3>2. Settled(m) => Settled(m)'
      BY <1>0, <2>1, <2>2, SettledStays
    <3> QED
      BY <1>0, <2>3, <3>1, <3>2 DEF Pending
  <2> QED
    BY <2>4, <2>5
<1>3. CASE DecisionHandles(d)
  <2>1. /\ d \in InFlight /\ delivery' = [delivery EXCEPT ![d] = "over"]
        /\ handled' = [handled EXCEPT ![d[1]] = @ + 1]
        /\ UNCHANGED <<seenIds, rows, blocked, faulted>>
    BY <1>3 DEF DecisionHandles, InFlight
  <2>2. /\ handled'[d[1]] > 0 /\ (handled[m] > 0 => handled'[m] > 0)
    BY <2>1, DeliveryIds DEF InboundTypeInv
  <2>3. CASE m = d[1]
    BY <2>2, <2>3 DEF Settled
  <2>4. CASE m # d[1]
    <3>1. Taken(m) /\ (Pending(m) => Pending(m)')
      BY <1>0, <2>1, <2>4 DEF Taken, Pending, InFlight
    <3>2. Settled(m) => Settled(m)'
      BY <1>0, <2>1, <2>2, SettledStays
    <3> QED
      BY <1>0, <3>1, <3>2
  <2> QED
    BY <2>3, <2>4
<1>4. ASSUME /\ seenIds' \subseteq seenIds \cup {d[1]}
             /\ handled' = handled
             /\ rows \subseteq rows' /\ blocked \subseteq blocked' /\ faulted \subseteq faulted'
             /\ \/ delivery' \in {[delivery EXCEPT ![d] = "decision"], [delivery EXCEPT ![d] = "guard"]}
                \/ delivery' = [delivery EXCEPT ![d] = "over"] /\ Settled(d[1])'
      PROVE  Settled(m)' \/ Pending(m)'
  <2>1. CASE m = d[1]
    BY <1>0, <1>4, <2>1 DEF Pending, InFlight
  <2>2. CASE m # d[1]
    <3>1. Taken(m) /\ (Pending(m) => Pending(m)')
      BY <1>0, <1>4, <2>2 DEF Taken, Pending, InFlight
    <3>2. Settled(m) => Settled(m)'
      BY <1>0, <1>4, SettledStays
    <3> QED
      BY <1>0, <3>1, <3>2
  <2> QED
    BY <2>1, <2>2
<1>5. SeenAfter(d[1]) \subseteq seenIds \cup {d[1]}
  BY DEF SeenAfter
<1> QED
  BY <1>1, <1>2, <1>3, <1>4, <1>5, DeliveryShape

\* A crash forgets deliveries and the channel's memory; what was on the way is lost
\* to the crash.
LEMMA CrashKept ==
  ASSUME InboundTypeInv, KeptInv, HostCrashes
  PROVE  KeptInv'
<1> SUFFICES ASSUME NEW m \in InboundIds, Taken(m)' PROVE Settled(m)'
  BY DEF KeptInv
<1>1. /\ delivery' = [d \in Deliveries |-> IF d \in InFlight THEN "over" ELSE delivery[d]]
      /\ faulted' = faulted \cup {<<d[1], "crash">> : d \in InFlight}
      /\ seenIds' = {}
      /\ UNCHANGED <<route, rows, handled, blocked>>
  BY DEF HostCrashes
<1>2. CASE Pending(m)
  <2>1. PICK d \in InFlight : d[1] = m
    BY <1>2 DEF Pending
  <2>2. <<m, "crash">> \in faulted' /\ <<m, "crash">>[1] = m /\ <<m, "crash">>[2] = "crash"
    BY <1>1, <2>1
  <2> QED
    BY <2>2 DEF Settled
<1>3. CASE ~Pending(m)
  <2>1. Taken(m)
    BY <1>1, <1>3 DEF Taken, Pending
  <2>2. Settled(m)
    BY <1>3, <2>1 DEF KeptInv
  <2> QED
    BY <1>1, <2>2, SettledStays
<1> QED
  BY <1>2, <1>3

LEMMA RunsKeepOthers ==
  ASSUME InboundTypeInv, OnceInv, KeptInv,
         PollPending \/ CheckStarts \/ RunSettles \/ RunRollsBack \/ HostCrashes
  PROVE  OnceInv' /\ KeptInv'
<1>1. CASE UNCHANGED <<route, remembers, delivery, seenIds, rows, crashes, handled, blocked, faulted>>
  BY <1>1 DEF OnceInv, KeptInv, InFlight, Taken, Settled, Pending
<1>2. CASE HostCrashes
  <2>1. crashes' # 0
    BY <1>2 DEF HostCrashes, InboundTypeInv
  <2> QED
    BY <1>2, <2>1, CrashKept DEF OnceInv
<1> QED
  BY <1>1, <1>2 DEF PollPending, CheckStarts, RunSettles, RunRollsBack

LEMMA InitInbound == InboundInit => InboundInv
<1> SUFFICES ASSUME InboundInit PROVE InboundInv
  OBVIOUS
<1>1. InboundTypeInv
  BY InboundAssumption DEF InboundInit, InboundTypeInv
<1>2. CursorInv
  BY DEF InboundInit, CursorInv, StoredIsNoticed, PassedOverOnlyLate, Running
<1>3. OnceInv /\ KeptInv
  BY DEF InboundInit, OnceInv, KeptInv, InFlight, Taken
<1> QED
  BY <1>1, <1>2, <1>3 DEF InboundInv

LEMMA NextInbound == InboundInv /\ [InboundNext]_inboundVars => InboundInv'
<1> SUFFICES ASSUME InboundInv, [InboundNext]_inboundVars PROVE InboundInv'
  OBVIOUS
<1> USE DEF InboundInv
<1>1. ASSUME NEW d \in Deliveries, DeliveryStep(d)
      PROVE  InboundInv'
  <2>1. InboundTypeInv'
    BY <1>1, DeliveryTypes
  <2> QED
    BY <1>1, <2>1, StoreCursors, DeliveryOnce, DeliveryKept
<1>2. CASE PollPending \/ CheckStarts \/ RunSettles \/ RunRollsBack \/ HostCrashes
  BY <1>2, RunTypes, PollCursors, RunCursors, RunsKeepOthers
<1>3. CASE UNCHANGED inboundVars
  <2>1. InboundTypeInv'
    BY <1>3 DEF inboundVars, InboundTypeInv
  <2>2. CursorInv'
    BY <1>3 DEF inboundVars, CursorInv, StoredIsNoticed, PassedOverOnlyLate, Running
  <2>3. OnceInv' /\ KeptInv'
    BY <1>3 DEF inboundVars, OnceInv, KeptInv, InFlight, Taken, Settled, Pending
  <2> QED
    BY <2>1, <2>2, <2>3
<1> QED
  BY <1>1, <1>2, <1>3 DEF InboundNext, DeliveryStep

LEMMA InboundInvCorrect == InboundInv => InboundCorrect
<1> SUFFICES ASSUME InboundInv PROVE InboundCorrect
  OBVIOUS
<1>1. StoredIsNoticed /\ PassedOverOnlyLate
  BY DEF InboundInv, CursorInv
<1>2. ActsOnce
  <2> SUFFICES ASSUME remembers, crashes = 0, NEW m \in InboundIds
               PROVE  handled[m] + (IF m \in rows THEN 1 ELSE 0) <= 1
    BY DEF ActsOnce
  <2>1. handled[m] = 0 \/ (handled[m] = 1 /\ m \notin rows)
    BY DEF InboundInv, OnceInv
  <2> QED
    BY <2>1
<1>3. NothingVanishes
  <2> SUFFICES ASSUME NEW m \in InboundIds, \A k \in InboundCopies : delivery[<<m, k>>] = "over"
               PROVE  Settled(m)
    BY DEF NothingVanishes, Settled
  <2>1. \A d \in Deliveries : d[1] = m => delivery[d] = "over"
    BY DEF Deliveries
  <2>2. PICK k : k \in InboundCopies
    BY InboundAssumption
  <2>3. <<m, k>> \in Deliveries /\ <<m, k>>[1] = m
    BY <2>2 DEF Deliveries
  <2>4. Taken(m) /\ ~Pending(m)
    BY <2>1, <2>3 DEF Taken, Pending, InFlight
  <2> QED
    BY <2>4 DEF InboundInv, KeptInv
<1> QED
  BY <1>1, <1>2, <1>3 DEF InboundCorrect

\* For any number of messages, repeated deliveries and crashes: a stored message that
\* no run was given is noticed or came late, a command or answer is carried out once
\* by a channel that remembers, and no message disappears without a reason.
THEOREM MessagesAreCorrect == ChannelsSpec => []MessagesCorrect
<1>1. InboundInv => MessagesCorrect
  BY InboundInvCorrect DEF MessagesCorrect
<1>2. ChannelsInit => InboundInv
  BY InitInbound DEF ChannelsInit
<1>3. InboundInv /\ [ChannelsNext]_<<part, smsVars, slackVars, inboundVars, remoteVars>> => InboundInv'
  BY NextInbound DEF ChannelsNext
<1> QED
  BY <1>1, <1>2, <1>3, PTL DEF ChannelsSpec

-----------------------------------------------------------------------------
(* The Slack channel *)

Stages == {"unused", "asking", "dialing", "open", "closing", "over"}
Callers == {"startup", "timer", "nobody"} \cup AdminCalls
Underway == {"asking", "dialing", "open", "closing"}
ListedNow(i) == \E n \in DOMAIN channels : channels[n] = i
Begun(c) == request[c] \in {"activating", "enabling"}
Asked(a) == caller[a] \in {"startup"} \cup AdminCalls

SlackTypeInv ==
  /\ channels \in Seq(Instances)
  /\ made \in Instances
  /\ halted \in [Instances -> BOOLEAN]
  /\ online \in [Instances -> BOOLEAN]
  /\ rearmed \in [Instances -> BOOLEAN]
  /\ socket \in [Instances -> Attempts \cup {NoAttempt}]
  /\ stage \in [Attempts -> Stages]
  /\ owner \in [Attempts -> Instances \cup {NoInstance}]
  /\ caller \in [Attempts -> Callers]
  /\ request \in [AdminCalls -> {"new", "activating", "enabling", "over"}]

\* Whose an attempt is, and who waits for it.  An instance is listed only when the
\* startup or the request that waits for it succeeds, so nothing that is waited for
\* is listed yet or was stopped.
CallersInv ==
  /\ \A a \in Attempts :
       /\ stage[a] = "unused" => owner[a] = NoInstance
       /\ stage[a] # "unused" => owner[a] \in Instances /\ owner[a] <= made
       /\ stage[a] \in {"unused", "open", "over"} => caller[a] = "nobody"
       /\ stage[a] \in {"asking", "dialing"} => caller[a] # "nobody"
       /\ caller[a] = "startup" => owner[a] = 1 /\ startup = "connecting"
       /\ caller[a] \in AdminCalls
            => owner[a] # 1 /\ Begun(caller[a])
       /\ Asked(a) => ~ListedNow(owner[a]) /\ ~halted[owner[a]]
  /\ \A a, b \in Attempts :
       Asked(a) /\ Asked(b) /\ (owner[a] = owner[b] \/ caller[a] = caller[b]) => a = b
  /\ startup # "over" => ~ListedNow(1) /\ ~halted[1]
  /\ \A i \in Instances : i > made => ~halted[i] /\ ~rearmed[i] /\ ~ListedNow(i)

LivelyInv ==
  /\ NeverGivesUp
  /\ HaltHolds
  /\ \A i \in Instances : online[i] => \E a \in Of(i) : stage[a] \in {"open", "closing"}

\* As long as nothing got out of hand: each instance has one attempt under way or an
\* armed timer, one instance of all is lively, and the startup and the requests
\* follow one another.
OrderInv ==
  loose = {} =>
    /\ \A a, b \in Attempts :
         stage[a] \in Underway /\ stage[b] \in Underway /\ owner[a] = owner[b] => a = b
    /\ \A a \in Attempts : stage[a] \in Underway => ~rearmed[owner[a]]
    /\ \A a \in Attempts : stage[a] = "open" => online[owner[a]]
    /\ \A i, j \in Instances : Lively(i) /\ Lively(j) => i = j
    /\ \A i \in Instances : Lively(i) => channels = <<i>> \/ Awaited(i)
    /\ ~enabled => ~Busy /\ \A i \in Instances : ~Lively(i)
    /\ Len(channels) <= 1 /\ (startup # "over" => channels = <<>>)
    /\ \A c, d \in AdminCalls : Begun(c) /\ Begun(d) => c = d
    /\ startup # "over" => \A c \in AdminCalls : ~Begun(c)

SlackInv == SlackTypeInv /\ CallersInv /\ LivelyInv /\ OrderInv

\* The attempt that a call of connect() takes.
LEMMA StartFacts ==
  ASSUME SlackTypeInv, NEW i, NEW w, NEW now, StartAttempt(i, w, now)
  PROVE  \E a \in Attempts : /\ stage[a] = "unused"
                             /\ stage' = [now EXCEPT ![a] = "asking"]
                             /\ owner' = [owner EXCEPT ![a] = i]
                             /\ caller' = [caller EXCEPT ![a] = w]
<1>1. UnusedAttempts \in SUBSET Nat /\ UnusedAttempts # {}
  BY SlackAssumption DEF UnusedAttempts, StartAttempt
<1>2. Min(UnusedAttempts) \in UnusedAttempts
  BY <1>1, MinFacts
<1> QED
  BY <1>2 DEF StartAttempt, UnusedAttempts

LEMMA OneIsNumber == 1 \in Instances /\ Instances \subseteq Nat /\ NoInstance \notin Instances
BY SlackAssumption DEF NoInstance

\* What the list holds after an attempt succeeded, and after its first was stopped.
LEMMA ListedAfter ==
  ASSUME SlackTypeInv, NEW a \in Attempts, owner[a] \in Instances, channels' = Listed(a)
  PROVE  /\ channels' \in Seq(Instances)
         /\ \A i : ListedNow(i)' => ListedNow(i) \/ i = owner[a]
         /\ Asked(a) /\ Len(channels) <= 1 => channels' = <<owner[a]>> \/ caller[a] = "startup"
         /\ ~Asked(a) => channels' = channels
         /\ caller[a] = "startup" /\ channels = <<>> => channels' = <<owner[a]>>
<1>1. CASE caller[a] \in {"timer", "nobody"}
  BY <1>1, SlackAssumption DEF Listed, SlackTypeInv, ListedNow, Asked
<1>2. CASE caller[a] = "startup" \/ (caller[a] \in AdminCalls /\ channels = <<>>)
  <2>1. channels' = Append(channels, owner[a])
    BY <1>2, SlackAssumption DEF Listed
  <2>2. channels \in Seq(Instances)
    BY DEF SlackTypeInv
  <2>3. channels' \in Seq(Instances) /\ \A i : ListedNow(i)' => ListedNow(i) \/ i = owner[a]
    BY <2>1, <2>2 DEF ListedNow
  <2>4. channels = <<>> => channels' = <<owner[a]>>
    BY <2>1
  <2> QED
    BY <1>2, <2>3, <2>4 DEF Asked
<1>3. CASE caller[a] \in AdminCalls /\ channels # <<>>
  <2>1. channels' = [channels EXCEPT ![1] = owner[a]]
    BY <1>3, SlackAssumption DEF Listed
  <2>2. channels \in Seq(Instances)
    BY DEF SlackTypeInv
  <2>3. channels' \in Seq(Instances) /\ Len(channels') = Len(channels) /\ channels'[1] = owner[a]
    BY <1>3, <2>1, <2>2
  <2>4. \A i : ListedNow(i)' => ListedNow(i) \/ i = owner[a]
    BY <2>1, <2>2 DEF ListedNow
  <2>5. Len(channels) <= 1 => channels' = <<owner[a]>>
    <3> SUFFICES ASSUME Len(channels) <= 1 PROVE channels' = <<owner[a]>>
      OBVIOUS
    <3>0. Len(channels) \in Nat /\ Len(channels) >= 1
      BY <1>3 DEF SlackTypeInv
    <3>1. Len(channels) = 1
      BY <3>0, SMTT(30)
    <3>2. channels' \in Seq(Instances) /\ Len(channels') = 1 /\ channels'[1] = owner[a]
      BY <2>3, <3>1
    <3> QED
      BY <3>2
  <2> QED
    BY <1>3, <2>3, <2>4, <2>5, SlackAssumption DEF Asked
<1> QED
  BY <1>1, <1>2, <1>3 DEF SlackTypeInv, Callers

LEMMA HeadListed ==
  ASSUME SlackTypeInv, channels # <<>>
  PROVE  /\ Head(channels) \in Instances /\ ListedNow(Head(channels))
         /\ Tail(channels) \in Seq(Instances)
         /\ \A i : (\E n \in DOMAIN Tail(channels) : Tail(channels)[n] = i) => ListedNow(i)
         /\ Len(channels) <= 1 => channels = <<Head(channels)>> /\ Tail(channels) = <<>>
<1>1. channels \in Seq(Instances) /\ Len(channels) \in Nat /\ Len(channels) >= 1
  BY DEF SlackTypeInv
<1>2. Head(channels) = channels[1] /\ 1 \in DOMAIN channels
  BY <1>1
<1>3. /\ Tail(channels) \in Seq(Instances) /\ Len(Tail(channels)) = Len(channels) - 1
      /\ \A n \in 1..(Len(channels) - 1) : Tail(channels)[n] = channels[n + 1]
  BY <1>1
<1>4. ASSUME NEW n \in DOMAIN Tail(channels)
      PROVE  Tail(channels)[n] = channels[n + 1] /\ n + 1 \in DOMAIN channels
  BY <1>1, <1>3
<1>5. Len(channels) <= 1 => channels = <<Head(channels)>> /\ Tail(channels) = <<>>
  BY <1>1, <1>2, <1>3
<1> QED
  BY <1>1, <1>2, <1>3, <1>4, <1>5 DEF ListedNow

\* A failing attempt's caller.
LEMMA FailsFacts ==
  ASSUME SlackTypeInv, NEW a \in Attempts, owner[a] \in Instances,
         NEW fromClose \in BOOLEAN, FailsCaller(a, fromClose)
  PROVE  /\ rearmed' = [rearmed EXCEPT ![owner[a]] = @ \/ ArmsTimer(a, fromClose)]
         /\ rearmed' \in [Instances -> BOOLEAN]
         /\ request' = [c \in AdminCalls |-> IF caller[a] = c THEN "over" ELSE request[c]]
         /\ request' \in [AdminCalls -> {"new", "activating", "enabling", "over"}]
         /\ caller' = [caller EXCEPT ![a] = "nobody"]
         /\ IF caller[a] = "startup" THEN startup' \in {"waiting", "over"} ELSE startup' = startup
         /\ enabled' = (enabled /\ \A c \in AdminCalls : caller[a] = c => request[c] # "enabling")
         /\ loose \subseteq loose'
         /\ caller[a] = "startup" /\ startup' = "over" /\ rearmed'[owner[a]] => loose' # {}
         /\ caller[a] \in AdminCalls /\ rearmed'[owner[a]] => loose' # {}
<1>1. ArmsTimer(a, fromClose) \in BOOLEAN
  BY DEF ArmsTimer, SlackTypeInv
<1>2. /\ rearmed' = [rearmed EXCEPT ![owner[a]] = @ \/ ArmsTimer(a, fromClose)]
      /\ rearmed' \in [Instances -> BOOLEAN]
  BY <1>1 DEF FailsCaller, SlackTypeInv
<1>3. /\ request' = [c \in AdminCalls |-> IF caller[a] = c THEN "over" ELSE request[c]]
      /\ request' \in [AdminCalls -> {"new", "activating", "enabling", "over"}]
  BY DEF FailsCaller, SlackTypeInv
<1>4. /\ loose \subseteq loose'
      /\ caller[a] = "startup" /\ startup' = "over" /\ rearmed'[owner[a]] => "abandoned" \in loose'
      /\ caller[a] \in AdminCalls /\ rearmed'[owner[a]] => "failed" \in loose'
  BY SlackAssumption DEF FailsCaller
<1> QED
  BY <1>2, <1>3, <1>4 DEF FailsCaller

SlackBase == SlackTypeInv /\ CallersInv


\* An attempt goes on and its caller, if any, waits.
LEMMA StageBase ==
  ASSUME SlackBase, NEW a \in Attempts, stage[a] # "unused",
         NEW x \in {"dialing", "closing"}, x = "dialing" => caller[a] # "nobody",
         stage' = [stage EXCEPT ![a] = x], socket' \in [Instances -> Attempts \cup {NoAttempt}],
         UNCHANGED <<owner, caller, request, startup, channels, made, halted, rearmed, online>>
  PROVE  SlackBase'
<1>1. stage' \in [Attempts -> Stages] /\ stage'[a] = x
      /\ \A b \in Attempts : b # a => stage'[b] = stage[b]
  BY DEF SlackBase, SlackTypeInv, Stages
<1>2. SlackTypeInv'
  BY <1>1 DEF SlackBase, SlackTypeInv
<1>3. CallersInv'
  BY <1>1 DEF SlackBase, CallersInv, Asked, Begun, ListedNow
<1> QED
  BY <1>2, <1>3 DEF SlackBase

\* An attempt succeeds or ends, and who waited for it does not any more.
LEMMA EndBase ==
  ASSUME SlackBase, NEW a \in Attempts, stage[a] # "unused",
         NEW x \in {"open", "over"}, stage' = [stage EXCEPT ![a] = x],
         UNCHANGED <<owner, made, halted>>,
         channels' \in Seq(Instances),
         \A i \in Instances : ListedNow(i)' => ListedNow(i) \/ (i = owner[a] /\ Asked(a)),
         rearmed' \in [Instances -> BOOLEAN],
         \A i \in Instances : i > made => ~rearmed'[i],
         online' \in [Instances -> BOOLEAN],
         socket' \in [Instances -> Attempts \cup {NoAttempt}],
         caller' = [caller EXCEPT ![a] = "nobody"],
         request' = [c \in AdminCalls |-> IF caller[a] = c THEN "over" ELSE request[c]],
         IF caller[a] = "startup" THEN startup' \in {"waiting", "over"} ELSE startup' = startup,
         ListedNow(1)' /\ caller[a] = "startup" => startup' = "over"
  PROVE  SlackBase'
<1> USE DEF SlackBase
<1>1. SlackTypeInv'
  <2>1. stage' \in [Attempts -> Stages]
    BY DEF SlackTypeInv, Stages
  <2>2. caller' \in [Attempts -> Callers]
    BY DEF SlackTypeInv, Callers
  <2>3. request' \in [AdminCalls -> {"new", "activating", "enabling", "over"}]
    BY DEF SlackTypeInv
  <2> QED
    BY <2>1, <2>2, <2>3 DEF SlackTypeInv
<1>2. /\ stage'[a] = x /\ caller'[a] = "nobody"
      /\ \A b \in Attempts : b # a => stage'[b] = stage[b] /\ caller'[b] = caller[b]
  BY DEF SlackTypeInv
<1>3. ~Asked(a)' /\ \A b \in Attempts : Asked(b)' => b # a /\ Asked(b)
  BY <1>2, SlackAssumption DEF Asked
<1>4. ASSUME NEW b \in Attempts, Asked(b), b # a
      PROVE  caller[b] # caller[a] /\ (Asked(a) => owner[b] # owner[a])
  BY <1>4 DEF CallersInv, Asked
<1>5. ASSUME NEW b \in Attempts
      PROVE  /\ stage'[b] = "unused" => owner[b] = NoInstance
             /\ stage'[b] # "unused" => owner[b] \in Instances /\ owner[b] <= made
             /\ stage'[b] \in {"unused", "open", "over"} => caller'[b] = "nobody"
             /\ stage'[b] \in {"asking", "dialing"} => caller'[b] # "nobody"
  BY <1>2 DEF CallersInv
<1>6. ASSUME NEW b \in Attempts, b # a
      PROVE  /\ caller[b] = "startup" => owner[b] = 1 /\ startup' = "connecting"
             /\ caller[b] \in AdminCalls => owner[b] # 1 /\ Begun(caller[b])'
  <2>1. CASE caller[b] = "startup"
    <3>1. caller[a] # "startup"
      BY <1>4, <1>6, <2>1 DEF Asked
    <3> QED
      BY <2>1, <3>1, SlackAssumption DEF CallersInv
  <2>2. CASE caller[b] \in AdminCalls
    <3>1. caller[a] # caller[b]
      BY <1>4, <1>6, <2>2 DEF Asked
    <3> QED
      BY <2>2, <3>1, SlackAssumption DEF CallersInv, Begun
  <2> QED
    BY <2>1, <2>2
<1>7. ASSUME NEW b \in Attempts, Asked(b), b # a
      PROVE  ~ListedNow(owner[b])' /\ ~halted[owner[b]]
  <2>1. owner[b] \in Instances /\ ~ListedNow(owner[b]) /\ ~halted[owner[b]]
    BY <1>7, SlackAssumption DEF CallersInv, Asked
  <2>2. ListedNow(owner[b])' => ListedNow(owner[b]) \/ (owner[b] = owner[a] /\ Asked(a))
    <3>1. PICK i \in Instances : i = owner[b]
      BY <2>1
    <3>2. ListedNow(i)' => ListedNow(i) \/ (i = owner[a] /\ Asked(a))
      BY <3>1
    <3> QED
      BY <3>1, <3>2 DEF ListedNow
  <2> QED
    BY <1>4, <1>7, <2>1, <2>2
<1>8. startup' # "over" => ~ListedNow(1)' /\ ~halted[1]
  <2>1. ListedNow(1)' => ListedNow(1) \/ (1 = owner[a] /\ Asked(a))
    BY OneIsNumber
  <2>2. Asked(a) /\ owner[a] = 1 => caller[a] = "startup"
    BY DEF CallersInv, Asked
  <2>3. caller[a] = "startup" => startup = "connecting"
    BY DEF CallersInv
  <2> QED
    BY <2>1, <2>2, <2>3 DEF CallersInv
<1>9. \A i \in Instances : i > made => ~halted[i] /\ ~rearmed'[i] /\ ~ListedNow(i)'
  <2>1. owner[a] \in Instances /\ owner[a] <= made /\ made \in Nat
    BY OneIsNumber DEF CallersInv, SlackTypeInv
  <2> QED
    BY <2>1, OneIsNumber DEF CallersInv
<1>10. CallersInv'
  <2>1. \A b, c \in Attempts :
          Asked(b)' /\ Asked(c)' /\ (owner'[b] = owner'[c] \/ caller'[b] = caller'[c]) => b = c
    BY <1>2, <1>3 DEF CallersInv
  <2>2. \A b \in Attempts :
          /\ caller'[b] = "startup" => owner[b] = 1 /\ startup' = "connecting"
          /\ caller'[b] \in AdminCalls => owner[b] # 1 /\ Begun(caller[b])'
    <3> SUFFICES ASSUME NEW b \in Attempts, b # a, caller'[b] = caller[b]
                 PROVE  /\ caller'[b] = "startup" => owner[b] = 1 /\ startup' = "connecting"
                        /\ caller'[b] \in AdminCalls => owner[b] # 1 /\ Begun(caller[b])'
      BY <1>2, SlackAssumption
    <3> QED
      BY <1>6 DEF Begun
  <2>3. \A b \in Attempts : Asked(b)' => ~ListedNow(owner[b])' /\ ~halted'[owner'[b]]
    BY <1>3, <1>7 DEF ListedNow
  <2> QED
    BY <1>5, <1>8, <1>9, <2>1, <2>2, <2>3 DEF CallersInv
<1> QED
  BY <1>1, <1>10

\* connect() takes an attempt that was not used, for who calls it.  A stop may come
\* first (reconnecting): it closes a socket, and halts what was listed.
LEMMA StartBase ==
  ASSUME SlackBase, NEW a \in Attempts, stage[a] = "unused",
         NEW i \in Instances, NEW w \in {"startup", "timer"} \cup AdminCalls,
         stage' \in [Attempts -> Stages], stage'[a] = "asking",
         \A b \in Attempts : b # a => \/ stage'[b] = stage[b]
                                      \/ stage'[b] = "closing" /\ stage[b] \in {"dialing", "open"},
         owner' = [owner EXCEPT ![a] = i], caller' = [caller EXCEPT ![a] = w],
         channels' = channels,
         halted' \in [Instances -> BOOLEAN], rearmed' \in [Instances -> BOOLEAN],
         \A j \in Instances : /\ halted'[j] => halted[j] \/ ListedNow(j)
                              /\ rearmed'[j] => rearmed[j],
         online' \in [Instances -> BOOLEAN],
         socket' \in [Instances -> Attempts \cup {NoAttempt}],
         \/ w = "timer" /\ i <= made /\ UNCHANGED <<made, startup, request>>
         \/ w = "startup" /\ i = 1 /\ startup = "waiting" /\ startup' = "connecting"
              /\ UNCHANGED <<made, request>>
         \/ w \in AdminCalls /\ request[w] = "new" /\ i = made + 1 /\ made' = i
              /\ startup' = startup
              /\ request' \in {[request EXCEPT ![w] = "activating"],
                               [request EXCEPT ![w] = "enabling"]}
  PROVE  SlackBase'
<1> USE DEF SlackBase
<1>0. made \in Instances /\ made \in Nat /\ made >= 1 /\ made' \in Instances /\ i <= made'
      /\ made <= made' /\ i \in Nat /\ made' \in Nat
  BY SlackAssumption DEF SlackTypeInv
<1>1. SlackTypeInv'
  <2>1. owner' \in [Attempts -> Instances \cup {NoInstance}] /\ caller' \in [Attempts -> Callers]
    BY DEF SlackTypeInv, Callers
  <2>2. request' \in [AdminCalls -> {"new", "activating", "enabling", "over"}]
    BY DEF SlackTypeInv
  <2> QED
    BY <1>0, <2>1, <2>2 DEF SlackTypeInv
<1>2. /\ owner'[a] = i /\ caller'[a] = w
      /\ \A b \in Attempts : b # a => owner'[b] = owner[b] /\ caller'[b] = caller[b]
  BY DEF SlackTypeInv
<1>3. \A j : ListedNow(j)' <=> ListedNow(j)
  BY DEF ListedNow
<1>4. \A b \in Attempts : b # a => (Asked(b)' <=> Asked(b))
  BY <1>2 DEF Asked
<1>5. ASSUME NEW b \in Attempts
      PROVE  /\ stage'[b] = "unused" => owner'[b] = NoInstance
             /\ stage'[b] # "unused" => owner'[b] \in Instances /\ owner'[b] <= made'
             /\ stage'[b] \in {"unused", "over"} => caller'[b] = "nobody"
             /\ stage'[b] = "open" => caller'[b] = "nobody"
             /\ stage'[b] \in {"asking", "dialing"} => caller'[b] # "nobody"
  <2>1. CASE b = a
    BY <1>0, <1>2, <2>1, SlackAssumption
  <2>2. CASE b # a
    <3>1. stage[b] # "unused" => owner[b] \in Instances /\ owner[b] <= made
      BY DEF CallersInv
    <3>2. owner[b] \in Instances => owner[b] \in Nat
      BY OneIsNumber
    <3> QED
      BY <1>0, <1>2, <2>2, <3>1, <3>2 DEF CallersInv
  <2> QED
    BY <2>1, <2>2
<1>6. ASSUME NEW b \in Attempts, b # a
      PROVE  /\ caller[b] = "startup" => owner[b] = 1 /\ startup' = "connecting"
             /\ caller[b] \in AdminCalls => owner[b] # 1 /\ Begun(caller[b]) /\ request'[caller[b]] = request[caller[b]]
  BY <1>6, SlackAssumption DEF CallersInv, Begun, SlackTypeInv
<1>7. ASSUME NEW b \in Attempts, b # a, Asked(b)
      PROVE  /\ ~ListedNow(owner[b]) /\ ~halted'[owner[b]]
             /\ Asked(a)' => owner[b] # i /\ caller[b] # w
  <2>1. owner[b] \in Instances /\ ~ListedNow(owner[b]) /\ ~halted[owner[b]] /\ owner[b] <= made
    BY <1>7, SlackAssumption DEF CallersInv, Asked
  <2>2. owner[b] \in Nat
    BY <2>1, OneIsNumber
  <2>3. Asked(a)' => owner[b] # i /\ caller[b] # w
    <3>1. CASE w = "timer"
      BY <1>2, <3>1, SlackAssumption DEF Asked
    <3>2. CASE w = "startup"
      BY <1>6, <1>7, <3>2, SlackAssumption DEF Asked, CallersInv
    <3>3. CASE w \in AdminCalls
      <4>1. i = made + 1 /\ request[w] = "new"
        BY <3>3, SlackAssumption
      <4>2. owner[b] # i
        BY <1>0, <2>1, <2>2, <4>1
      <4>3. caller[b] # w
        BY <1>6, <1>7, <3>3, <4>1 DEF Begun
      <4> QED
        BY <4>2, <4>3
    <3> QED
      BY <3>1, <3>2, <3>3
  <2> QED
    BY <2>1, <2>3
<1>8. startup' # "over" => ~ListedNow(1) /\ ~halted'[1]
  <2>1. startup # "over" => ~ListedNow(1) /\ ~halted[1]
    BY DEF CallersInv
  <2>2. startup' # "over" => startup # "over"
    OBVIOUS
  <2> QED
    BY <2>1, <2>2, OneIsNumber
<1>9. \A j \in Instances : j > made' => ~halted'[j] /\ ~rearmed'[j] /\ ~ListedNow(j)
  <2>1. \A j \in Instances : j \in Nat /\ (j > made' => j > made)
    BY <1>0, OneIsNumber
  <2> QED
    BY <2>1 DEF CallersInv
<1>10. Asked(a)' => ~ListedNow(i) /\ ~halted'[i]
  <2>1. CASE w = "timer"
    BY <1>2, <2>1, SlackAssumption DEF Asked
  <2>2. CASE w = "startup"
    BY <1>8, <2>2, SlackAssumption
  <2>3. CASE w \in AdminCalls
    <3>1. i > made
      BY <1>0, <2>3, SlackAssumption
    <3> QED
      BY <3>1 DEF CallersInv
  <2> QED
    BY <2>1, <2>2, <2>3
<1>11. /\ w = "startup" => i = 1 /\ startup' = "connecting"
       /\ w \in AdminCalls => i # 1 /\ request'[w] \in {"activating", "enabling"}
  BY <1>0, SlackAssumption DEF SlackTypeInv
<1>12. CallersInv'
  <2>1. \A b, c \in Attempts :
          Asked(b)' /\ Asked(c)' /\ (owner'[b] = owner'[c] \/ caller'[b] = caller'[c]) => b = c
    <3> SUFFICES ASSUME NEW b \in Attempts, NEW c \in Attempts, Asked(b)', Asked(c)',
                        owner'[b] = owner'[c] \/ caller'[b] = caller'[c], b # c
                 PROVE  FALSE
      OBVIOUS
    <3>1. CASE b = a
      BY <1>2, <1>4, <1>7, <3>1
    <3>2. CASE c = a
      BY <1>2, <1>4, <1>7, <3>2
    <3>3. CASE b # a /\ c # a
      BY <1>2, <1>4, <3>3 DEF CallersInv
    <3> QED
      BY <3>1, <3>2, <3>3
  <2>2. \A b \in Attempts :
          /\ caller'[b] = "startup" => owner'[b] = 1 /\ startup' = "connecting"
          /\ caller'[b] \in AdminCalls => owner'[b] # 1 /\ request'[caller'[b]] \in {"activating", "enabling"}
    BY <1>2, <1>6, <1>11 DEF Begun
  <2>3. \A b \in Attempts : Asked(b)' => ~ListedNow(owner'[b]) /\ ~halted'[owner'[b]]
    BY <1>2, <1>4, <1>7, <1>10
  <2>4. \A j : ListedNow(j)' = ListedNow(j)
    BY DEF ListedNow
  <2> QED
    BY <1>5, <1>8, <1>9, <2>1, <2>2, <2>3, <2>4 DEF CallersInv, Begun, ListedNow
<1> QED
  BY <1>1, <1>12

\* disconnect() of the first instance of the list, and requests that are over at once.
LEMMA StopBase ==
  ASSUME SlackBase,
         stage' \in [Attempts -> Stages],
         \A b \in Attempts : \/ stage'[b] = stage[b]
                             \/ stage'[b] = "closing" /\ stage[b] \in {"dialing", "open"},
         channels' \in Seq(Instances), \A j : ListedNow(j)' => ListedNow(j),
         halted' \in [Instances -> BOOLEAN], rearmed' \in [Instances -> BOOLEAN],
         \A j \in Instances : /\ halted'[j] => halted[j] \/ ListedNow(j)
                              /\ rearmed'[j] => rearmed[j],
         online' \in [Instances -> BOOLEAN],
         socket' \in [Instances -> Attempts \cup {NoAttempt}],
         NEW c \in AdminCalls, request[c] = "new", request' = [request EXCEPT ![c] = "over"],
         UNCHANGED <<made, owner, caller, startup>>
  PROVE  SlackBase'
<1> USE DEF SlackBase
<1>1. SlackTypeInv'
  BY DEF SlackTypeInv
<1>2. \A b \in Attempts : caller[b] \in AdminCalls => request'[caller[b]] = request[caller[b]]
  BY DEF CallersInv, Begun, SlackTypeInv
<1>3. \A b \in Attempts : stage'[b] # stage[b] => stage'[b] = "closing" /\ stage[b] # "unused"
  OBVIOUS
<1>4. \A b \in Attempts :
        /\ Asked(b)' <=> Asked(b)
        /\ Asked(b) => ~ListedNow(owner[b])' /\ ~halted'[owner[b]]
  <2>1. ASSUME NEW b \in Attempts, Asked(b) PROVE ~ListedNow(owner[b])' /\ ~halted'[owner[b]]
    <3>1. owner[b] \in Instances /\ ~ListedNow(owner[b]) /\ ~halted[owner[b]]
      BY <2>1, SlackAssumption DEF CallersInv, Asked
    <3>2. PICK j \in Instances : j = owner[b]
      BY <3>1
    <3>3. ~ListedNow(j)' /\ ~halted'[j]
      BY <3>1, <3>2
    <3> QED
      BY <3>2, <3>3 DEF ListedNow
  <2> QED
    BY <2>1 DEF Asked
<1>5. /\ startup # "over" => ~ListedNow(1)' /\ ~halted'[1]
      /\ \A j \in Instances : j > made => ~halted'[j] /\ ~rearmed'[j] /\ ~ListedNow(j)'
  BY OneIsNumber DEF CallersInv
<1>6. \A b \in Attempts :
        /\ stage'[b] = "unused" => owner[b] = NoInstance
        /\ stage'[b] # "unused" => owner[b] \in Instances /\ owner[b] <= made
        /\ stage'[b] \in {"unused", "open", "over"} => caller[b] = "nobody"
        /\ stage'[b] \in {"asking", "dialing"} => caller[b] # "nobody"
        /\ caller[b] = "startup" => owner[b] = 1 /\ startup = "connecting"
        /\ caller[b] \in AdminCalls => owner[b] # 1 /\ request'[caller[b]] \in {"activating", "enabling"}
  BY <1>2, <1>3 DEF CallersInv, Begun
<1>7. \A b, d \in Attempts :
        Asked(b) /\ Asked(d) /\ (owner[b] = owner[d] \/ caller[b] = caller[d]) => b = d
  BY DEF CallersInv
<1>8. CallersInv'
  BY <1>4, <1>5, <1>6, <1>7 DEF CallersInv, Begun
<1> QED
  BY <1>1, <1>8

\* The steps in which an attempt goes on and nobody is told.
LEMMA QuietOrder ==
  ASSUME SlackInv, SlackBase',
         UNCHANGED <<owner, caller, request, startup, channels, made, halted, rearmed, online,
                     enabled, loose>>,
         \A b \in Attempts : /\ stage'[b] \in Underway <=> stage[b] \in Underway
                             /\ stage'[b] = "open" => stage[b] = "open"
                             /\ stage[b] = "open" => stage'[b] \in {"open", "closing"}
                             /\ stage[b] = "closing" => stage'[b] = "closing"
                             /\ stage'[b] \in {"asking", "dialing"} <=> stage[b] \in {"asking", "dialing"} /\ stage'[b] # "closing"
                             /\ stage'[b] = "closing" => stage[b] \in {"dialing", "open", "closing"}
  PROVE  SlackInv'
<1> USE DEF SlackInv
<1>1. \A i : /\ Lively(i)' => Lively(i)
             /\ i \in Instances /\ ~halted[i] /\ Lively(i) => Lively(i)'
  BY DEF Lively, Of, Underway
<1>2. LivelyInv'
  <2>1. NeverGivesUp' /\ HaltHolds'
    BY <1>1 DEF LivelyInv, NeverGivesUp, HaltHolds
  <2>2. \A i \in Instances : online[i] => \E a \in Attempts : owner[a] = i /\ stage'[a] \in {"open", "closing"}
    BY DEF LivelyInv, Of
  <2> QED
    BY <2>1, <2>2 DEF LivelyInv, Of
<1>3. OrderInv'
  <2> SUFFICES ASSUME loose = {} PROVE OrderInv'
    BY DEF OrderInv
  <2>1. \A i : Awaited(i)' <=> Awaited(i)
    BY DEF Awaited, Of
  <2>2. Busy' <=> Busy
    BY DEF Busy
  <2>3. \A c : Begun(c)' <=> Begun(c)
    BY DEF Begun
  <2> QED
    BY <1>1, <2>1, <2>2, <2>3 DEF OrderInv
<1> QED
  BY <1>2, <1>3 DEF SlackBase

LEMMA UrlArrivesKeeps ==
  ASSUME SlackInv, NEW a \in Attempts, UrlArrives(a)
  PROVE  SlackInv'
<1>1. /\ stage[a] = "asking" /\ stage' = [stage EXCEPT ![a] = "dialing"]
      /\ socket' = [socket EXCEPT ![owner[a]] = a]
      /\ UNCHANGED <<enabled, channels, made, halted, online, rearmed, owner, caller,
                     startup, request, loose>>
  BY DEF UrlArrives
<1>2. SlackBase'
  <2>1. caller[a] # "nobody"
    BY <1>1 DEF SlackInv, CallersInv
  <2>2. socket' \in [Instances -> Attempts \cup {NoAttempt}]
    BY <1>1 DEF SlackInv, SlackTypeInv
  <2> QED
    BY <1>1, <2>1, <2>2, StageBase DEF SlackInv, SlackBase
<1>3. \A b \in Attempts : stage'[b] = IF b = a THEN "dialing" ELSE stage[b]
  BY <1>1 DEF SlackInv, SlackTypeInv
<1> QED
  BY <1>1, <1>2, <1>3, QuietOrder DEF Underway

LEMMA SocketDropsKeeps ==
  ASSUME SlackInv, NEW a \in Attempts, SocketDrops(a)
  PROVE  SlackInv'
<1>1. /\ stage[a] \in {"dialing", "open"} /\ stage' = [stage EXCEPT ![a] = "closing"]
      /\ UNCHANGED <<enabled, channels, made, halted, online, rearmed, owner, caller,
                     startup, request, loose, socket>>
  BY DEF SocketDrops
<1>2. SlackBase'
  <2>1. socket' \in [Instances -> Attempts \cup {NoAttempt}]
    BY <1>1 DEF SlackInv, SlackTypeInv
  <2> QED
    BY <1>1, <2>1, StageBase DEF SlackInv, SlackBase
<1>3. \A b \in Attempts : stage'[b] = IF b = a THEN "closing" ELSE stage[b]
  BY <1>1 DEF SlackInv, SlackTypeInv
<1> QED
  BY <1>1, <1>2, <1>3, QuietOrder DEF Underway

LEMMA OpensKeeps ==
  ASSUME SlackInv, NEW a \in Attempts, Opens(a)
  PROVE  SlackInv'
<1> USE DEF SlackInv
<1> DEFINE i == owner[a]
<1>1. /\ stage[a] = "dialing" /\ stage' = [stage EXCEPT ![a] = "open"]
      /\ online' = [online EXCEPT ![i] = TRUE]
      /\ channels' = Listed(a)
      /\ startup' = IF caller[a] = "startup" THEN "over" ELSE startup
      /\ request' = [c \in AdminCalls |-> IF caller[a] = c THEN "over" ELSE request[c]]
      /\ caller' = [caller EXCEPT ![a] = "nobody"]
      /\ UNCHANGED <<enabled, made, halted, rearmed, socket, owner, loose>>
  BY DEF Opens
<1>2. i \in Instances /\ caller[a] # "nobody"
  BY <1>1 DEF CallersInv
<1>3. /\ channels' \in Seq(Instances)
      /\ \A j : ListedNow(j)' => ListedNow(j) \/ j = i
      /\ Asked(a) /\ Len(channels) <= 1 => channels' = <<i>> \/ caller[a] = "startup"
      /\ ~Asked(a) => channels' = channels
      /\ caller[a] = "startup" /\ channels = <<>> => channels' = <<i>>
  BY <1>1, <1>2, ListedAfter
<1> HIDE DEF i
<1>4. SlackBase'
  <2>1. online' \in [Instances -> BOOLEAN] /\ socket' \in [Instances -> Attempts \cup {NoAttempt}]
        /\ rearmed' \in [Instances -> BOOLEAN]
    BY <1>1 DEF SlackTypeInv
  <2>2. \A j \in Instances : ListedNow(j)' => ListedNow(j) \/ (j = i /\ Asked(a))
    BY <1>3 DEF ListedNow
  <2>3. \A j \in Instances : j > made => ~rearmed'[j]
    BY <1>1 DEF CallersInv
  <2> QED
    BY <1>1, <1>3, <2>1, <2>2, <2>3, EndBase DEF SlackBase, i
<1>5. \A b \in Attempts : stage'[b] = IF b = a THEN "open" ELSE stage[b]
  BY <1>1 DEF SlackTypeInv
<1>6. \A j : Lively(j)' <=> Lively(j)
  BY <1>1, <1>5 DEF Lively, Of
<1>7. Lively(i)
  BY <1>1 DEF Lively, Of, i
<1>8. LivelyInv'
  <2>1. NeverGivesUp'
    BY <1>1, <1>3, <1>6, <1>7 DEF LivelyInv, NeverGivesUp, ListedNow
  <2>2. HaltHolds'
    BY <1>1, <1>6 DEF LivelyInv, HaltHolds
  <2>3. ASSUME NEW j \in Instances, online'[j]
        PROVE  \E b \in Attempts : owner[b] = j /\ stage'[b] \in {"open", "closing"}
    <3>1. CASE j = i
      BY <1>5, <3>1 DEF i
    <3>2. CASE j # i
      BY <1>1, <1>5, <2>3, <3>2 DEF LivelyInv, Of, SlackTypeInv
    <3> QED
      BY <3>1, <3>2
  <2> QED
    BY <1>1, <2>1, <2>2, <2>3 DEF LivelyInv, Of
<1>9. OrderInv'
  <2> SUFFICES ASSUME loose = {} PROVE OrderInv'
    BY <1>1 DEF OrderInv
  <2>1. /\ \A b, c \in Attempts :
             stage[b] \in Underway /\ stage[c] \in Underway /\ owner[b] = owner[c] => b = c
        /\ \A b \in Attempts : stage[b] \in Underway => ~rearmed[owner[b]]
        /\ \A b \in Attempts : stage[b] = "open" => online[owner[b]]
        /\ \A j, k \in Instances : Lively(j) /\ Lively(k) => j = k
        /\ \A j \in Instances : Lively(j) => channels = <<j>> \/ Awaited(j)
        /\ ~enabled => ~Busy /\ \A j \in Instances : ~Lively(j)
        /\ Len(channels) <= 1 /\ (startup # "over" => channels = <<>>)
        /\ \A c, d \in AdminCalls : Begun(c) /\ Begun(d) => c = d
        /\ startup # "over" => \A c \in AdminCalls : ~Begun(c)
    BY DEF OrderInv
  <2>2. \A b \in Attempts : stage'[b] \in Underway <=> stage[b] \in Underway
    BY <1>1, <1>5 DEF Underway
  <2>3. \A b \in Attempts : stage'[b] = "open" => online'[owner[b]]
    BY <1>1, <1>2, <1>5, <2>1 DEF i, SlackTypeInv, CallersInv
  <2>4. enabled
    BY <1>2, <1>7, <2>1
  <2>5. \A j \in Instances : Lively(j) => j = i
    BY <1>2, <1>7, <2>1
  <2>6. channels' = <<i>> \/ Awaited(i)'
    <3>1. CASE Asked(a)
      <4>1. CASE caller[a] = "startup"
        <5>1. startup = "connecting"
          BY <4>1 DEF CallersInv
        <5> QED
          BY <1>3, <2>1, <4>1, <5>1
      <4> QED
        BY <1>3, <2>1, <3>1, <4>1
    <3>2. CASE ~Asked(a)
      <4>1. channels = <<i>> \/ Awaited(i)
        BY <1>2, <1>7, <2>1
      <4>2. CASE Awaited(i)
        <5>1. ASSUME NEW b \in Attempts, owner[b] = i, caller[b] \in AdminCalls PROVE FALSE
          <6>1. stage[b] \in Underway /\ stage[a] \in Underway
            BY <1>1, <5>1, SlackAssumption DEF CallersInv, Underway, SlackTypeInv, Stages
          <6>2. b = a
            BY <2>1, <5>1, <6>1 DEF i
          <6> QED
            BY <3>2, <5>1, <6>2 DEF Asked
        <5>2. i = 1 /\ startup # "over"
          BY <4>2, <5>1 DEF Awaited, Of
        <5>3. startup' = startup
          BY <1>1, <3>2 DEF Asked
        <5>4. i = 1 /\ startup' # "over"
          BY <5>2, <5>3
        <5> QED
          BY <1>1, <5>4 DEF Awaited, i
      <4> QED
        BY <1>3, <3>2, <4>1, <4>2
    <3> QED
      BY <3>1, <3>2
  <2>7. Len(channels') <= 1 /\ (startup' # "over" => channels' = <<>>)
    <3>1. CASE Asked(a)
      <4>1. CASE caller[a] = "startup"
        <5>1. startup = "connecting"
          BY <4>1 DEF CallersInv
        <5>2. channels' = <<i>> /\ startup' = "over"
          BY <1>1, <1>3, <2>1, <4>1, <5>1
        <5> QED
          BY <5>2
      <4>2. CASE caller[a] \in AdminCalls
        <5>1. Begun(caller[a]) /\ channels' = <<i>> /\ startup' = startup
          BY <1>1, <1>3, <2>1, <4>2, SlackAssumption DEF CallersInv, Asked
        <5>2. startup = "over"
          BY <2>1, <4>2, <5>1
        <5> QED
          BY <5>1, <5>2
      <4> QED
        BY <3>1, <4>1, <4>2 DEF Asked
    <3>2. CASE ~Asked(a)
      <4>1. channels' = channels /\ startup' = startup
        BY <1>1, <1>3, <3>2 DEF Asked
      <4> QED
        BY <2>1, <4>1
    <3> QED
      BY <3>1, <3>2
  <2>8. \A c \in AdminCalls : Begun(c)' => Begun(c)
    BY <1>1 DEF Begun
  <2>9. startup' # "over" => startup # "over"
    BY <1>1
  <2>10. \A j, k \in Instances : Lively(j)' /\ Lively(k)' => j = k
    BY <1>6, <2>1
  <2>11. \A j \in Instances : Lively(j)' => channels' = <<j>> \/ Awaited(j)'
    <3>1. PICK k \in Instances : k = i
      BY <1>2
    <3>2. channels' = <<k>> \/ Awaited(k)'
      BY <1>1, <2>6, <3>1 DEF Awaited, Of, i
    <3> QED
      BY <1>6, <2>5, <3>1, <3>2
  <2>12. /\ \A b, c \in Attempts :
              stage'[b] \in Underway /\ stage'[c] \in Underway /\ owner[b] = owner[c] => b = c
         /\ \A b \in Attempts : stage'[b] \in Underway => ~rearmed[owner[b]]
    BY <2>1, <2>2
  <2>13. /\ \A c, d \in AdminCalls : Begun(c)' /\ Begun(d)' => c = d
         /\ startup' # "over" => \A c \in AdminCalls : ~Begun(c)'
    BY <2>1, <2>8, <2>9
  <2> QED
    BY <1>1, <2>3, <2>4, <2>7, <2>10, <2>11, <2>12, <2>13 DEF OrderInv
<1> QED
  BY <1>4, <1>8, <1>9 DEF SlackBase

\* What the inductive invariant says while nothing got out of hand.
LEMMA InOrder ==
  ASSUME OrderInv, loose = {}
  PROVE  /\ \A b, c \in Attempts :
              stage[b] \in Underway /\ stage[c] \in Underway /\ owner[b] = owner[c] => b = c
         /\ \A b \in Attempts : stage[b] \in Underway => ~rearmed[owner[b]]
         /\ \A b \in Attempts : stage[b] = "open" => online[owner[b]]
         /\ \A j, k \in Instances : Lively(j) /\ Lively(k) => j = k
         /\ \A j \in Instances : Lively(j) => channels = <<j>> \/ Awaited(j)
         /\ ~enabled => ~Busy /\ \A j \in Instances : ~Lively(j)
         /\ Len(channels) <= 1 /\ (startup # "over" => channels = <<>>)
         /\ \A c, d \in AdminCalls : Begun(c) /\ Begun(d) => c = d
         /\ startup # "over" => \A c \in AdminCalls : ~Begun(c)
BY DEF OrderInv

\* An attempt ends without success: an answer is an error, or a socket closed.
LEMMA FailureKeeps ==
  ASSUME SlackInv, NEW a \in Attempts, NEW fromClose \in BOOLEAN,
         stage[a] = IF fromClose THEN "closing" ELSE "asking",
         stage' = [stage EXCEPT ![a] = "over"],
         FailsCaller(a, fromClose),
         socket' \in [Instances -> Attempts \cup {NoAttempt}],
         online' = IF fromClose THEN [online EXCEPT ![owner[a]] = FALSE] ELSE online,
         UNCHANGED <<channels, made, halted, owner>>
  PROVE  SlackInv'
<1> USE DEF SlackInv
<1>1. PICK i \in Instances : i = owner[a] /\ i <= made
  BY DEF CallersInv
<1>2. /\ rearmed' = [rearmed EXCEPT ![i] = @ \/ ArmsTimer(a, fromClose)]
      /\ rearmed' \in [Instances -> BOOLEAN]
      /\ request' = [c \in AdminCalls |-> IF caller[a] = c THEN "over" ELSE request[c]]
      /\ caller' = [caller EXCEPT ![a] = "nobody"]
      /\ IF caller[a] = "startup" THEN startup' \in {"waiting", "over"} ELSE startup' = startup
      /\ enabled' = (enabled /\ \A c \in AdminCalls : caller[a] = c => request[c] # "enabling")
      /\ loose \subseteq loose'
      /\ caller[a] = "startup" /\ startup' = "over" /\ rearmed'[i] => loose' # {}
      /\ caller[a] \in AdminCalls /\ rearmed'[i] => loose' # {}
  BY <1>1, FailsFacts
<1>3. /\ \A j \in Instances : j # i => rearmed'[j] = rearmed[j]
      /\ rearmed'[i] <=> rearmed[i] \/ (~halted[i] /\ (fromClose \/ caller[a] = "timer"))
  BY <1>1, <1>2 DEF SlackTypeInv, ArmsTimer
<1>4. \A b \in Attempts : stage'[b] = IF b = a THEN "over" ELSE stage[b]
  BY DEF SlackTypeInv
<1>5. \A j \in Instances : Lively(j)' => Lively(j)
  <2>1. \A j \in Instances : rearmed'[j] => Lively(j)
    BY <1>1, <1>3 DEF Lively, Of
  <2> QED
    BY <1>4, <2>1 DEF Lively, Of
<1>6. \A j \in Instances : j # i /\ Lively(j) => Lively(j)'
  BY <1>1, <1>3, <1>4 DEF Lively, Of
<1>7. SlackBase'
  <2>1. online' \in [Instances -> BOOLEAN]
    BY DEF SlackTypeInv
  <2>2. \A j \in Instances : j > made => ~rearmed'[j]
    <3>1. ~(i > made)
      BY <1>1, SlackAssumption DEF SlackTypeInv
    <3> QED
      BY <1>3, <3>1 DEF CallersInv
  <2>3. \A j \in Instances : ListedNow(j)' => ListedNow(j)
    BY DEF ListedNow
  <2>4. ListedNow(1)' /\ caller[a] = "startup" => startup' = "over"
    BY <1>1 DEF ListedNow, CallersInv, Asked
  <2>5. channels' \in Seq(Instances)
    BY DEF SlackTypeInv
  <2> HIDE DEF SlackInv
  <2> QED
    BY <1>2, <2>1, <2>2, <2>3, <2>4, <2>5, EndBase DEF SlackBase, SlackInv
<1>8. LivelyInv'
  <2>1. ASSUME NEW j \in Instances, ListedNow(j), ~halted[j] PROVE Lively(j)'
    <3>1. Lively(j)
      BY <2>1 DEF LivelyInv, NeverGivesUp, ListedNow
    <3>2. CASE j = i
      <4>1. ~Asked(a)
        BY <1>1, <2>1, <3>2 DEF CallersInv
      <4>2. fromClose \/ caller[a] = "timer"
        BY <4>1 DEF CallersInv, Asked, SlackTypeInv, Callers
      <4>3. rearmed'[j]
        BY <1>3, <2>1, <3>2, <4>2
      <4> QED
        BY <4>3 DEF Lively
    <3> QED
      BY <1>6, <3>1, <3>2
  <2>2. ASSUME NEW j \in Instances, halted[j]
        PROVE  ~rearmed'[j] /\ ("late" \in loose' \/ ~Lively(j)')
    <3>1. ~rearmed[j] /\ ("late" \in loose \/ ~Lively(j))
      BY <2>2 DEF LivelyInv, HaltHolds
    <3> QED
      BY <1>2, <1>3, <1>5, <2>2, <3>1
  <2>3. ASSUME NEW j \in Instances, online'[j]
        PROVE  \E b \in Attempts : owner[b] = j /\ stage'[b] \in {"open", "closing"}
    <3>1. online[j] /\ (fromClose => j # i)
      BY <1>1, <2>3 DEF SlackTypeInv
    <3>2. PICK b \in Attempts : owner[b] = j /\ stage[b] \in {"open", "closing"}
      BY <3>1 DEF LivelyInv, Of
    <3>3. b # a
      BY <1>1, <3>1, <3>2
    <3> QED
      BY <1>4, <3>2, <3>3
  <2>4. NeverGivesUp' /\ HaltHolds'
    BY <2>1, <2>2 DEF NeverGivesUp, HaltHolds, ListedNow
  <2> QED
    BY <2>3, <2>4 DEF LivelyInv, Of
<1>9. OrderInv'
  <2> SUFFICES ASSUME loose' = {} PROVE OrderInv'
    BY DEF OrderInv
  <2>0. loose = {}
    BY <1>2
  <2>1. /\ \A b, c \in Attempts :
             stage[b] \in Underway /\ stage[c] \in Underway /\ owner[b] = owner[c] => b = c
        /\ \A b \in Attempts : stage[b] \in Underway => ~rearmed[owner[b]]
        /\ \A b \in Attempts : stage[b] = "open" => online[owner[b]]
        /\ \A j, k \in Instances : Lively(j) /\ Lively(k) => j = k
        /\ \A j \in Instances : Lively(j) => channels = <<j>> \/ Awaited(j)
        /\ ~enabled => ~Busy /\ \A j \in Instances : ~Lively(j)
        /\ Len(channels) <= 1 /\ (startup # "over" => channels = <<>>)
        /\ \A c, d \in AdminCalls : Begun(c) /\ Begun(d) => c = d
        /\ startup # "over" => \A c \in AdminCalls : ~Begun(c)
    BY <2>0, InOrder
  <2>2. \A b \in Attempts : stage'[b] \in Underway => stage[b] \in Underway /\ b # a
    BY <1>4 DEF Underway
  <2>3. stage[a] \in Underway
    BY DEF Underway
  <2>4. \A b \in Attempts : stage'[b] \in Underway => owner[b] # i
    BY <1>1, <2>1, <2>2, <2>3
  <2>5. Lively(i)' => rearmed'[i]
    BY <2>4 DEF Lively, Of, Underway
  <2>6. startup' # "over" => startup # "over"
    BY <1>2 DEF CallersInv
  <2>7. \A c \in AdminCalls : Begun(c)' => Begun(c)
    BY <1>2 DEF Begun
  <2>8. \A b \in Attempts : stage'[b] \in Underway => ~rearmed'[owner[b]]
    <3> SUFFICES ASSUME NEW b \in Attempts, stage'[b] \in Underway PROVE ~rearmed'[owner[b]]
      OBVIOUS
    <3>1. owner[b] # i /\ ~rearmed[owner[b]] /\ owner[b] \in Instances
      BY <2>1, <2>2, <2>4 DEF CallersInv, Underway
    <3> QED
      BY <1>3, <3>1
  <2>9. \A b \in Attempts : stage'[b] = "open" => online'[owner[b]]
    <3> SUFFICES ASSUME NEW b \in Attempts, stage'[b] = "open" PROVE online'[owner[b]]
      OBVIOUS
    <3>1. owner[b] # i /\ stage[b] = "open"
      BY <1>4, <2>4 DEF Underway
    <3>2. owner[b] \in Instances /\ online[owner[b]]
      BY <2>1, <3>1 DEF CallersInv
    <3> QED
      BY <1>1, <3>1, <3>2 DEF SlackTypeInv
  <2>10. ASSUME NEW j \in Instances, Lively(j)'
         PROVE  channels' = <<j>> \/ Awaited(j)'
    <3>1. channels = <<j>> \/ Awaited(j)
      BY <1>5, <2>1, <2>10
    <3>2. ASSUME NEW b \in Attempts, owner[b] = j, caller[b] \in AdminCalls
          PROVE  Awaited(j)'
      <4>1. b # a
        BY <1>1, <1>2, <2>5, <2>10, <3>2
      <4>2. caller'[b] \in AdminCalls
        BY <1>2, <3>2, <4>1
      <4> QED
        BY <3>2, <4>2 DEF Awaited, Of
    <3>3. ASSUME j = 1, startup # "over" PROVE Awaited(j)'
      <4>1. startup' # "over"
        <5>1. CASE caller[a] = "startup"
          <6>1. i = 1
            BY <1>1, <5>1 DEF CallersInv
          <6> QED
            BY <1>2, <2>5, <2>10, <3>3, <5>1, <6>1
        <5> QED
          BY <1>2, <3>3, <5>1
      <4> QED
        BY <3>3, <4>1 DEF Awaited
    <3> QED
      BY <3>1, <3>2, <3>3 DEF Awaited, Of
  <2>11. ASSUME ~enabled'
         PROVE  ~Busy' /\ \A j \in Instances : ~Lively(j)'
    <3>1. CASE ~enabled
      BY <1>5, <2>1, <2>6, <2>7, <3>1 DEF Busy, Begun
    <3>2. CASE enabled
      <4>1. caller[a] \in AdminCalls /\ request[caller[a]] = "enabling"
        BY <1>2, <2>11, <3>2
      <4>2. Begun(caller[a]) /\ Asked(a)
        BY <4>1 DEF Begun, Asked
      <4>3. startup = "over" /\ \A c \in AdminCalls : Begun(c) => c = caller[a]
        BY <2>1, <4>1, <4>2
      <4>4. startup' = "over"
        BY <2>6, <4>3
      <4>5. \A c \in AdminCalls : ~Begun(c)'
        BY <1>2, <2>7, <4>1, <4>3 DEF Begun
      <4>6. Lively(i)
        BY <1>1, <4>2 DEF Lively, Of, CallersInv
      <4>7. ~Lively(i)'
        BY <1>2, <2>5, <4>1
      <4> QED
        BY <1>5, <2>1, <4>4, <4>5, <4>6, <4>7 DEF Busy, Begun
    <3> QED
      BY <3>1, <3>2
  <2>12. /\ \A b, c \in Attempts :
              stage'[b] \in Underway /\ stage'[c] \in Underway /\ owner[b] = owner[c] => b = c
         /\ \A j, k \in Instances : Lively(j)' /\ Lively(k)' => j = k
    BY <1>5, <2>1, <2>2
  <2>13. /\ Len(channels') <= 1 /\ (startup' # "over" => channels' = <<>>)
         /\ \A c, d \in AdminCalls : Begun(c)' /\ Begun(d)' => c = d
         /\ startup' # "over" => \A c \in AdminCalls : ~Begun(c)'
    BY <2>1, <2>6, <2>7
  <2> QED
    BY <2>8, <2>9, <2>10, <2>11, <2>12, <2>13 DEF OrderInv
<1> QED
  BY <1>7, <1>8, <1>9 DEF SlackBase

LEMMA SlackAskFailsKeeps ==
  ASSUME SlackInv, NEW a \in Attempts, SlackAskFails(a)
  PROVE  SlackInv'
<1>1. /\ stage[a] = "asking" /\ stage' = [stage EXCEPT ![a] = "over"]
      /\ FailsCaller(a, FALSE)
      /\ UNCHANGED <<channels, made, halted, online, socket, owner>>
  BY DEF SlackAskFails
<1>2. socket' \in [Instances -> Attempts \cup {NoAttempt}]
  BY <1>1 DEF SlackInv, SlackTypeInv
<1> QED
  BY <1>1, <1>2, FailureKeeps

LEMMA SocketClosedKeeps ==
  ASSUME SlackInv, NEW a \in Attempts, SocketClosed(a)
  PROVE  SlackInv'
<1>1. /\ stage[a] = "closing" /\ stage' = [stage EXCEPT ![a] = "over"]
      /\ socket' = [socket EXCEPT ![owner[a]] = IF @ = a THEN NoAttempt ELSE @]
      /\ online' = [online EXCEPT ![owner[a]] = FALSE]
      /\ FailsCaller(a, TRUE)
      /\ UNCHANGED <<channels, made, halted, owner>>
  BY DEF SocketClosed
<1>2. socket' \in [Instances -> Attempts \cup {NoAttempt}]
  BY <1>1 DEF SlackInv, SlackTypeInv
<1> QED
  BY <1>1, <1>2, FailureKeeps

\* An attempt of i begins: i is lively, and what is said of the others stays.
LEMMA StartLively ==
  ASSUME SlackBase, NEW a \in Attempts, stage[a] = "unused", NEW i \in Instances,
         stage' = [stage EXCEPT ![a] = "asking"], owner' = [owner EXCEPT ![a] = i],
         \A j \in Instances : j # i => rearmed'[j] = rearmed[j] /\ halted'[j] = halted[j]
  PROVE  /\ \A b \in Attempts : /\ stage'[b] = IF b = a THEN "asking" ELSE stage[b]
                                /\ owner'[b] = IF b = a THEN i ELSE owner[b]
         /\ \A j \in Instances : j # i => (Lively(j)' <=> Lively(j))
         /\ Lively(i)'
<1>1. \A b \in Attempts : /\ stage'[b] = IF b = a THEN "asking" ELSE stage[b]
                          /\ owner'[b] = IF b = a THEN i ELSE owner[b]
  BY DEF SlackBase, SlackTypeInv
<1>2. \A j \in Instances : j # i => (Lively(j)' <=> Lively(j))
  BY <1>1, OneIsNumber DEF Lively, Of
<1>3. Lively(i)'
  BY <1>1 DEF Lively, Of
<1> QED
  BY <1>1, <1>2, <1>3

\* Nobody is waited for unless the startup or a request is under way.
LEMMA AwaitedIsBusy ==
  ASSUME SlackBase, NEW j, Awaited(j)
  PROVE  Busy
<1>1. \A b \in Attempts : caller[b] \in AdminCalls => Begun(caller[b])
  BY DEF SlackBase, CallersInv
<1> QED
  BY <1>1 DEF Busy, Awaited, Of, Begun

LEMMA TimerFiresKeeps ==
  ASSUME SlackInv, NEW i \in Instances, TimerFires(i)
  PROVE  SlackInv'
<1> USE DEF SlackInv
<1>1. /\ rearmed[i] /\ rearmed' = [rearmed EXCEPT ![i] = FALSE]
      /\ halted' = [halted EXCEPT ![i] = FALSE]
      /\ StartAttempt(i, "timer", stage)
      /\ UNCHANGED <<enabled, channels, made, online, socket, startup, request, loose>>
  BY DEF TimerFires
<1>2. PICK a \in Attempts : /\ stage[a] = "unused"
                            /\ stage' = [stage EXCEPT ![a] = "asking"]
                            /\ owner' = [owner EXCEPT ![a] = i]
                            /\ caller' = [caller EXCEPT ![a] = "timer"]
  BY <1>1, StartFacts
<1>3. /\ \A j \in Instances : halted'[j] = halted[j] /\ rearmed'[j] = (j # i /\ rearmed[j])
      /\ halted' \in [Instances -> BOOLEAN] /\ rearmed' \in [Instances -> BOOLEAN]
  BY <1>1 DEF SlackTypeInv, LivelyInv, HaltHolds
<1>4. SlackBase'
  <2>1. i <= made
    BY <1>1, SlackAssumption DEF CallersInv, SlackTypeInv
  <2>2. stage' \in [Attempts -> Stages] /\ stage'[a] = "asking"
        /\ \A b \in Attempts : b # a => stage'[b] = stage[b]
    BY <1>2 DEF SlackTypeInv, Stages
  <2>3. online' \in [Instances -> BOOLEAN] /\ socket' \in [Instances -> Attempts \cup {NoAttempt}]
    BY <1>1 DEF SlackTypeInv
  <2> HIDE DEF SlackInv
  <2> QED
    BY <1>1, <1>2, <1>3, <2>1, <2>2, <2>3, StartBase DEF SlackBase, SlackInv
<1>5. /\ \A b \in Attempts : /\ stage'[b] = IF b = a THEN "asking" ELSE stage[b]
                             /\ owner'[b] = IF b = a THEN i ELSE owner[b]
      /\ \A j \in Instances : Lively(j)' <=> Lively(j)
  <2>1. Lively(i)
    BY <1>1 DEF Lively
  <2> QED
    <3>1. \A j \in Instances : j # i => rearmed'[j] = rearmed[j] /\ halted'[j] = halted[j]
      BY <1>3 DEF SlackTypeInv
    <3>2. /\ \A b \in Attempts : /\ stage'[b] = IF b = a THEN "asking" ELSE stage[b]
                                 /\ owner'[b] = IF b = a THEN i ELSE owner[b]
          /\ \A j \in Instances : j # i => (Lively(j)' <=> Lively(j))
          /\ Lively(i)'
      BY <1>2, <3>1, StartLively DEF SlackBase
    <3> QED
      BY <2>1, <3>2
<1>6. LivelyInv'
  <2>1. NeverGivesUp' /\ HaltHolds'
    BY <1>1, <1>3, <1>5 DEF LivelyInv, NeverGivesUp, HaltHolds
  <2>2. \A j \in Instances :
          online'[j] => \E b \in Attempts : owner'[b] = j /\ stage'[b] \in {"open", "closing"}
    <3> SUFFICES ASSUME NEW j \in Instances, online[j]
                 PROVE  \E b \in Attempts : owner'[b] = j /\ stage'[b] \in {"open", "closing"}
      BY <1>1
    <3>1. PICK b \in Attempts : owner[b] = j /\ stage[b] \in {"open", "closing"}
      BY DEF LivelyInv, Of
    <3> QED
      BY <1>2, <1>5, <3>1
  <2> QED
    BY <2>1, <2>2 DEF LivelyInv, Of
<1>7. OrderInv'
  <2> SUFFICES ASSUME loose = {} PROVE OrderInv'
    BY <1>1 DEF OrderInv
  <2>1. /\ \A b, c \in Attempts :
             stage[b] \in Underway /\ stage[c] \in Underway /\ owner[b] = owner[c] => b = c
        /\ \A b \in Attempts : stage[b] \in Underway => ~rearmed[owner[b]]
        /\ \A b \in Attempts : stage[b] = "open" => online[owner[b]]
        /\ \A j, k \in Instances : Lively(j) /\ Lively(k) => j = k
        /\ \A j \in Instances : Lively(j) => channels = <<j>> \/ Awaited(j)
        /\ ~enabled => ~Busy /\ \A j \in Instances : ~Lively(j)
        /\ Len(channels) <= 1 /\ (startup # "over" => channels = <<>>)
        /\ \A c, d \in AdminCalls : Begun(c) /\ Begun(d) => c = d
        /\ startup # "over" => \A c \in AdminCalls : ~Begun(c)
    BY InOrder
  <2>2. \A b \in Attempts : b # a /\ stage'[b] \in Underway
                              => stage[b] \in Underway /\ owner[b] # i /\ owner[b] \in Instances
    BY <1>1, <1>5, <2>1 DEF CallersInv, Underway
  <2>3. \A b, c \in Attempts :
          stage'[b] \in Underway /\ stage'[c] \in Underway /\ owner'[b] = owner'[c] => b = c
    BY <1>5, <2>1, <2>2
  <2>4. \A b \in Attempts : stage'[b] \in Underway => ~rearmed'[owner'[b]]
    BY <1>3, <1>5, <2>1, <2>2
  <2>5. \A b \in Attempts : stage'[b] = "open" => online'[owner'[b]]
    BY <1>1, <1>5, <2>1
  <2>6. \A j : Awaited(j) => Awaited(j)'
    <3>1. \A b \in Attempts : caller[b] \in AdminCalls => caller'[b] = caller[b] /\ owner'[b] = owner[b]
      BY <1>2, <1>5, SlackAssumption DEF CallersInv, SlackTypeInv
    <3> QED
      BY <1>1, <3>1 DEF Awaited, Of
  <2>7. (Busy' <=> Busy) /\ \A c : Begun(c)' <=> Begun(c)
    BY <1>1 DEF Busy, Begun
  <2> QED
    BY <1>1, <1>5, <2>1, <2>3, <2>4, <2>5, <2>6, <2>7 DEF OrderInv
<1> QED
  BY <1>4, <1>6, <1>7 DEF SlackBase

LEMMA StartupTriesAgainKeeps ==
  ASSUME SlackInv, StartupTriesAgain
  PROVE  SlackInv'
<1> USE DEF SlackInv
<1>1. /\ startup = "waiting" /\ startup' = "connecting"
      /\ halted' = [halted EXCEPT ![1] = FALSE]
      /\ StartAttempt(1, "startup", stage)
      /\ loose' = loose \cup (IF Lively(1) THEN {"twice"} ELSE {})
      /\ UNCHANGED <<enabled, channels, made, online, rearmed, socket, request>>
  BY DEF StartupTriesAgain
<1>2. PICK a \in Attempts : /\ stage[a] = "unused"
                            /\ stage' = [stage EXCEPT ![a] = "asking"]
                            /\ owner' = [owner EXCEPT ![a] = 1]
                            /\ caller' = [caller EXCEPT ![a] = "startup"]
  BY <1>1, StartFacts
<1>3. ~ListedNow(1) /\ ~halted[1] /\ halted' = halted
  BY <1>1, OneIsNumber DEF CallersInv, SlackTypeInv
<1>4. SlackBase'
  <2>1. stage' \in [Attempts -> Stages] /\ stage'[a] = "asking"
        /\ \A b \in Attempts : b # a => stage'[b] = stage[b]
    BY <1>2 DEF SlackTypeInv, Stages
  <2>2. online' \in [Instances -> BOOLEAN] /\ socket' \in [Instances -> Attempts \cup {NoAttempt}]
        /\ rearmed' \in [Instances -> BOOLEAN] /\ halted' \in [Instances -> BOOLEAN]
    BY <1>1, <1>3 DEF SlackTypeInv
  <2> HIDE DEF SlackInv
  <2> QED
    BY <1>1, <1>2, <1>3, <2>1, <2>2, StartBase, OneIsNumber DEF SlackBase, SlackInv
<1>5. /\ \A b \in Attempts : /\ stage'[b] = IF b = a THEN "asking" ELSE stage[b]
                             /\ owner'[b] = IF b = a THEN 1 ELSE owner[b]
      /\ \A j \in Instances : j # 1 => (Lively(j)' <=> Lively(j))
      /\ Lively(1)'
  BY <1>1, <1>2, <1>3, StartLively, OneIsNumber DEF SlackBase
<1>6. LivelyInv'
  <2>1. NeverGivesUp'
    BY <1>1, <1>3, <1>5 DEF LivelyInv, NeverGivesUp, ListedNow
  <2>2. HaltHolds'
    BY <1>1, <1>3, <1>5 DEF LivelyInv, HaltHolds
  <2>3. \A j \in Instances :
          online'[j] => \E b \in Attempts : owner'[b] = j /\ stage'[b] \in {"open", "closing"}
    <3> SUFFICES ASSUME NEW j \in Instances, online[j]
                 PROVE  \E b \in Attempts : owner'[b] = j /\ stage'[b] \in {"open", "closing"}
      BY <1>1
    <3>1. PICK b \in Attempts : owner[b] = j /\ stage[b] \in {"open", "closing"}
      BY DEF LivelyInv, Of
    <3> QED
      BY <1>2, <1>5, <3>1
  <2> QED
    BY <2>1, <2>2, <2>3 DEF LivelyInv, Of
<1>7. OrderInv'
  <2> SUFFICES ASSUME loose' = {} PROVE OrderInv'
    BY DEF OrderInv
  <2>0. loose = {} /\ ~Lively(1)
    BY <1>1
  <2>1. /\ \A b, c \in Attempts :
             stage[b] \in Underway /\ stage[c] \in Underway /\ owner[b] = owner[c] => b = c
        /\ \A b \in Attempts : stage[b] \in Underway => ~rearmed[owner[b]]
        /\ \A b \in Attempts : stage[b] = "open" => online[owner[b]]
        /\ \A j \in Instances : Lively(j) => channels = <<j>> \/ Awaited(j)
        /\ ~enabled => ~Busy
        /\ channels = <<>> /\ \A c \in AdminCalls : ~Begun(c)
    BY <1>1, <2>0, InOrder
  <2>2. \A j \in Instances : ~Lively(j)
    <3>1. \A j \in Instances : Awaited(j) => j = 1
      BY <2>1 DEF Awaited, Of, CallersInv
    <3>2. \A j : channels # <<j>>
      BY <2>1
    <3> QED
      BY <2>0, <2>1, <3>1, <3>2
  <2>3. \A b \in Attempts : b # a /\ stage'[b] \in Underway
                              => stage[b] \in Underway /\ owner[b] # 1
    BY <1>3, <1>5, <2>0 DEF Lively, Of, Underway
  <2>4. \A b, c \in Attempts :
          stage'[b] \in Underway /\ stage'[c] \in Underway /\ owner'[b] = owner'[c] => b = c
    BY <1>5, <2>1, <2>3
  <2>5. \A b \in Attempts : stage'[b] \in Underway => ~rearmed'[owner'[b]]
    <3>1. ~rearmed[1]
      BY <2>0 DEF Lively
    <3> QED
      BY <1>1, <1>5, <2>1, <2>3, <3>1
  <2>6. \A b \in Attempts : stage'[b] = "open" => online'[owner'[b]]
    BY <1>1, <1>5, <2>1
  <2>7. \A j \in Instances : Lively(j)' => j = 1
    BY <1>5, <2>2
  <2>8. Awaited(1)'
    BY <1>1 DEF Awaited
  <2>9. enabled
    BY <1>1, <2>1 DEF Busy
  <2>10. \A c \in AdminCalls : ~Begun(c)'
    BY <1>1, <2>1 DEF Begun
  <2>11. \A j \in Instances : Lively(j)' => channels' = <<j>> \/ Awaited(j)'
    BY <2>7, <2>8
  <2> QED
    BY <1>1, <2>1, <2>4, <2>5, <2>6, <2>7, <2>9, <2>10, <2>11 DEF OrderInv
<1> QED
  BY <1>4, <1>6, <1>7 DEF SlackBase

\* The administrator has the channel connected: it is online already, or a new
\* instance is made and connects.
LEMMA ActivateKeeps ==
  ASSUME SlackInv, NEW c \in AdminCalls, NEW kind \in {"activating", "enabling"},
         request[c] = "new", Activate(c, kind), enabled',
         UNCHANGED <<channels, halted, online, rearmed, socket, startup>>
  PROVE  SlackInv'
<1> USE DEF SlackInv
<1>0. /\ halted' \in [Instances -> BOOLEAN] /\ rearmed' \in [Instances -> BOOLEAN]
      /\ online' \in [Instances -> BOOLEAN] /\ socket' \in [Instances -> Attempts \cup {NoAttempt}]
      /\ channels' \in Seq(Instances) /\ \A j : ListedNow(j)' <=> ListedNow(j)
  BY DEF SlackTypeInv, ListedNow
<1>1. CASE /\ request' = [request EXCEPT ![c] = "over"]
           /\ loose' = loose \cup Crossed
           /\ UNCHANGED <<made, stage, owner, caller>>
  <2>1. stage' \in [Attempts -> Stages]
    BY <1>1 DEF SlackTypeInv
  <2>2. SlackBase'
    <3> HIDE DEF SlackInv
    <3> QED
      BY <1>0, <1>1, <2>1, StopBase DEF SlackBase, SlackInv
  <2>3. \A j : (Lively(j)' <=> Lively(j)) /\ (Of(j)' = Of(j))
    BY <1>1 DEF Lively, Of
  <2>4. LivelyInv'
    BY <1>1, <2>3 DEF LivelyInv, NeverGivesUp, HaltHolds, Crossed
  <2>5. OrderInv'
    <3> SUFFICES ASSUME loose' = {} PROVE OrderInv'
      BY DEF OrderInv
    <3>1. loose = {}
      BY <1>1
    <3>2. \A d \in AdminCalls : Begun(d)' => Begun(d)
      BY <1>1 DEF Begun, SlackTypeInv
    <3>3. \A j : Awaited(j)' <=> Awaited(j)
      BY <1>1 DEF Awaited, Of
    <3> QED
      BY <1>1, <2>3, <3>1, <3>2, <3>3, InOrder DEF OrderInv
  <2> QED
    BY <2>2, <2>4, <2>5 DEF SlackBase
<1>2. CASE /\ ~IsOnline
           /\ MakeAndConnect(c, kind, stage)
           /\ loose' = loose \cup Crossed
                \cup (IF channels # <<>> /\ ~online[Head(channels)] /\ Lively(Head(channels))
                        THEN {"displaced"} ELSE {})
  <2>1. PICK i \in Instances : i = made + 1
    BY <1>2 DEF MakeAndConnect
  <2>2. made' = i /\ StartAttempt(i, c, stage) /\ request' = [request EXCEPT ![c] = kind]
    BY <1>2, <2>1 DEF MakeAndConnect
  <2>3. PICK a \in Attempts : /\ stage[a] = "unused"
                              /\ stage' = [stage EXCEPT ![a] = "asking"]
                              /\ owner' = [owner EXCEPT ![a] = i]
                              /\ caller' = [caller EXCEPT ![a] = c]
    BY <2>2, StartFacts
  <2>4. /\ stage' \in [Attempts -> Stages] /\ stage'[a] = "asking"
        /\ \A b \in Attempts : b # a => stage'[b] = stage[b]
    BY <2>3 DEF SlackTypeInv, Stages
  <2>5. SlackBase'
    <3>1. request' \in {[request EXCEPT ![c] = "activating"], [request EXCEPT ![c] = "enabling"]}
      BY <2>2
    <3> HIDE DEF SlackInv
    <3> QED
      BY <1>0, <2>1, <2>2, <2>3, <2>4, <3>1, StartBase DEF SlackBase, SlackInv
  <2>6. /\ \A b \in Attempts : /\ stage'[b] = IF b = a THEN "asking" ELSE stage[b]
                               /\ owner'[b] = IF b = a THEN i ELSE owner[b]
        /\ \A j \in Instances : j # i => (Lively(j)' <=> Lively(j))
        /\ Lively(i)'
    BY <2>3, StartLively DEF SlackBase
  <2>7. /\ ~halted[i] /\ ~rearmed[i] /\ ~ListedNow(i)
        /\ \A b \in Attempts : stage[b] # "unused" => owner[b] # i
    <3>1. i > made /\ ~(i <= made)
      BY <2>1, SlackAssumption DEF SlackTypeInv
    <3> QED
      BY <3>1 DEF CallersInv
  <2>8. LivelyInv'
    <3>1. NeverGivesUp'
      BY <2>6, <2>7 DEF LivelyInv, NeverGivesUp, ListedNow
    <3>2. HaltHolds'
      BY <1>2, <2>6, <2>7 DEF LivelyInv, HaltHolds
    <3>3. \A j \in Instances :
            online'[j] => \E b \in Attempts : owner'[b] = j /\ stage'[b] \in {"open", "closing"}
      <4> SUFFICES ASSUME NEW j \in Instances, online[j]
                   PROVE  \E b \in Attempts : owner'[b] = j /\ stage'[b] \in {"open", "closing"}
        OBVIOUS
      <4>1. PICK b \in Attempts : owner[b] = j /\ stage[b] \in {"open", "closing"}
        BY DEF LivelyInv, Of
      <4> QED
        BY <2>3, <2>6, <4>1
    <3> QED
      BY <3>1, <3>2, <3>3 DEF LivelyInv, Of
  <2>9. OrderInv'
    <3> SUFFICES ASSUME loose' = {} PROVE OrderInv'
      BY DEF OrderInv
    <3>0. /\ loose = {} /\ ~Busy
          /\ ~(channels # <<>> /\ ~online[Head(channels)] /\ Lively(Head(channels)))
      BY <1>2 DEF Crossed
    <3>1. /\ \A b, d \in Attempts :
               stage[b] \in Underway /\ stage[d] \in Underway /\ owner[b] = owner[d] => b = d
          /\ \A b \in Attempts : stage[b] \in Underway => ~rearmed[owner[b]]
          /\ \A b \in Attempts : stage[b] = "open" => online[owner[b]]
          /\ \A j \in Instances : Lively(j) => channels = <<j>> \/ Awaited(j)
          /\ Len(channels) <= 1
      BY <3>0, InOrder
    <3>2. \A j \in Instances : ~Lively(j)
      <4> SUFFICES ASSUME NEW j \in Instances, Lively(j) PROVE FALSE
        OBVIOUS
      <4>1. channels = <<j>>
        BY <3>0, <3>1, AwaitedIsBusy DEF SlackBase
      <4>2. channels # <<>> /\ Head(channels) = j
        BY <4>1
      <4>3. ~online[j]
        BY <1>2, <4>2 DEF IsOnline
      <4> QED
        BY <3>0, <4>2, <4>3
    <3>3. /\ \A b, d \in Attempts :
               stage'[b] \in Underway /\ stage'[d] \in Underway /\ owner'[b] = owner'[d] => b = d
          /\ \A b \in Attempts : stage'[b] \in Underway => ~rearmed'[owner'[b]]
          /\ \A b \in Attempts : stage'[b] = "open" => online'[owner'[b]]
      BY <2>6, <2>7, <3>1 DEF Underway
    <3>4. \A j \in Instances : Lively(j)' => j = i
      BY <2>6, <3>2
    <3>5. Awaited(i)'
      <4>1. caller'[a] = c
        BY <2>3 DEF SlackTypeInv
      <4> QED
        BY <2>6, <4>1 DEF Awaited, Of
    <3>6. startup' = "over" /\ \A d \in AdminCalls : Begun(d)' => d = c
      BY <2>2, <3>0 DEF Busy, Begun, SlackTypeInv
    <3>7. \A j \in Instances : Lively(j)' => channels' = <<j>> \/ Awaited(j)'
      BY <3>4, <3>5
    <3> QED
      BY <3>1, <3>3, <3>4, <3>6, <3>7 DEF OrderInv
  <2> QED
    BY <2>5, <2>8, <2>9 DEF SlackBase
<1> QED
  BY <1>1, <1>2 DEF Activate

\* What a stop of the first instance h of the list does to the attempts, and what is
\* left of h: nothing that is lively, unless connect() was still waiting.
LEMMA StopFacts ==
  ASSUME SlackInv, channels # <<>>, NEW h \in Instances, h = Head(channels), StopInstance(h)
  PROVE  /\ Unsocketed(h) \in [Attempts -> Stages]
         /\ \A b \in Attempts : \/ Unsocketed(h)[b] = stage[b]
                                \/ /\ Unsocketed(h)[b] = "closing"
                                   /\ stage[b] \in {"dialing", "open"}
         /\ halted' \in [Instances -> BOOLEAN] /\ rearmed' \in [Instances -> BOOLEAN]
         /\ online' \in [Instances -> BOOLEAN] /\ socket' \in [Instances -> Attempts \cup {NoAttempt}]
         /\ halted'[h] /\ ~rearmed'[h] /\ ~online'[h]
         /\ \A j \in Instances :
              j # h => halted'[j] = halted[j] /\ rearmed'[j] = rearmed[j] /\ online'[j] = online[j]
         /\ Late(h) = {} => \A b \in Of(h) : Unsocketed(h)[b] \notin {"asking", "dialing", "open"}
         /\ Late(h) # {} => "late" \in Late(h)
<1> USE DEF SlackInv
<1>1. /\ halted' = [halted EXCEPT ![h] = TRUE] /\ online' = [online EXCEPT ![h] = FALSE]
      /\ rearmed' = [rearmed EXCEPT ![h] = FALSE] /\ socket' = [socket EXCEPT ![h] = NoAttempt]
  BY DEF StopInstance, Stopped
<1>2. /\ Unsocketed(h) \in [Attempts -> Stages]
      /\ \A b \in Attempts : \/ Unsocketed(h)[b] = stage[b]
                             \/ /\ Unsocketed(h)[b] = "closing"
                                /\ stage[b] \in {"dialing", "open"}
  BY DEF Unsocketed, SlackTypeInv, Stages
<1>3. /\ halted' \in [Instances -> BOOLEAN] /\ rearmed' \in [Instances -> BOOLEAN]
      /\ online' \in [Instances -> BOOLEAN] /\ socket' \in [Instances -> Attempts \cup {NoAttempt}]
      /\ halted'[h] /\ ~rearmed'[h] /\ ~online'[h]
      /\ \A j \in Instances :
           j # h => halted'[j] = halted[j] /\ rearmed'[j] = rearmed[j] /\ online'[j] = online[j]
  BY <1>1 DEF SlackTypeInv
<1>4. /\ Late(h) = {} => \A b \in Of(h) : Unsocketed(h)[b] \notin {"asking", "dialing", "open"}
      /\ Late(h) # {} => "late" \in Late(h)
  BY DEF Late
<1> QED
  BY <1>2, <1>3, <1>4

\* What holds after such a stop whatever else the step does: now is what the stop
\* leaves of the attempts, a new attempt of an instance i may follow.
LEMMA StopLively ==
  ASSUME SlackInv, channels # <<>>, NEW h \in Instances, h = Head(channels), StopInstance(h),
         \A b \in Attempts : /\ owner'[b] # owner[b] => stage[b] = "unused" /\ owner'[b] # h
                             /\ owner'[b] = owner[b] => stage'[b] = Unsocketed(h)[b],
         loose' = loose \cup Crossed \cup Late(h),
         \A j \in Instances : ListedNow(j)' => ListedNow(j)
  PROVE  /\ Late(h) = {} => ~Lively(h)'
         /\ \A j \in Instances : Lively(j) /\ ~halted[j] /\ j # h => Lively(j)'
         /\ \A j \in Instances :
              (\A b \in Attempts : owner'[b] = j => owner[b] = j) /\ Lively(j)' => Lively(j)
         /\ \A j \in Instances :
              ListedNow(j)' /\ ~halted'[j] => Lively(j)'
         /\ \A j \in Instances :
              online'[j] => \E b \in Attempts : owner'[b] = j /\ stage'[b] \in {"open", "closing"}
<1>1. /\ \A b \in Attempts : \/ Unsocketed(h)[b] = stage[b]
                             \/ /\ Unsocketed(h)[b] = "closing"
                                /\ stage[b] \in {"dialing", "open"}
      /\ halted'[h] /\ ~rearmed'[h] /\ ~online'[h]
      /\ \A j \in Instances :
           j # h => halted'[j] = halted[j] /\ rearmed'[j] = rearmed[j] /\ online'[j] = online[j]
      /\ Late(h) = {} => \A b \in Of(h) : Unsocketed(h)[b] \notin {"asking", "dialing", "open"}
  BY StopFacts
<1> USE DEF SlackInv
<1>2. Late(h) = {} => ~Lively(h)'
  BY <1>1 DEF Lively, Of
<1>3. ASSUME NEW j \in Instances, Lively(j), ~halted[j], j # h PROVE Lively(j)'
  <2>1. CASE rearmed[j]
    BY <1>1, <1>3, <2>1 DEF Lively
  <2>2. CASE ~rearmed[j]
    <3>1. PICK b \in Attempts : owner[b] = j /\ stage[b] \in {"asking", "dialing", "open", "closing"}
      BY <1>3, <2>2 DEF Lively, Of
    <3>2. owner'[b] = j /\ stage'[b] \in {"asking", "dialing", "open", "closing"}
      BY <1>1, <3>1
    <3>3. ~halted'[j]
      BY <1>1, <1>3
    <3> QED
      BY <3>2, <3>3 DEF Lively, Of
  <2> QED
    BY <2>1, <2>2
<1>4. ASSUME NEW j \in Instances, \A b \in Attempts : owner'[b] = j => owner[b] = j, Lively(j)'
      PROVE  Lively(j)
  <2>1. CASE rearmed'[j]
    BY <1>1, <2>1 DEF Lively
  <2>2. CASE ~rearmed'[j]
    <3>1. PICK b \in Attempts : /\ owner'[b] = j
                                /\ \/ stage'[b] \in {"asking", "dialing", "open"}
                                   \/ stage'[b] = "closing" /\ ~halted'[j]
      BY <1>4, <2>2 DEF Lively, Of
    <3>2. owner[b] = j /\ stage'[b] = Unsocketed(h)[b]
      BY <1>4, <3>1
    <3>3. ~halted'[j] => ~halted[j]
      BY <1>1
    <3> QED
      BY <1>1, <3>1, <3>2, <3>3 DEF Lively, Of
  <2> QED
    BY <2>1, <2>2
<1>5. ASSUME NEW j \in Instances, ListedNow(j)', ~halted'[j] PROVE Lively(j)'
  <2>1. ListedNow(j) /\ ~halted[j] /\ j # h
    BY <1>1, <1>5
  <2>2. Lively(j)
    BY <2>1 DEF LivelyInv, NeverGivesUp, ListedNow
  <2> QED
    BY <1>3, <2>1, <2>2
<1>6. ASSUME NEW j \in Instances, online'[j]
      PROVE  \E b \in Attempts : owner'[b] = j /\ stage'[b] \in {"open", "closing"}
  <2>1. online[j]
    BY <1>1, <1>6
  <2>2. PICK b \in Attempts : owner[b] = j /\ stage[b] \in {"open", "closing"}
    BY <2>1 DEF LivelyInv, Of
  <2> QED
    BY <1>1, <2>2
<1> QED
  BY <1>2, <1>3, <1>4, <1>5, <1>6

LEMMA DisableKeeps ==
  ASSUME SlackInv, NEW c \in AdminCalls, Disable(c)
  PROVE  SlackInv'
<1> USE DEF SlackInv
<1>1. /\ request[c] = "new" /\ enabled /\ ~enabled'
      /\ request' = [request EXCEPT ![c] = "over"]
      /\ UNCHANGED <<made, owner, caller, startup>>
  BY DEF Disable
<1>2. \A d \in AdminCalls : Begun(d)' => Begun(d)
  BY <1>1 DEF Begun, SlackTypeInv
<1>3. Busy' => Busy
  BY <1>1, <1>2 DEF Busy, Begun
<1>4. CASE /\ channels = <<>>
           /\ loose' = loose \cup Crossed
           /\ UNCHANGED <<channels, halted, online, rearmed, socket, stage>>
  <2>1. SlackBase'
    <3>1. /\ stage' \in [Attempts -> Stages] /\ \A j : ListedNow(j)' => ListedNow(j)
          /\ halted' \in [Instances -> BOOLEAN] /\ rearmed' \in [Instances -> BOOLEAN]
          /\ online' \in [Instances -> BOOLEAN] /\ channels' \in Seq(Instances)
          /\ socket' \in [Instances -> Attempts \cup {NoAttempt}]
      BY <1>4 DEF SlackTypeInv, ListedNow
    <3> HIDE DEF SlackInv
    <3> QED
      BY <1>1, <1>4, <3>1, StopBase DEF SlackBase, SlackInv
  <2>2. \A j : (Lively(j)' <=> Lively(j)) /\ (Of(j)' = Of(j))
    BY <1>1, <1>4 DEF Lively, Of
  <2>3. LivelyInv'
    BY <1>4, <2>2 DEF LivelyInv, NeverGivesUp, HaltHolds, Crossed
  <2>4. OrderInv'
    <3> SUFFICES ASSUME loose' = {} PROVE OrderInv'
      BY DEF OrderInv
    <3>1. loose = {} /\ ~Busy
      BY <1>4 DEF Crossed
    <3>2. \A j \in Instances : ~Lively(j)
      <4> SUFFICES ASSUME NEW j \in Instances, Lively(j) PROVE FALSE
        OBVIOUS
      <4>1. channels # <<j>>
        BY <1>4
      <4>2. Awaited(j)
        BY <3>1, <4>1, InOrder
      <4> QED
        BY <3>1, <4>2, AwaitedIsBusy DEF SlackBase
    <3> QED
      BY <1>1, <1>2, <1>3, <1>4, <2>2, <3>1, <3>2, InOrder DEF OrderInv
  <2> QED
    BY <2>1, <2>3, <2>4 DEF SlackBase
<1>5. CASE /\ channels # <<>>
           /\ StopInstance(Head(channels))
           /\ stage' = Unsocketed(Head(channels))
           /\ channels' = Tail(channels)
           /\ loose' = loose \cup Crossed \cup Late(Head(channels))
  <2>0. /\ Head(channels) \in Instances /\ ListedNow(Head(channels))
        /\ channels' \in Seq(Instances)
        /\ \A j : ListedNow(j)' => ListedNow(j)
        /\ Len(channels) <= 1 => channels = <<Head(channels)>> /\ channels' = <<>>
    BY <1>5, HeadListed DEF ListedNow
  <2>1. PICK h \in Instances : h = Head(channels) /\ StopInstance(h)
    BY <1>5, <2>0
  <2>2. /\ stage' = Unsocketed(h) /\ loose' = loose \cup Crossed \cup Late(h) /\ ListedNow(h)
    BY <1>5, <2>0, <2>1
  <2>3. /\ stage' \in [Attempts -> Stages]
        /\ \A b \in Attempts : \/ stage'[b] = stage[b]
                               \/ stage'[b] = "closing" /\ stage[b] \in {"dialing", "open"}
        /\ halted' \in [Instances -> BOOLEAN] /\ rearmed' \in [Instances -> BOOLEAN]
        /\ online' \in [Instances -> BOOLEAN] /\ socket' \in [Instances -> Attempts \cup {NoAttempt}]
        /\ halted'[h] /\ ~rearmed'[h] /\ ~online'[h]
        /\ \A j \in Instances :
             j # h => halted'[j] = halted[j] /\ rearmed'[j] = rearmed[j] /\ online'[j] = online[j]
        /\ Late(h) = {} => \A b \in Of(h) : stage'[b] \notin {"asking", "dialing", "open"}
        /\ Late(h) # {} => "late" \in Late(h)
    BY <1>5, <2>1, <2>2, StopFacts
  <2>4. /\ Late(h) = {} => ~Lively(h)'
        /\ \A j \in Instances : Lively(j)' => Lively(j)
        /\ \A j \in Instances : ListedNow(j)' /\ ~halted'[j] => Lively(j)'
        /\ \A j \in Instances :
             online'[j] => \E b \in Attempts : owner'[b] = j /\ stage'[b] \in {"open", "closing"}
    <3>1. \A b \in Attempts : /\ owner'[b] # owner[b] => stage[b] = "unused" /\ owner'[b] # h
                              /\ owner'[b] = owner[b] => stage'[b] = Unsocketed(h)[b]
      BY <1>1, <2>2
    <3>2. \A j \in Instances : \A b \in Attempts : owner'[b] = j => owner[b] = j
      BY <1>1
    <3> HIDE DEF SlackInv
    <3> QED
      BY <1>5, <2>0, <2>1, <2>2, <3>1, <3>2, StopLively
  <2>5. SlackBase'
    <3>1. \A j \in Instances : /\ halted'[j] => halted[j] \/ ListedNow(j)
                               /\ rearmed'[j] => rearmed[j]
      BY <2>2, <2>3
    <3> HIDE DEF SlackInv
    <3> QED
      BY <1>1, <2>0, <2>3, <3>1, StopBase DEF SlackBase, SlackInv
  <2>6. LivelyInv'
    <3>1. ASSUME NEW j \in Instances, halted'[j]
          PROVE  ~rearmed'[j] /\ ("late" \in loose' \/ ~Lively(j)')
      BY <2>2, <2>3, <2>4, <3>1 DEF LivelyInv, HaltHolds
    <3>2. NeverGivesUp' /\ HaltHolds'
      BY <2>4, <3>1 DEF NeverGivesUp, HaltHolds, ListedNow
    <3> QED
      BY <2>4, <3>2 DEF LivelyInv, Of
  <2>7. OrderInv'
    <3> SUFFICES ASSUME loose' = {} PROVE OrderInv'
      BY DEF OrderInv
    <3>0. loose = {} /\ ~Busy /\ Late(h) = {}
      BY <2>2 DEF Crossed
    <3>1. /\ \A b, d \in Attempts :
               stage[b] \in Underway /\ stage[d] \in Underway /\ owner[b] = owner[d] => b = d
          /\ \A b \in Attempts : stage[b] \in Underway => ~rearmed[owner[b]]
          /\ \A b \in Attempts : stage[b] = "open" => online[owner[b]]
          /\ \A j \in Instances : Lively(j) => channels = <<j>> \/ Awaited(j)
          /\ Len(channels) <= 1
      BY <3>0, InOrder
    <3>2. \A j \in Instances : ~Lively(j)'
      <4> SUFFICES ASSUME NEW j \in Instances, Lively(j)' PROVE FALSE
        OBVIOUS
      <4>1. channels = <<j>>
        BY <2>4, <3>0, <3>1, AwaitedIsBusy DEF SlackBase
      <4>2. j = h
        BY <2>1, <4>1
      <4> QED
        BY <2>4, <3>0, <4>2
    <3>3. \A b \in Attempts : stage'[b] \in Underway => stage[b] \in Underway
      BY <2>3 DEF Underway
    <3>4. \A b \in Attempts : stage'[b] \in Underway => ~rearmed'[owner[b]]
      <4> SUFFICES ASSUME NEW b \in Attempts, stage'[b] \in Underway PROVE ~rearmed'[owner[b]]
        OBVIOUS
      <4>1. owner[b] \in Instances /\ ~rearmed[owner[b]]
        BY <3>1, <3>3 DEF CallersInv, Underway
      <4> QED
        BY <2>3, <4>1
    <3>5. \A b \in Attempts : stage'[b] = "open" => online'[owner[b]]
      <4> SUFFICES ASSUME NEW b \in Attempts, stage'[b] = "open" PROVE online'[owner[b]]
        OBVIOUS
      <4>1. stage[b] = "open" /\ owner[b] \in Instances /\ online[owner[b]]
        BY <2>3, <3>1 DEF CallersInv
      <4>2. owner[b] # h
        BY <2>3, <3>0 DEF Of
      <4> QED
        BY <2>3, <4>1, <4>2
    <3>6. ~Busy' /\ startup' = "over" /\ Len(channels') <= 1 /\ \A d \in AdminCalls : ~Begun(d)'
      <4>1. channels' = <<>>
        BY <2>0, <3>1
      <4> QED
        BY <1>1, <1>2, <1>3, <3>0, <4>1 DEF Busy, Begun
    <3> QED
      BY <1>1, <3>1, <3>2, <3>3, <3>4, <3>5, <3>6 DEF OrderInv
  <2> QED
    BY <2>5, <2>6, <2>7 DEF SlackBase
<1> QED
  BY <1>4, <1>5 DEF Disable

LEMMA ReconnectKeeps ==
  ASSUME SlackInv, NEW c \in AdminCalls, Reconnect(c)
  PROVE  SlackInv'
<1> USE DEF SlackInv
<1>1. request[c] = "new" /\ enabled /\ enabled' /\ UNCHANGED <<channels, startup>>
  BY DEF Reconnect
<1>2. CASE /\ channels = <<>>
           /\ Activate(c, "activating")
           /\ UNCHANGED <<halted, online, rearmed, socket>>
  <2> HIDE DEF SlackInv
  <2> QED
    BY <1>1, <1>2, ActivateKeeps
<1>3. CASE /\ channels # <<>>
           /\ StopInstance(Head(channels))
           /\ MakeAndConnect(c, "activating", Unsocketed(Head(channels)))
           /\ loose' = loose \cup Crossed \cup Late(Head(channels))
  <2>0. /\ Head(channels) \in Instances /\ ListedNow(Head(channels))
        /\ Len(channels) <= 1 => channels = <<Head(channels)>>
    BY <1>3, HeadListed
  <2>1. PICK h \in Instances : h = Head(channels) /\ StopInstance(h)
    BY <1>3, <2>0
  <2>2. PICK i \in Instances : i = made + 1
    BY <1>3 DEF MakeAndConnect
  <2>3. made' = i /\ StartAttempt(i, c, Unsocketed(h)) /\ request' = [request EXCEPT ![c] = "activating"]
    BY <1>3, <2>1, <2>2 DEF MakeAndConnect
  <2>4. PICK a \in Attempts : /\ stage[a] = "unused"
                              /\ stage' = [Unsocketed(h) EXCEPT ![a] = "asking"]
                              /\ owner' = [owner EXCEPT ![a] = i]
                              /\ caller' = [caller EXCEPT ![a] = c]
    BY <2>3, StartFacts
  <2>5. /\ Unsocketed(h) \in [Attempts -> Stages]
        /\ \A b \in Attempts : \/ Unsocketed(h)[b] = stage[b]
                               \/ /\ Unsocketed(h)[b] = "closing"
                                  /\ stage[b] \in {"dialing", "open"}
        /\ halted' \in [Instances -> BOOLEAN] /\ rearmed' \in [Instances -> BOOLEAN]
        /\ online' \in [Instances -> BOOLEAN] /\ socket' \in [Instances -> Attempts \cup {NoAttempt}]
        /\ halted'[h] /\ ~rearmed'[h] /\ ~online'[h]
        /\ \A j \in Instances :
             j # h => halted'[j] = halted[j] /\ rearmed'[j] = rearmed[j] /\ online'[j] = online[j]
        /\ Late(h) = {} => \A b \in Of(h) : Unsocketed(h)[b] \notin {"asking", "dialing", "open"}
        /\ Late(h) # {} => "late" \in Late(h)
    BY <1>3, <2>1, StopFacts
  <2>6. /\ stage' \in [Attempts -> Stages] /\ stage'[a] = "asking" /\ owner'[a] = i /\ caller'[a] = c
        /\ \A b \in Attempts : b # a => /\ stage'[b] = Unsocketed(h)[b] /\ owner'[b] = owner[b]
                                        /\ \/ stage'[b] = stage[b]
                                           \/ stage'[b] = "closing" /\ stage[b] \in {"dialing", "open"}
    BY <2>4, <2>5 DEF SlackTypeInv, Stages
  <2>7. /\ i # h /\ ~halted[i] /\ ~rearmed[i] /\ ~ListedNow(i)
        /\ \A b \in Attempts : stage[b] # "unused" => owner[b] # i
    <3>1. i > made /\ ~(i <= made)
      BY <2>2, SlackAssumption DEF SlackTypeInv
    <3> QED
      BY <2>0, <2>1, <3>1 DEF CallersInv
  <2>8. \A j : ListedNow(j)' <=> ListedNow(j)
    BY <1>1 DEF ListedNow
  <2>9. loose' = loose \cup Crossed \cup Late(h) /\ ListedNow(h)
    BY <1>3, <2>0, <2>1
  <2>10. SlackBase'
    <3>1. \A j \in Instances : /\ halted'[j] => halted[j] \/ ListedNow(j)
                               /\ rearmed'[j] => rearmed[j]
      BY <2>5, <2>9
    <3>2. request' \in {[request EXCEPT ![c] = "activating"], [request EXCEPT ![c] = "enabling"]}
      BY <2>3
    <3> HIDE DEF SlackInv
    <3> QED
      BY <1>1, <2>2, <2>3, <2>4, <2>5, <2>6, <3>1, <3>2, StartBase DEF SlackBase, SlackInv
  <2>11. /\ Late(h) = {} => ~Lively(h)'
         /\ \A j \in Instances : j # i /\ Lively(j)' => Lively(j)
         /\ \A j \in Instances : ListedNow(j)' /\ ~halted'[j] => Lively(j)'
         /\ \A j \in Instances :
              online'[j] => \E b \in Attempts : owner'[b] = j /\ stage'[b] \in {"open", "closing"}
    <3>1. \A b \in Attempts : /\ owner'[b] # owner[b] => stage[b] = "unused" /\ owner'[b] # h
                              /\ owner'[b] = owner[b] => stage'[b] = Unsocketed(h)[b]
      BY <2>4, <2>6, <2>7, OneIsNumber DEF CallersInv
    <3>2. \A j \in Instances : j # i => \A b \in Attempts : owner'[b] = j => owner[b] = j
      BY <2>6
    <3> HIDE DEF SlackInv
    <3> QED
      BY <1>3, <2>1, <2>8, <2>9, <3>1, <3>2, StopLively
  <2>12. LivelyInv'
    <3>1. ASSUME NEW j \in Instances, halted'[j]
          PROVE  ~rearmed'[j] /\ ("late" \in loose' \/ ~Lively(j)')
      BY <2>5, <2>7, <2>9, <2>11, <3>1 DEF LivelyInv, HaltHolds
    <3>2. NeverGivesUp' /\ HaltHolds'
      BY <2>11, <3>1 DEF NeverGivesUp, HaltHolds, ListedNow
    <3> QED
      BY <2>11, <3>2 DEF LivelyInv, Of
  <2>13. OrderInv'
    <3> SUFFICES ASSUME loose' = {} PROVE OrderInv'
      BY DEF OrderInv
    <3>0. loose = {} /\ ~Busy /\ Late(h) = {}
      BY <2>9 DEF Crossed
    <3>1. /\ \A b, d \in Attempts :
               stage[b] \in Underway /\ stage[d] \in Underway /\ owner[b] = owner[d] => b = d
          /\ \A b \in Attempts : stage[b] \in Underway => ~rearmed[owner[b]]
          /\ \A b \in Attempts : stage[b] = "open" => online[owner[b]]
          /\ \A j \in Instances : Lively(j) => channels = <<j>> \/ Awaited(j)
          /\ Len(channels) <= 1
      BY <3>0, InOrder
    <3>2. \A j \in Instances : Lively(j)' => j = i
      <4> SUFFICES ASSUME NEW j \in Instances, Lively(j)', j # i PROVE FALSE
        OBVIOUS
      <4>1. channels = <<j>>
        BY <2>11, <3>0, <3>1, AwaitedIsBusy DEF SlackBase
      <4>2. j = h
        BY <2>1, <4>1
      <4> QED
        BY <2>11, <3>0, <4>2
    <3>3. \A b \in Attempts : b # a /\ stage'[b] \in Underway
                                => stage[b] \in Underway /\ owner[b] # i /\ owner[b] \in Instances
      BY <2>6, <2>7 DEF Underway, CallersInv
    <3>4. \A b \in Attempts : stage'[b] \in Underway => ~rearmed'[owner'[b]]
      <4> SUFFICES ASSUME NEW b \in Attempts, stage'[b] \in Underway, b # a
                   PROVE  ~rearmed'[owner'[b]]
        BY <2>5, <2>6, <2>7
      <4>1. owner[b] \in Instances /\ ~rearmed[owner[b]] /\ owner'[b] = owner[b]
        BY <2>6, <3>1, <3>3
      <4> QED
        BY <2>5, <4>1
    <3>5. \A b \in Attempts : stage'[b] = "open" => online'[owner'[b]]
      <4> SUFFICES ASSUME NEW b \in Attempts, stage'[b] = "open" PROVE online'[owner'[b]]
        OBVIOUS
      <4>1. b # a /\ owner'[b] = owner[b] /\ Unsocketed(h)[b] = "open"
        BY <2>6
      <4>2. stage[b] = "open" /\ owner[b] \in Instances /\ online[owner[b]]
        BY <2>5, <3>1, <4>1 DEF CallersInv
      <4>3. owner[b] # h
        BY <2>5, <3>0, <4>1 DEF Of
      <4> QED
        BY <2>5, <4>1, <4>2, <4>3
    <3>6. \A b, d \in Attempts :
            stage'[b] \in Underway /\ stage'[d] \in Underway /\ owner'[b] = owner'[d] => b = d
      BY <2>6, <3>1, <3>3
    <3>7. Awaited(i)'
      BY <2>6 DEF Awaited, Of
    <3>8. startup' = "over" /\ \A d \in AdminCalls : Begun(d)' => d = c
      BY <1>1, <2>3, <3>0 DEF Busy, Begun, SlackTypeInv
    <3>9. \A j \in Instances : Lively(j)' => channels' = <<j>> \/ Awaited(j)'
      BY <3>2, <3>7
    <3> QED
      BY <1>1, <3>1, <3>2, <3>4, <3>5, <3>6, <3>8, <3>9 DEF OrderInv
  <2> QED
    BY <2>10, <2>12, <2>13 DEF SlackBase
<1> QED
  BY <1>2, <1>3 DEF Reconnect

LEMMA InitSlack == SlackInit => SlackInv
<1> SUFFICES ASSUME SlackInit PROVE SlackInv
  OBVIOUS
<1> USE DEF SlackInit
<1>1. SlackTypeInv
  <2>1. /\ stage \in [Attempts -> Stages] /\ caller \in [Attempts -> Callers]
        /\ owner \in [Attempts -> Instances \cup {NoInstance}]
    BY OneIsNumber DEF Stages, Callers
  <2> QED
    BY <2>1, OneIsNumber DEF SlackTypeInv
<1>2. /\ \A a \in Attempts : /\ stage[a] = IF a = 1 THEN "asking" ELSE "unused"
                             /\ owner[a] = IF a = 1 THEN 1 ELSE NoInstance
                             /\ caller[a] = IF a = 1 THEN "startup" ELSE "nobody"
      /\ 1 \in Attempts
  BY SlackAssumption
<1>3. \A j : ~ListedNow(j)
  BY DEF ListedNow
<1>4. CallersInv
  BY <1>2, <1>3, SlackAssumption, OneIsNumber DEF CallersInv, Asked, Begun
<1>5. \A j \in Instances : Lively(j) => j = 1
  BY <1>2, OneIsNumber DEF Lively, Of
<1>6. LivelyInv
  BY <1>3 DEF LivelyInv, NeverGivesUp, HaltHolds, ListedNow
<1>7. loose = {} => enabled
  OBVIOUS
<1>8. OrderInv
  <2>1. \A a \in Attempts : stage[a] \in Underway => a = 1
    BY <1>2 DEF Underway
  <2>2. \A j \in Instances : Lively(j) => Awaited(j)
    BY <1>5 DEF Awaited
  <2>3. \A a \in Attempts : stage[a] \in Underway => ~rearmed[owner[a]]
    BY <1>2, <2>1, OneIsNumber
  <2>4. \A a \in Attempts : stage[a] # "open"
    BY <1>2
  <2>5. Len(channels) = 0 /\ \A c \in AdminCalls : ~Begun(c)
    BY DEF Begun
  <2> QED
    <3> SUFFICES ASSUME loose = {} PROVE OrderInv
      BY DEF OrderInv
    <3>0. enabled /\ channels = <<>>
      BY <1>7
    <3>1. \A j, k \in Instances : Lively(j) /\ Lively(k) => j = k
      BY <1>5
    <3>2. \A a, b \in Attempts :
            stage[a] \in Underway /\ stage[b] \in Underway /\ owner[a] = owner[b] => a = b
      BY <2>1
    <3> HIDE DEF SlackInit
    <3> QED
      BY <2>2, <2>3, <2>4, <2>5, <3>0, <3>1, <3>2 DEF OrderInv
<1> QED
  BY <1>1, <1>4, <1>6, <1>8 DEF SlackInv

LEMMA NextSlack == SlackInv /\ [SlackNext]_slackVars => SlackInv'
<1> SUFFICES ASSUME SlackInv, [SlackNext]_slackVars PROVE SlackInv'
  OBVIOUS
<1>1. CASE UNCHANGED slackVars
  <2>1. \A j : (Lively(j)' <=> Lively(j)) /\ (Awaited(j)' <=> Awaited(j)) /\ (Of(j)' = Of(j))
    BY <1>1 DEF slackVars, Lively, Awaited, Of
  <2>2. (Busy' <=> Busy) /\ \A c : (Begun(c)' <=> Begun(c)) /\ (Asked(c)' <=> Asked(c))
                                   /\ (ListedNow(c)' <=> ListedNow(c))
    BY <1>1 DEF slackVars, Busy, Begun, Asked, ListedNow
  <2>3. SlackTypeInv' /\ LivelyInv' /\ OrderInv'
    BY <1>1, <2>1, <2>2 DEF slackVars, SlackInv, SlackTypeInv, LivelyInv, OrderInv, NeverGivesUp, HaltHolds
  <2>4. CallersInv'
    BY <1>1 DEF slackVars, SlackInv, CallersInv, Asked, Begun, ListedNow
  <2> QED
    BY <2>3, <2>4 DEF SlackInv
<1>2. CASE \E a \in Attempts :
             UrlArrives(a) \/ Opens(a) \/ SlackAskFails(a) \/ SocketDrops(a) \/ SocketClosed(a)
  BY <1>2, UrlArrivesKeeps, OpensKeeps, SlackAskFailsKeeps, SocketDropsKeeps, SocketClosedKeeps
<1>3. CASE \E i \in Instances : TimerFires(i)
  BY <1>3, TimerFiresKeeps
<1>4. CASE StartupTriesAgain
  BY <1>4, StartupTriesAgainKeeps
<1>5. ASSUME NEW c \in AdminCalls, SaveSettings(c) \/ Enable(c) PROVE SlackInv'
  <2>1. CASE SaveSettings(c)
    <3>1. /\ request[c] = "new" /\ enabled' /\ Activate(c, "activating")
          /\ UNCHANGED <<channels, halted, online, rearmed, socket, startup>>
      BY <2>1 DEF SaveSettings
    <3> QED
      BY <3>1, ActivateKeeps
  <2>2. CASE Enable(c)
    <3>1. /\ request[c] = "new" /\ enabled' /\ Activate(c, "enabling")
          /\ UNCHANGED <<channels, halted, online, rearmed, socket, startup>>
      BY <2>2 DEF Enable
    <3> QED
      BY <3>1, ActivateKeeps
  <2> QED
    BY <1>5, <2>1, <2>2
<1>6. CASE \E c \in AdminCalls : Disable(c) \/ Reconnect(c)
  BY <1>6, DisableKeeps, ReconnectKeeps
<1> QED
  BY <1>1, <1>2, <1>3, <1>4, <1>5, <1>6 DEF SlackNext

\* A finite or infinite set all of whose members are one has at most one.
LEMMA AtMostOne ==
  ASSUME NEW S, \A x, y \in S : x = y
  PROVE  Cardinality(S) <= 1
<1>1. CASE S = {}
  BY <1>1, FS_EmptySet
<1>2. CASE S # {}
  <2>1. PICK x : S = {x}
    BY <1>2
  <2> QED
    BY <2>1, FS_Singleton
<1> QED
  BY <1>1, <1>2

LEMMA SlackInvCorrect == SlackInv => SlackCorrect
<1> SUFFICES ASSUME SlackInv PROVE SlackCorrect
  OBVIOUS
<1> USE DEF SlackInv
<1>1. OneReachable
  <2> SUFFICES ASSUME loose = {} PROVE OneReachable
    BY DEF OneReachable
  <2>1. /\ \A b, c \in Attempts :
             stage[b] \in Underway /\ stage[c] \in Underway /\ owner[b] = owner[c] => b = c
        /\ \A j, k \in Instances : Lively(j) /\ Lively(k) => j = k
        /\ \A j \in Instances : Lively(j) => channels = <<j>> \/ Awaited(j)
        /\ ~enabled => \A j \in Instances : ~Lively(j)
    BY InOrder
  <2>2. Cardinality({j \in Instances : Lively(j)}) <= 1
    <3> DEFINE S == {j \in Instances : Lively(j)}
    <3>1. \A x, y \in S : x = y
      BY <2>1
    <3> HIDE DEF S
    <3>2. Cardinality(S) <= 1
      BY <3>1, AtMostOne
    <3> QED
      BY <3>2 DEF S
  <2>3. ASSUME NEW j \in Instances PROVE Cardinality({a \in Of(j) : stage[a] = "open"}) <= 1
    <3> DEFINE S == {a \in Of(j) : stage[a] = "open"}
    <3>1. \A x, y \in S : x = y
      BY <2>1 DEF Of, Underway
    <3> HIDE DEF S
    <3>2. Cardinality(S) <= 1
      BY <3>1, AtMostOne
    <3> QED
      BY <3>2 DEF S
  <2> QED
    BY <2>1, <2>2, <2>3 DEF OneReachable
<1>2. OnlineIsOpen
  <2>1. \A j \in Instances : loose = {} /\ ~online[j] => \A a \in Of(j) : stage[a] # "open"
    BY InOrder DEF Of
  <2> QED
    BY <2>1 DEF OnlineIsOpen, LivelyInv
<1> QED
  BY <1>1, <1>2 DEF SlackCorrect, LivelyInv

\* Whatever the instances, the attempts and the administrator's requests: as long as
\* nothing got out of hand there is one connection and who stops the channel reaches
\* it, a listed instance never gives up, a stopped one stays stopped, and isConnected
\* tells no lie that lasts; and the sessions of remote control can be reached and
\* ended (activateRegisteredChannel and its kin, SlackChannel, remote-control.ts).
THEOREM ConnectionsAreCorrect == ChannelsSpec => []ConnectionsCorrect
<1>1. ChannelsInit => SlackInv
  BY InitSlack DEF ChannelsInit
<1>2. SlackInv /\ [ChannelsNext]_<<part, smsVars, slackVars, inboundVars, remoteVars>> => SlackInv'
  BY NextSlack DEF ChannelsNext
<1>3. SlackInv /\ RemoteCorrect => ConnectionsCorrect
  BY SlackInvCorrect DEF ConnectionsCorrect
<1> QED
  BY <1>1, <1>2, <1>3, RemoteIsCorrect, PTL DEF ChannelsSpec

=============================================================================
