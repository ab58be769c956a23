---------------------------- MODULE SlackChannels ----------------------------
(***************************************************************************)
(* A channel that keeps its own connection, and those who start, replace   *)
(* and stop it: the Slack channel (src/src/integrations/slack.ts), the     *)
(* registry of live channels (src/src/channel-runtime.ts), the startup of  *)
(* the host with its retries, and the administrator's requests, which run  *)
(* side by side.                                                           *)
(*                                                                         *)
(* A factory makes a new instance for every activation.  An attempt is one *)
(* call of connect() and the socket it opens; settling a promise and what  *)
(* awaits it are one step.                                                 *)
(***************************************************************************)
EXTENDS Integers, Sequences, FiniteSets, FiniteSetsExt

CONSTANTS
  Instances,      \* model bound: instances made in a behaviour, 1..n
  Attempts,       \* model bound: calls of connect() in a behaviour, 1..n
  AdminCalls,     \* the administrator's requests
  StartupRetries  \* model bound: retries of a channel that failed at startup

ASSUME SlackAssumption ==
  /\ Instances \subseteq Nat \ {0} /\ 1 \in Instances
  /\ Attempts \subseteq Nat \ {0} /\ 1 \in Attempts
  /\ AdminCalls \cap {"startup", "timer", "nobody"} = {}

NoInstance == 0
NoAttempt == 0

VARIABLES
  enabled,   \* isIntegrationEnabled
  channels,  \* the instances among the live channels, in order
  made,      \* instances made so far
  halted,    \* halted[i]: stopped
  online,    \* online[i]: connected
  rearmed,   \* rearmed[i]: reconnectTimer is armed
  socket,    \* socket[i]: the attempt whose socket this.socket is, or NoAttempt
  stage,     \* stage[a]: "unused", "asking", "dialing", "open", "closing", "over"
  owner,     \* owner[a]: the instance that connects
  caller,    \* caller[a]: "startup", "timer", an administrator's request, "nobody"
  startup,   \* "connecting", "waiting" to retry or "over"
  retries,   \* counts retries
  request,   \* request[c]: "new", "activating", "enabling" or "over"
  loose      \* history: how an instance or a socket may have got out of hand

slackVars == <<enabled, channels, made, halted, online, rearmed, socket, stage, owner,
               caller, startup, retries, request, loose>>

UnusedAttempts == {a \in Attempts : stage[a] = "unused"}
Of(i) == {a \in Attempts : owner[a] = i}

\* Startup makes the first instance and connects it, whether or not the
\* integration is enabled.
SlackInit ==
  /\ enabled \in BOOLEAN
  /\ channels = <<>>
  /\ made = 1
  /\ halted = [i \in Instances |-> FALSE]
  /\ online = [i \in Instances |-> FALSE]
  /\ rearmed = [i \in Instances |-> FALSE]
  /\ socket = [i \in Instances |-> NoAttempt]
  /\ stage = [a \in Attempts |-> IF a = 1 THEN "asking" ELSE "unused"]
  /\ owner = [a \in Attempts |-> IF a = 1 THEN 1 ELSE NoInstance]
  /\ caller = [a \in Attempts |-> IF a = 1 THEN "startup" ELSE "nobody"]
  /\ startup = "connecting"
  /\ retries = 0
  /\ request = [c \in AdminCalls |-> "new"]
  /\ loose = IF enabled THEN {} ELSE {"unasked"}

-----------------------------------------------------------------------------
(* The calls of connect() *)

\* connect() of instance i, called by w, where the attempts stand as in now.
StartAttempt(i, w, now) ==
  /\ UnusedAttempts # {}
  /\ LET a == Min(UnusedAttempts) IN
       /\ stage' = [now EXCEPT ![a] = "asking"]
       /\ owner' = [owner EXCEPT ![a] = i]
       /\ caller' = [caller EXCEPT ![a] = w]

\* auth.test and apps.connections.open are answered, and the socket is made.
UrlArrives(a) ==
  /\ stage[a] = "asking"
  /\ stage' = [stage EXCEPT ![a] = "dialing"]
  /\ socket' = [socket EXCEPT ![owner[a]] = a]
  /\ UNCHANGED <<enabled, channels, made, halted, online, rearmed, owner, caller,
                 startup, retries, request, loose>>

\* What an attempt's success means to its caller: the startup and an activation
\* put the instance among the channels, the latter in the place of the first.
Listed_Appended(a) ==
  IF caller[a] \in {"timer", "nobody"} THEN channels ELSE Append(channels, owner[a])
Listed(a) ==
  CASE caller[a] \in {"timer", "nobody"} -> channels
    [] caller[a] = "startup" \/ (caller[a] \in AdminCalls /\ channels = <<>>) ->
         Append(channels, owner[a])
    [] OTHER -> [channels EXCEPT ![1] = owner[a]]
Opens(a) ==
  /\ stage[a] = "dialing"
  /\ stage' = [stage EXCEPT ![a] = "open"]
  /\ online' = [online EXCEPT ![owner[a]] = TRUE]
  /\ channels' = Listed(a)
  /\ startup' = IF caller[a] = "startup" THEN "over" ELSE startup
  /\ request' = [c \in AdminCalls |-> IF caller[a] = c THEN "over" ELSE request[c]]
  /\ caller' = [caller EXCEPT ![a] = "nobody"]
  /\ UNCHANGED <<enabled, made, halted, rearmed, socket, owner, retries, loose>>

\* What its failure means: the startup tries again later or gives up, the timer is
\* armed again, and a request fails; one that enabled the integration disables it.
ArmsTimer_NotTimer(a, fromClose) == fromClose /\ caller[a] # "timer"
ArmsTimer(a, fromClose) == ~halted[owner[a]] /\ (fromClose \/ caller[a] = "timer")
FailsCaller(a, fromClose) ==
  /\ rearmed' = [rearmed EXCEPT ![owner[a]] = @ \/ ArmsTimer(a, fromClose)]
  /\ startup' = IF caller[a] # "startup" THEN startup
                ELSE IF retries < StartupRetries THEN "waiting" ELSE "over"
  /\ enabled' = (enabled /\ \A c \in AdminCalls : caller[a] = c => request[c] # "enabling")
  /\ request' = [c \in AdminCalls |-> IF caller[a] = c THEN "over" ELSE request[c]]
  /\ caller' = [caller EXCEPT ![a] = "nobody"]
  /\ loose' = loose \cup
       (IF caller[a] = "startup" /\ startup' = "over" /\ rearmed'[owner[a]] THEN {"abandoned"}
        ELSE IF caller[a] \in AdminCalls /\ rearmed'[owner[a]] THEN {"failed"}
        ELSE {})

\* Slack's API answers with an error, or not at all.
SlackAskFails(a) ==
  /\ stage[a] = "asking"
  /\ stage' = [stage EXCEPT ![a] = "over"]
  /\ FailsCaller(a, FALSE)
  /\ UNCHANGED <<channels, made, halted, online, socket, owner, retries>>

\* The socket fails before it is open, or is lost.
SocketDrops(a) ==
  /\ stage[a] \in {"dialing", "open"}
  /\ stage' = [stage EXCEPT ![a] = "closing"]
  /\ UNCHANGED <<enabled, channels, made, halted, online, rearmed, socket, owner,
                 caller, startup, retries, request, loose>>

\* onclose, of whichever socket of the instance; a caller that still waits fails.
SocketClosed(a) ==
  /\ stage[a] = "closing"
  /\ stage' = [stage EXCEPT ![a] = "over"]
  /\ socket' = [socket EXCEPT ![owner[a]] = IF @ = a THEN NoAttempt ELSE @]
  /\ online' = [online EXCEPT ![owner[a]] = FALSE]
  /\ FailsCaller(a, TRUE)
  /\ UNCHANGED <<channels, made, halted, owner, retries>>

TimerFires(i) ==
  /\ rearmed[i]
  /\ rearmed' = [rearmed EXCEPT ![i] = FALSE]
  /\ halted' = [halted EXCEPT ![i] = FALSE]
  /\ StartAttempt(i, "timer", stage)
  /\ UNCHANGED <<enabled, channels, made, online, socket, startup, retries, request,
                 loose>>

-----------------------------------------------------------------------------
(* The startup and the administrator *)

\* Something of instance i is connected or will try to be.
Lively(i) ==
  \/ rearmed[i]
  \/ \E a \in Of(i) : \/ stage[a] \in {"asking", "dialing", "open"}
                      \/ stage[a] = "closing" /\ ~halted[i]

\* The startup tries the same instance again, whatever its own timer has done.
StartupTriesAgain ==
  /\ startup = "waiting"
  /\ startup' = "connecting"
  /\ retries' = retries + 1
  /\ halted' = [halted EXCEPT ![1] = FALSE]
  /\ StartAttempt(1, "startup", stage)
  /\ loose' = loose \cup (IF Lively(1) THEN {"twice"} ELSE {})
  /\ UNCHANGED <<enabled, channels, made, online, rearmed, socket, request>>

Busy == startup # "over" \/ \E c \in AdminCalls : request[c] \in {"activating", "enabling"}
Crossed == IF Busy THEN {"crossed"} ELSE {}

\* disconnect(): the instance's current socket is closed, an attempt that has none
\* yet goes on.
Stopped_TimerStays(i) == rearmed
Stopped(i) == [rearmed EXCEPT ![i] = FALSE]
StopInstance(i) ==
  /\ halted' = [halted EXCEPT ![i] = TRUE]
  /\ online' = [online EXCEPT ![i] = FALSE]
  /\ rearmed' = Stopped(i)
  /\ socket' = [socket EXCEPT ![i] = NoAttempt]
Unsocketed(i) ==
  [a \in Attempts |-> IF a = socket[i] /\ stage[a] \in {"dialing", "open"} THEN "closing"
                      ELSE stage[a]]
Late(i) ==
  IF \E a \in Of(i) : Unsocketed(i)[a] \in {"asking", "dialing", "open"} THEN {"late"} ELSE {}

\* activateRegisteredChannel, with a new instance.
MakeAndConnect(c, kind, now) ==
  /\ made + 1 \in Instances
  /\ made' = made + 1
  /\ StartAttempt(made + 1, c, now)
  /\ request' = [request EXCEPT ![c] = kind]

\* The channel is not in the list, or is in it and not connected: then it is not
\* stopped, and goes on by itself.
IsOnline_Never == FALSE
IsOnline == channels # <<>> /\ online[Head(channels)]
Activate(c, kind) ==
  \/ /\ IsOnline
     /\ request' = [request EXCEPT ![c] = "over"]
     /\ loose' = loose \cup Crossed
     /\ UNCHANGED <<made, stage, owner, caller>>
  \/ /\ ~IsOnline
     /\ MakeAndConnect(c, kind, stage)
     /\ loose' = loose \cup Crossed
          \cup (IF channels # <<>> /\ ~online[Head(channels)] /\ Lively(Head(channels))
                  THEN {"displaced"} ELSE {})

\* Settings or credentials are saved.
SaveSettings(c) ==
  /\ request[c] = "new" /\ enabled
  /\ Activate(c, "activating")
  /\ UNCHANGED <<enabled, channels, halted, online, rearmed, socket, startup, retries>>

Enable(c) ==
  /\ request[c] = "new" /\ ~enabled
  /\ enabled' = TRUE
  /\ Activate(c, "enabling")
  /\ UNCHANGED <<channels, halted, online, rearmed, socket, startup, retries>>

\* deactivateRegisteredChannel.
Disable(c) ==
  /\ request[c] = "new" /\ enabled
  /\ enabled' = FALSE
  /\ request' = [request EXCEPT ![c] = "over"]
  /\ \/ /\ channels = <<>>
        /\ loose' = loose \cup Crossed
        /\ UNCHANGED <<channels, halted, online, rearmed, socket, stage>>
     \/ /\ channels # <<>>
        /\ StopInstance(Head(channels))
        /\ stage' = Unsocketed(Head(channels))
        /\ channels' = Tail(channels)
        /\ loose' = loose \cup Crossed \cup Late(Head(channels))
  /\ UNCHANGED <<made, owner, caller, startup, retries>>

\* reconnectRegisteredChannel.
Reconnect(c) ==
  /\ request[c] = "new" /\ enabled
  /\ \/ /\ channels = <<>>
        /\ Activate(c, "activating")
        /\ UNCHANGED <<halted, online, rearmed, socket>>
     \/ /\ channels # <<>>
        /\ StopInstance(Head(channels))
        /\ MakeAndConnect(c, "activating", Unsocketed(Head(channels)))
        /\ loose' = loose \cup Crossed \cup Late(Head(channels))
  /\ UNCHANGED <<enabled, channels, startup, retries>>

SlackNext ==
  \/ \E a \in Attempts :
       UrlArrives(a) \/ Opens(a) \/ SlackAskFails(a) \/ SocketDrops(a) \/ SocketClosed(a)
  \/ \E i \in Instances : TimerFires(i)
  \/ StartupTriesAgain
  \/ \E c \in AdminCalls : SaveSettings(c) \/ Enable(c) \/ Disable(c) \/ Reconnect(c)

-----------------------------------------------------------------------------
(* Properties *)

\* Somebody waits for a connection of instance i.
Awaited(i) ==
  \/ i = 1 /\ startup # "over"
  \/ \E a \in Of(i) : caller[a] \in AdminCalls

\* There is one connection, and who stops the channel reaches it: whatever is
\* connected or tries to be belongs to the first instance of the list or to the one
\* that is being started.  It may be otherwise only after the startup connected a
\* disabled integration or overlapped with the instance's own timer, after a first
\* connection failed whose socket arms the timer, after an activation during an
\* outage, after requests that overlapped, and after a stop while connect() was
\* waiting for Slack's API.
OneReachable ==
  loose = {} =>
    /\ ~enabled /\ ~Busy => \A i \in Instances : ~Lively(i)
    /\ Cardinality({i \in Instances : Lively(i)}) <= 1
    /\ \A i \in Instances : /\ Lively(i) => channels = <<i>> \/ Awaited(i)
                            /\ Cardinality({a \in Of(i) : stage[a] = "open"}) <= 1

\* An instance in the list that was not stopped never gives up.
NeverGivesUp ==
  \A i \in Instances :
    (\E n \in DOMAIN channels : channels[n] = i) /\ ~halted[i] => Lively(i)

\* A stopped instance stays stopped: no close event and no failure arms its timer.
HaltHolds ==
  \A i \in Instances :
    halted[i] => ~rearmed[i] /\ ("late" \in loose \/ ~Lively(i))

\* isConnected tells no lie that lasts.
OnlineIsOpen ==
  \A i \in Instances :
    /\ online[i] => \E a \in Of(i) : stage[a] \in {"open", "closing"}
    /\ loose = {} /\ ~online[i] => \A a \in Of(i) : stage[a] # "open"

SlackCorrect == OneReachable /\ NeverGivesUp /\ HaltHolds /\ OnlineIsOpen

=============================================================================
