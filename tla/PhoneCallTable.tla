---------------------------- MODULE PhoneCallTable ----------------------------
(***************************************************************************)
(* The calls of the phone voice channel                                    *)
(* (src/src/integrations/phone-voice.ts): the tables of calls, sessions    *)
(* and chats, and the handoffs that wait for the end of a call.            *)
(*                                                                         *)
(* The handlers of gateway events run side by side: each awaits the start  *)
(* of the runner's session, and the end of a call awaits its endSession.   *)
(* The gateway may announce a call again, and report its end twice.        *)
(***************************************************************************)
EXTENDS Integers, FiniteSets, FiniteSetsExt

CONSTANTS
  Calls,       \* call ids of the gateway
  Numbers,     \* phone numbers, one chat each
  CallSessions,\* model bound: sessions 1..CallSessions begin
  Handoffs     \* what may be handed to the agent after a call

ASSUME PhoneCallTableAssumption ==
  IsFiniteSet(Calls) /\ IsFiniteSet(Numbers) /\ CallSessions \in Nat /\ IsFiniteSet(Handoffs)

VARIABLES
  number,    \* who calls in each call
  sessionOf, \* sessionsByCallId: the session of a call, or 0
  known,     \* sessionsBySessionId
  callOf,    \* session.callId, or NoCall
  runner,    \* session.runnerReady: none, starting, ready, failed
  activeCall,\* activeCallByJid: the call of a number, or NoCall
  deferred,  \* session.deferredHandoffs
  enders,    \* handleCallRemoved calls under way: [id, session, at]
  filed,     \* the handoff files: none, pending, delivered
  handed,    \* history: handoffs given to onMessage
  handedTwice, \* history: handoffs given to it again
  replaced,  \* history: calls announced again while they were known, or whose session
             \* went with the end of an earlier one
  doubled,   \* history: sessions that two handleCallRemoved calls ended
  cleared    \* history: disconnect() has emptied the tables

tableVars == <<number, sessionOf, known, callOf, runner, activeCall, deferred, enders,
               filed, handed, handedTwice, replaced, doubled, cleared>>

NoCall == "none"
SessionIds == 1..CallSessions
Unborn == {s \in SessionIds : runner[s] = "none"}

TableInit ==
  /\ number \in [Calls -> Numbers]
  /\ sessionOf = [c \in Calls |-> 0]
  /\ known = {}
  /\ callOf = [s \in SessionIds |-> NoCall]
  /\ runner = [s \in SessionIds |-> "none"]
  /\ activeCall = [n \in Numbers |-> NoCall]
  /\ deferred = [s \in SessionIds |-> {}]
  /\ enders = {}
  /\ filed = [h \in Handoffs |-> "none"]
  /\ handed = {}
  /\ handedTwice = {}
  /\ replaced = {}
  /\ doubled = {}
  /\ cleared = FALSE

-----------------------------------------------------------------------------
(* An operator X_Y is X with a bug Y planted in it. *)

\* handleCallAdded, for a caller that is allowed, up to the await of startSession.
CallAdded(c) ==
  /\ Unborn # {}
  /\ LET s == Min(Unborn) IN
       /\ sessionOf' = [sessionOf EXCEPT ![c] = s]
       /\ known' = known \cup {s}
       /\ callOf' = [callOf EXCEPT ![s] = c]
       /\ runner' = [runner EXCEPT ![s] = "starting"]
  /\ activeCall' = [activeCall EXCEPT ![number[c]] = c]
  /\ replaced' = IF sessionOf[c] = 0 THEN replaced ELSE replaced \cup {c}
  /\ UNCHANGED <<number, deferred, enders, filed, handed, handedTwice, doubled,
                 cleared>>

\* startSession of the runner ends: it rejects when the sidecar is gone or late.
RunnerStarts(s) ==
  /\ runner[s] = "starting"
  /\ runner' \in {[runner EXCEPT ![s] = "ready"], [runner EXCEPT ![s] = "failed"]}
  /\ UNCHANGED <<number, sessionOf, known, callOf, activeCall, deferred, enders, filed,
                 handed, handedTwice, replaced, doubled, cleared>>

\* onHandoffEnqueue and the action mark_followup of the runner; markFollowupForChat.
Defer(s, h) ==
  /\ filed[h] = "none"
  /\ filed' = [filed EXCEPT ![h] = "pending"]
  /\ deferred' = [deferred EXCEPT ![s] = @ \cup {h}]
  /\ UNCHANGED <<number, sessionOf, known, callOf, runner, activeCall, enders, handed,
                 handedTwice, replaced, doubled, cleared>>

RunnerDefers(s, h) == s \in known /\ runner[s] = "ready" /\ Defer(s, h)

MarkFollowup(n, h) ==
  /\ activeCall[n] # NoCall
  /\ Defer(sessionOf[activeCall[n]], h)

\* handleCallRemoved: it waits for the start of the session ...
CallRemoved(c) ==
  /\ sessionOf[c] # 0
  /\ \E id \in {1, 2} :
       /\ \A e \in enders : e.session = sessionOf[c] => e.id < id
       /\ enders' = enders \cup {[id |-> id, session |-> sessionOf[c], at |-> "start"]}
       /\ doubled' = IF id = 2 THEN doubled \cup {sessionOf[c]} ELSE doubled
  /\ UNCHANGED <<number, sessionOf, known, callOf, runner, activeCall, deferred, filed,
                 handed, handedTwice, replaced, cleared>>

\* ... and for endSession; when the start failed it throws and changes nothing.
EnderGoesOn(e) ==
  /\ e.at = "start"
  /\ runner[e.session] # "starting"
  /\ enders' = (enders \ {e}) \cup
       IF runner[e.session] = "ready" THEN {[e EXCEPT !.at = "end"]} ELSE {}
  /\ UNCHANGED <<number, sessionOf, known, callOf, runner, activeCall, deferred, filed,
                 handed, handedTwice, replaced, doubled, cleared>>

\* endSession has returned: out of the tables, and the handoffs go to the agent.
ClearActive_Keeps(c) == activeCall
ClearActive(c) ==
  IF activeCall[number[c]] = c THEN [activeCall EXCEPT ![number[c]] = NoCall] ELSE activeCall
Flushed_Known(s) == IF sessionOf[callOf[s]] = s THEN {} ELSE deferred[s]
Flushed_OfChat(s) ==
  UNION {deferred[t] : t \in {t \in SessionIds : callOf[t] # NoCall /\ number[callOf[t]] = number[callOf[s]]}}
Flushed(s) == deferred[s]
CallEnds(e) ==
  LET s == e.session
      c == callOf[s] IN
  /\ e.at = "end"
  /\ enders' = enders \ {e}
  /\ sessionOf' = [sessionOf EXCEPT ![c] = 0]
  /\ known' = known \ {s}
  /\ activeCall' = ClearActive(c)
  /\ handed' = handed \cup Flushed(s)
  /\ handedTwice' = handedTwice \cup (handed \cap Flushed(s))
  /\ filed' = [h \in Handoffs |-> IF h \in Flushed(s) THEN "delivered" ELSE filed[h]]
  /\ replaced' = IF sessionOf[c] \in {0, s} THEN replaced ELSE replaced \cup {c}
  /\ UNCHANGED <<number, callOf, runner, deferred, doubled, cleared>>

\* endSession fails or times out: the handler throws.
EndFails(e) ==
  /\ e.at = "end"
  /\ enders' = enders \ {e}
  /\ UNCHANGED <<number, sessionOf, known, callOf, runner, activeCall, deferred, filed,
                 handed, handedTwice, replaced, doubled, cleared>>

\* disconnect(), once the runner has ended its sessions.
DisconnectCalls ==
  /\ ~cleared
  /\ cleared' = TRUE
  /\ sessionOf' = [c \in Calls |-> 0]
  /\ known' = {}
  /\ activeCall' = [n \in Numbers |-> NoCall]
  /\ UNCHANGED <<number, callOf, runner, deferred, enders, filed, handed, handedTwice,
                 replaced, doubled>>

-----------------------------------------------------------------------------
TableNext ==
  \/ \E c \in Calls : CallAdded(c) \/ CallRemoved(c)
  \/ \E s \in SessionIds : RunnerStarts(s) \/ \E h \in Handoffs : RunnerDefers(s, h)
  \/ \E n \in Numbers, h \in Handoffs : MarkFollowup(n, h)
  \/ \E e \in enders : EnderGoesOn(e) \/ CallEnds(e) \/ EndFails(e)
  \/ DisconnectCalls

TableSpec == TableInit /\ [][TableNext]_tableVars

-----------------------------------------------------------------------------
(* Properties *)

\* A chat that has an active call has its session: sendMessage and
\* markFollowupForChat never find a call without one, whatever calls of the same
\* number overlap, are announced again or end while others start.
ActiveHasSession ==
  \A n \in Numbers : activeCall[n] # NoCall => sessionOf[activeCall[n]] # 0

\* A handoff goes to the agent once, unless the end of its call was reported again
\* while the first report was being handled.
HandedOnce == \A h \in handedTwice : \E s \in doubled : h \in deferred[s]

\* A handoff that waits belongs to a call whose end is still to be handled, unless
\* the call was announced again or the channel disconnected; and one that was
\* delivered went to the agent.
HandoffsWait ==
  \A h \in Handoffs :
    /\ filed[h] = "pending" /\ ~cleared =>
         \E s \in SessionIds :
           h \in deferred[s] /\ (sessionOf[callOf[s]] = s \/ callOf[s] \in replaced)
    /\ filed[h] = "delivered" => h \in handed

\* The tables of calls agree, and each handoff finds its way from its call to the agent.
CallsCorrect == ActiveHasSession /\ HandedOnce /\ HandoffsWait

=============================================================================
