----------------------------- MODULE WhatsAppLine -----------------------------
(***************************************************************************)
(* The WhatsApp channel (src/src/integrations/whatsapp.ts): its connection *)
(* to WhatsApp through one library socket after another, and the queue of  *)
(* what is sent while there is none.                                       *)
(*                                                                         *)
(* Each close of a socket starts the next attempt; opening flushes the     *)
(* queue, one message at a time, while new messages are sent directly. A   *)
(* send settles at any time later, also on a socket that has been replaced.*)
(* Groups, profiles, read receipts and what comes in are left out.         *)
(***************************************************************************)
EXTENDS Integers, FiniteSets, Sequences

CONSTANTS
  WaSockets, \* model bound: sockets 1..WaSockets are made
  WaTexts    \* messages that are sent, each once

ASSUME WhatsAppLineAssumption == WaSockets \in Nat /\ "none" \notin WaTexts

VARIABLES
  waSock,     \* this.sock, or 0
  line,       \* the sockets: none, connecting, open, closed
  dialing,    \* connectInternal calls before their socket: none, first, again, retry
  retryTimer, \* the timer of 5 s after a failed reconnect
  waConnected,
  outgoing,   \* outgoingQueue
  flushItem,  \* the message flushOutgoingQueue is sending, with its socket; flushing iff there is one
  direct,     \* messages sendMessage is sending: [text, on]
  waGot,      \* history: what WhatsApp has, in order
  queuedOrder,\* history: what was queued, in order
  unsent,     \* the messages nobody has sent yet
  refused,    \* history: messages whose sender was told of the failure
  stalled,    \* history: a flush failed while the channel was connected, and no socket opened since
  lost        \* history: logged out, or attempts given up

lineVars == <<waSock, line, dialing, retryTimer, waConnected, outgoing, flushItem,
              direct, waGot, queuedOrder, unsent, refused, stalled, lost>>

NoItem == [text |-> "none", on |-> 0]
LineSockets == 1..WaSockets
UnmadeSockets == {s \in LineSockets : line[s] = "none"}
LiveSockets == {s \in LineSockets : line[s] \in {"connecting", "open"}}

LineInit ==
  /\ waSock = 0
  /\ line = [s \in LineSockets |-> "none"]
  /\ dialing = "first"
  /\ retryTimer = FALSE
  /\ waConnected = FALSE
  /\ outgoing = << >>
  /\ flushItem = NoItem
  /\ direct = {}
  /\ waGot = << >>
  /\ queuedOrder = << >>
  /\ unsent = WaTexts
  /\ refused = {}
  /\ stalled = FALSE
  /\ lost = FALSE

-----------------------------------------------------------------------------
(* An operator X_Y is X with a bug Y planted in it. *)

\* connectInternal makes its socket ...
Dialed ==
  /\ dialing # "none" /\ UnmadeSockets # {}
  /\ waSock' = CHOOSE s \in UnmadeSockets : \A t \in UnmadeSockets : s <= t
  /\ line' = [line EXCEPT ![waSock'] = "connecting"]
  /\ dialing' = "none"
  /\ UNCHANGED <<retryTimer, waConnected, outgoing, flushItem, direct, waGot,
                 queuedOrder, unsent, refused, stalled, lost>>

\* ... or throws: a failed reconnect is tried once more, 5 s later.
RetryAfter_Once(kind) == FALSE
RetryAfter(kind) == kind = "again"
LineDialFails ==
  /\ dialing # "none"
  /\ retryTimer' = RetryAfter(dialing)
  /\ lost' = (lost \/ dialing \in {"first", "retry"})
  /\ dialing' = "none"
  /\ UNCHANGED <<waSock, line, waConnected, outgoing, flushItem, direct, waGot,
                 queuedOrder, unsent, refused, stalled>>

RetryTimerFires ==
  /\ retryTimer
  /\ retryTimer' = FALSE
  /\ dialing' = "retry"
  /\ UNCHANGED <<waSock, line, waConnected, outgoing, flushItem, direct, waGot,
                 queuedOrder, unsent, refused, stalled, lost>>

\* flushOutgoingQueue takes the next message; it is called when a socket opens.
MayFlush_First == flushItem = NoItem /\ waSock = 1
MayFlush == flushItem = NoItem
TakeNext(sock) ==
  IF outgoing = << >>
  THEN flushItem' = NoItem /\ UNCHANGED outgoing
  ELSE flushItem' = [text |-> Head(outgoing), on |-> sock] /\ outgoing' = Tail(outgoing)

SocketOpens(s) ==
  /\ line[s] = "connecting"
  /\ line' = [line EXCEPT ![s] = "open"]
  /\ waConnected' = TRUE
  /\ stalled' = FALSE
  /\ IF MayFlush THEN TakeNext(waSock) ELSE UNCHANGED <<flushItem, outgoing>>
  /\ UNCHANGED <<waSock, dialing, retryTimer, direct, waGot, queuedOrder, unsent,
                 refused, lost>>

\* connection.update with close; logged out is the one reason not to reconnect.
LineRedials(loggedOut) == ~loggedOut
ClosesWith(s, loggedOut) ==
  /\ line[s] \in {"connecting", "open"}
  /\ dialing' = IF LineRedials(loggedOut) THEN "again" ELSE dialing
  /\ lost' = (lost \/ loggedOut)
  /\ line' = [line EXCEPT ![s] = "closed"]
  /\ waConnected' = FALSE
  /\ UNCHANGED <<waSock, retryTimer, outgoing, flushItem, direct, waGot, queuedOrder,
                 unsent, refused, stalled>>

SocketCloses(s) == \E loggedOut \in BOOLEAN : ClosesWith(s, loggedOut)

\* disconnect() ends the socket without a reason, and the close that follows is
\* handled as any other: it redials.
LineDisconnect == waSock # 0 /\ ClosesWith(waSock, FALSE)

\* sendMessage
SendText(t) ==
  /\ t \in unsent
  /\ unsent' = unsent \ {t}
  /\ IF waConnected
     THEN direct' = direct \cup {[text |-> t, on |-> waSock]} /\ UNCHANGED <<outgoing,
                                                                             queuedOrder>>
     ELSE /\ outgoing' = Append(outgoing, t)
          /\ queuedOrder' = Append(queuedOrder, t)
          /\ UNCHANGED direct
  /\ UNCHANGED <<waSock, line, dialing, retryTimer, waConnected, flushItem, waGot,
                 refused, stalled, lost>>

DirectSent(d) ==
  /\ d \in direct /\ line[d.on] = "open"
  /\ direct' = direct \ {d}
  /\ waGot' = Append(waGot, d.text)
  /\ UNCHANGED <<waSock, line, dialing, retryTimer, waConnected, outgoing, flushItem,
                 queuedOrder, unsent, refused, stalled, lost>>

DirectFails(d) ==
  /\ d \in direct
  /\ direct' = direct \ {d}
  /\ refused' = refused \cup {d.text}
  /\ UNCHANGED <<waSock, line, dialing, retryTimer, waConnected, outgoing, flushItem,
                 waGot, queuedOrder, unsent, stalled, lost>>

FlushSent ==
  /\ flushItem # NoItem /\ line[flushItem.on] = "open"
  /\ waGot' = Append(waGot, flushItem.text)
  /\ TakeNext(waSock)
  /\ UNCHANGED <<waSock, line, dialing, retryTimer, waConnected, direct, queuedOrder,
                 unsent, refused, stalled, lost>>

\* The message goes back to the head of the queue, to wait for the next socket that opens.
PutBack_Tail(t) == Append(outgoing, t)
PutBack_Not(t) == outgoing
PutBack(t) == <<t>> \o outgoing
FlushFails ==
  /\ flushItem # NoItem
  /\ outgoing' = PutBack(flushItem.text)
  /\ flushItem' = NoItem
  /\ stalled' = waConnected
  /\ UNCHANGED <<waSock, line, dialing, retryTimer, waConnected, direct, waGot,
                 queuedOrder, unsent, refused, lost>>

LineNext ==
  \/ LineDisconnect \/ Dialed \/ LineDialFails \/ RetryTimerFires \/ FlushSent \/ FlushFails
  \/ \E s \in LineSockets : SocketOpens(s) \/ SocketCloses(s)
  \/ \E t \in WaTexts : SendText(t)
  \/ \E d \in direct : DirectSent(d) \/ DirectFails(d)

-----------------------------------------------------------------------------
\* Until the account is logged out or a second attempt in a row has failed, there
\* is one connection, attempt or retry timer, and never two: neither a reconnect
\* nor a late close doubles the line or ends it.
OneLine ==
  Cardinality(LiveSockets) + (IF dialing = "none" THEN 0 ELSE 1) + (IF retryTimer THEN 1 ELSE 0)
    = IF lost THEN 0 ELSE 1

\* A message that was accepted is queued, on its way, or with WhatsApp, and only
\* once; if it is none of these, its sender was told.
AcceptedIsKept ==
  \A t \in WaTexts \ unsent :
    Cardinality({i \in DOMAIN waGot : waGot[i] = t}) + Cardinality({i \in DOMAIN outgoing : outgoing[i] = t})
      + Cardinality({d \in direct : d.text = t}) + (IF flushItem.text = t THEN 1 ELSE 0)
      = IF t \in refused THEN 0 ELSE 1

\* What was queued arrives in the order it was queued, across failed flushes,
\* closes and flushes that are still waiting on an old socket.
QueuedInOrder ==
  \A i, j \in DOMAIN queuedOrder : \A q \in DOMAIN waGot :
    i < j /\ waGot[q] = queuedOrder[j]
      => \E p \in DOMAIN waGot : p < q /\ waGot[p] = queuedOrder[i]

\* A connected channel is emptying its queue, unless a flush failed while it was
\* connected: that message and all behind it wait for the next reconnect.
QueueMoves == waConnected /\ outgoing # << >> => flushItem # NoItem \/ stalled

\* The line and its queue: nothing that was accepted is lost, doubled, overtaken or
\* left behind by reconnects, failed flushes and late closes.
LineCorrect == OneLine /\ AcceptedIsKept /\ QueuedInOrder /\ QueueMoves

=============================================================================
