------------------------------ MODULE MCChannels ------------------------------
(***************************************************************************)
(* TLC instance of what connects the host with its users: the SMS socket,  *)
(* the Slack channel with its activations, the way of inbound messages to  *)
(* the agent, and sessions of remote control.  They share no state: a      *)
(* behaviour exercises one of them and leaves the others as they start.    *)
(***************************************************************************)
EXTENDS SmsSocket, SlackChannels, InboundMessages, RemoteControl

VARIABLE part  \* the component of this behaviour

Parts == {"sms", "slack", "inbound", "remote"}

\* One start is enough for a component that stands still, and one command or answer
\* among the messages, which are numbered as they were sent.
OneStart ==
  /\ part # "slack" => enabled
  /\ part # "inbound" => /\ route = [m \in InboundIds |-> "direct"]
                         /\ stamp = [m \in InboundIds |-> CHOOSE s \in InboundStamps : TRUE]
                         /\ remembers
  /\ part = "inbound" => /\ Cardinality({m \in InboundIds : route[m] \in {"reply", "command"}}) <= 1
                         /\ \A m, n \in InboundIds : m < n => stamp[m] <= stamp[n]

ChannelsInit ==
  /\ part \in Parts
  /\ SmsInit /\ SlackInit /\ InboundInit /\ RemoteInit
  /\ OneStart

ChannelsNext ==
  /\ UNCHANGED part
  /\ \/ part = "sms" /\ SmsNext
     \/ part # "sms" /\ UNCHANGED smsVars
  /\ \/ part = "slack" /\ SlackNext
     \/ part # "slack" /\ UNCHANGED slackVars
  /\ \/ part = "inbound" /\ InboundNext
     \/ part # "inbound" /\ UNCHANGED inboundVars
  /\ \/ part = "remote" /\ RemoteNext
     \/ part # "remote" /\ UNCHANGED remoteVars

ChannelsSpec ==
  ChannelsInit /\ [][ChannelsNext]_<<part, smsVars, slackVars, inboundVars, remoteVars>>

\* Connections and sessions can be reached and ended, and come back (SlackChannels,
\* RemoteControl).
ConnectionsCorrect ==
  /\ part = "slack" => SlackCorrect
  /\ part = "remote" => RemoteCorrect

\* Messages that overtake one another reach the agent once (InboundMessages).
MessagesCorrect == part = "inbound" => InboundCorrect

=============================================================================
