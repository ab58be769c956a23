------------------------------- MODULE MCLines -------------------------------
(***************************************************************************)
(* TLC instance of the components around a phone call and of the WhatsApp  *)
(* channel.  They share no state: a behaviour exercises one of them and    *)
(* leaves the others as they start.                                        *)
(***************************************************************************)
EXTENDS WhatsAppLine, PhoneGateway, PhoneCallTable, VoiceSidecar, BrowserVoice, VoiceTurns

VARIABLE part  \* the component of this behaviour

Parts == {"whatsapp", "gateway", "calls", "sidecar", "browser", "voice"}

\* One start is enough for a component that stands still.
OneStart ==
  /\ part # "calls" => number = [k \in Calls |-> CHOOSE n \in Numbers : TRUE]
  /\ part # "voice" => /\ stream = CHOOSE s \in Streams : TRUE
                       /\ content = [i \in 1..Utterances |-> CHOOSE c \in Contents : TRUE]

LinesInit ==
  /\ part \in Parts
  /\ LineInit /\ PhoneInit /\ TableInit /\ SidecarInit /\ BrowserInit /\ VoiceInit
  /\ OneStart

LinesNext ==
  /\ UNCHANGED part
  /\ \/ part = "whatsapp" /\ LineNext
     \/ part # "whatsapp" /\ UNCHANGED lineVars
  /\ \/ part = "gateway" /\ PhoneNext
     \/ part # "gateway" /\ UNCHANGED phoneVars
  /\ \/ part = "calls" /\ TableNext
     \/ part # "calls" /\ UNCHANGED tableVars
  /\ \/ part = "sidecar" /\ SidecarNext
     \/ part # "sidecar" /\ UNCHANGED sidecarVars
  /\ \/ part = "browser" /\ BrowserNext
     \/ part # "browser" /\ UNCHANGED browserVars
  /\ \/ part = "voice" /\ VoiceNext
     \/ part # "voice" /\ UNCHANGED voiceVars

\* What is expected of a phone call's connection and of the tables of calls.
PhoneCorrect == GatewayCorrect /\ CallsCorrect

LinesSpec ==
  /\ LinesInit
  /\ [][LinesNext]_<<part, lineVars, phoneVars, tableVars, sidecarVars, browserVars, voiceVars>>
  /\ VoiceFairness

=============================================================================
