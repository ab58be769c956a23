--------------------------- MODULE ControlApprovals ---------------------------
(***************************************************************************)
(* The owner's approvals (src/src/control-actions.ts, control-store.ts):   *)
(* actions that wait in pending-actions.json until the owner approves or   *)
(* rejects them, by command, in the admin UI or in plain words that a      *)
(* model classifies.                                                       *)
(*                                                                         *)
(* The three ways run side by side, and the action that takes time, the    *)
(* update of the Signal profile, reads the stored profile, writes it to    *)
(* Signal and then to the store. One change is of the name or of the text. *)
(***************************************************************************)
EXTENDS Integers, FiniteSets

CONSTANTS
  Pendings,      \* model bound: pending actions 1..Pendings, in the order they are created
  ListedPending, \* how many of the newest a plain reply looks at (10)
  ApproveCalls   \* model bound: calls 1..ApproveCalls of approvePending

ASSUME ApprovalsAssumption == Pendings \in Nat /\ ApproveCalls \in Nat

VARIABLES
  row,       \* the pending actions: none, pending, approved, rejected, gone (expired)
  changes,   \* what each changes: name or about
  inMain,    \* whether it was proposed in the control chat
  chatReplies,   \* pending actions whose plain reply is being classified
  calls,     \* calls of approvePending: [of, at, base]
  profile,   \* the stored profile: the action that set each field, or 0
  remote,    \* the profile Signal has
  applied,   \* history: actions that Signal has applied, by how often
  contested, \* history: actions with two approvals under way at once, or that failed half way
  raced      \* history: two updates of the profile were under way at once, or one failed half way

approvalVars == <<row, changes, inMain, chatReplies, calls, profile, remote, applied,
                  contested, raced>>

Fields == {"name", "about"}
Actions == 1..Pendings
Unused == {c \in 1..ApproveCalls : calls[c].at = "none"}
Running == {c \in 1..ApproveCalls : calls[c].at \in {"putting", "saving"}}

ApprovalsInit ==
  /\ row = [p \in Actions |-> "none"]
  /\ changes \in [Actions -> Fields]
  /\ inMain \in [Actions -> BOOLEAN]
  /\ chatReplies = {}
  /\ calls = [c \in 1..ApproveCalls |-> [of |-> 0, at |-> "none", base |-> [f \in Fields |-> 0]]]
  /\ profile = [f \in Fields |-> 0]
  /\ remote = profile
  /\ applied = [p \in Actions |-> 0]
  /\ contested = {}
  /\ raced = FALSE

-----------------------------------------------------------------------------
(* An operator X_Y is X with a bug Y planted in it. *)

\* previewAction
Preview(p) ==
  /\ row[p] = "none"
  /\ \A q \in Actions : q < p => row[q] # "none"
  /\ row' = [row EXCEPT ![p] = "pending"]
  /\ UNCHANGED <<changes, inMain, chatReplies, calls, profile, remote, applied,
                 contested, raced>>

\* getPendingActions drops what is past its time, and only what still waits.
Expire(p) ==
  /\ row[p] = "pending"
  /\ row' = [row EXCEPT ![p] = "gone"]
  /\ UNCHANGED <<changes, inMain, chatReplies, calls, profile, remote, applied,
                 contested, raced>>

\* approvePending up to the await of the action, whose base is the stored profile.
Approvable_Known(p) == row[p] \notin {"none", "gone"}
Approvable(p) == row[p] = "pending"

Approves(p) ==
  /\ Approvable(p)
  /\ Unused # {}
  /\ LET c == CHOOSE x \in Unused : \A y \in Unused : x <= y IN
       calls' = [calls EXCEPT ![c] = [of |-> p, at |-> "putting", base |-> profile]]
  /\ contested' = IF \E c \in Running : calls[c].of = p THEN contested \cup {p} ELSE contested
  /\ raced' = (raced \/ Running # {})
  /\ UNCHANGED <<row, changes, inMain, profile, remote, applied>>

\* rejectPending: of any action that is still in the file.
Rejects(p) ==
  /\ row[p] \notin {"none", "gone"}
  /\ row' = [row EXCEPT ![p] = "rejected"]
  /\ UNCHANGED <<changes, inMain, calls, profile, remote, applied, contested, raced>>

\* /approve and /reject, in the chat or in the admin UI.
ApproveCommand(p) == Approves(p) /\ UNCHANGED chatReplies
RejectCommand(p) == Rejects(p) /\ UNCHANGED chatReplies

\* handleNaturalApprovalReply up to the answer of the classifier. The newest
\* entries of the file are looked at, decided ones included.
Newest == {p \in Actions : row[p] \notin {"none", "gone"}
             /\ Cardinality({q \in Actions : q > p /\ row[q] \notin {"none", "gone"}}) < ListedPending}
Listed_AnyChat == {p \in Newest : row[p] = "pending"}
Listed == {p \in Newest : row[p] = "pending" /\ inMain[p]}
PlainReply ==
  /\ Cardinality(Listed) = 1
  /\ chatReplies' = chatReplies \cup Listed
  /\ UNCHANGED <<row, changes, inMain, calls, profile, remote, applied, contested,
                 raced>>

\* The reply was an approval, a rejection, or neither; an action decided since makes it fail.
ReplyApproves(p) == p \in chatReplies /\ chatReplies' = chatReplies \ {p} /\ Approves(p)
ReplyRejects(p) == p \in chatReplies /\ chatReplies' = chatReplies \ {p} /\ Rejects(p)
ReplyUnclear(p) ==
  /\ p \in chatReplies
  /\ chatReplies' = chatReplies \ {p}
  /\ UNCHANGED <<row, changes, inMain, calls, profile, remote, applied, contested,
                 raced>>

-----------------------------------------------------------------------------
\* The profile that the update sends and stores: the input over the base.
MergedProfile_Bare(c) == [f \in Fields |-> IF f = changes[calls[c].of] THEN calls[c].of ELSE 0]
MergedProfile(c) == [calls[c].base EXCEPT ![changes[calls[c].of]] = calls[c].of]

\* Signal applies the PUT ...
Put(c) ==
  /\ calls[c].at = "putting"
  /\ remote' = MergedProfile(c)
  /\ applied' = [applied EXCEPT ![calls[c].of] = @ + 1]
  /\ calls' = [calls EXCEPT ![c].at = "saving"]
  /\ UNCHANGED <<row, changes, inMain, chatReplies, profile, contested, raced>>

\* ... its answer is stored, and the action is marked if it is still in the file.
Settled_Not(p) == row
Settled(p) == IF row[p] = "gone" THEN row ELSE [row EXCEPT ![p] = "approved"]
Save(c) ==
  /\ calls[c].at = "saving"
  /\ profile' = MergedProfile(c)
  /\ row' = Settled(calls[c].of)
  /\ calls' = [calls EXCEPT ![c].at = "done"]
  /\ UNCHANGED <<changes, inMain, chatReplies, remote, applied, contested, raced>>

\* The request fails before Signal applied it, or its answer is lost: the action still waits.
PutFails(c) ==
  /\ calls[c].at \in {"putting", "saving"}
  /\ calls' = [calls EXCEPT ![c].at = "done"]
  /\ raced' = (raced \/ calls[c].at = "saving")
  /\ contested' = IF calls[c].at = "saving" THEN contested \cup {calls[c].of} ELSE contested
  /\ UNCHANGED <<row, changes, inMain, chatReplies, profile, remote, applied>>

ApprovalsNext ==
  \/ PlainReply
  \/ \E p \in Actions :
       \/ Preview(p) \/ Expire(p) \/ ApproveCommand(p) \/ RejectCommand(p)
       \/ ReplyApproves(p) \/ ReplyRejects(p) \/ ReplyUnclear(p)
  \/ \E c \in 1..ApproveCalls : Put(c) \/ Save(c) \/ PutFails(c)

-----------------------------------------------------------------------------
\* However the owner's approvals come in, an approved action takes effect once,
\* unless a second approval came while the first was executing or the first
\* failed after Signal had applied it: the row is marked only at the end.
AppliedOnce == \A p \in Actions : applied[p] <= 1 \/ p \in contested

\* A decision is final: what was rejected, approved or has expired, with no
\* approval under way, is not executed by a command or by a reply read before.
DecisionHolds ==
  \A p \in Actions :
    row[p] \in {"approved", "rejected", "gone"} /\ (\A c \in Running : calls[c].of # p)
      => /\ applied'[p] = applied[p]
         /\ \A c \in 1..ApproveCalls : calls'[c].of = p => calls[c].of = p

\* A plain reply decides an action of the control chat, and only one action:
\* any other that waits there is too old to be among the listed.
ReplyIsUnambiguous ==
  \A p \in chatReplies' \ chatReplies :
    /\ inMain[p] /\ row[p] = "pending"
    /\ \A q \in Actions : row[q] = "pending" /\ inMain[q] /\ q # p => q \notin Newest

\* The profile in the store is the one Signal has, and has the latest change of
\* each field, as long as the updates followed one another.
ProfileInStep ==
  ~raced /\ Running = {} =>
    /\ profile = remote
    /\ \A p \in Actions : applied[p] > 0 => profile[changes[p]] # 0

\* What an owner decides is what happens, once, by whichever way the decision came:
\* in every state a step leads to, and at the step.
ApprovalsCorrect ==
  [][AppliedOnce' /\ ProfileInStep' /\ DecisionHolds /\ ReplyIsUnambiguous]_approvalVars

=============================================================================
