----------------------------- MODULE GoogleTokens -----------------------------
(***************************************************************************)
(* The Google tokens, kept twice: in the settings of the integration and   *)
(* in a legacy file (src/src/integrations/google-contacts.ts).  Contacts,  *)
(* the admin page's status, the calendar tools (calendar-runtime.ts) and   *)
(* the owner's actions (control-actions.ts) each refresh an expired token: *)
(* they read a store, await Google, and write what they read with the new  *)
(* token.  Meanwhile the owner may log in anew, for the contacts or for    *)
(* the calendar (calendar.ts).                                             *)
(*                                                                         *)
(* A consent is a grant, which the refresh token stands for; an access     *)
(* token is its number, and belongs to a grant; 0 is none.  Google gives a *)
(* refresh token with every consent.  startAuth asks for one; the login of *)
(* the calendar does not, and may get no refresh token.                    *)
(***************************************************************************)
EXTENDS Integers, Sequences

CONSTANTS
  TokenCallers, \* calls that need a token at the same time
  Logins,       \* model bound: logins 1..Logins are started
  TokenIssues   \* model bound: access tokens 1..TokenIssues are issued

ASSUME GoogleTokensAssumption == Logins \in Nat /\ TokenIssues \in Nat

VARIABLES
  own,       \* the settings of the integration: access token, grant, oauthState
  legacy,    \* google-contacts-oauth.json
  asking,    \* the calls that refresh: for whom, and what they read
  grantOf,   \* grantOf[t]: the grant of the issued token t
  logins,    \* logins 1..logins were started
  exchanging, \* logins whose code is being exchanged
  calledBack, \* logins whose callback came
  latest,    \* history: the grant of the last login that was completed
  latestOwn, \* history: ... of those of the contacts
  overlappedLogin, \* history: a login was completed while a refresh was under way
  clean      \* history: nothing was under way when the newest login was started, and
             \* none of the calendar took its place

tokenStores == <<own, legacy>>
loginVars == <<logins, exchanging, calledBack>>
tokenHistory == <<latest, latestOwn, overlappedLogin, clean>>
tokenVars == <<tokenStores, grantOf, loginVars, asking, tokenHistory>>

NotConnected == [access |-> 0, grant |-> 0, state |-> 0]
IdleCall == [user |-> "none", read |-> NotConnected]
Users == {"contacts", "calendar", "owner"}
Refreshing == {c \in TokenCallers : asking[c] # IdleCall}

\* A first installation, or one with tokens in the legacy file only.
TokensInit ==
  /\ own = NotConnected
  /\ legacy \in {NotConnected, [access |-> 1, grant |-> 1, state |-> 0]}
  /\ grantOf = IF legacy.grant = 0 THEN <<>> ELSE <<1>>
  /\ asking = [c \in TokenCallers |-> IdleCall]
  /\ logins = 0
  /\ exchanging = {} /\ calledBack = {}
  /\ latest = legacy.grant /\ latestOwn = 0
  /\ overlappedLogin = FALSE /\ clean = TRUE

-----------------------------------------------------------------------------
(* An operator X_Y is X with a bug Y planted in it. *)

\* getStoredOAuthState: the own store if it has tokens, else the legacy file.
OwnHasTokens == own.access # 0 \/ own.grant # 0
Stored == IF OwnHasTokens THEN own ELSE legacy

\* The status of the admin page asks as contacts do, once the own store has tokens.
ReadFor(user) == IF user = "contacts" THEN Stored ELSE legacy

\* ensureGoogle...AccessToken, the status of the admin page, and calendarFetch when
\* Google refuses its token: one that has expired, which may be any, is refreshed.
Ask(c, user) ==
  /\ asking[c] = IdleCall
  /\ ReadFor(user).grant # 0
  /\ asking' = [asking EXCEPT ![c] = [user |-> user, read |-> ReadFor(user)]]
  /\ UNCHANGED <<tokenStores, grantOf, loginVars, tokenHistory>>

\* The token endpoint answers: what was read, with the new token.
Refreshed_Rereads(c, t) == [ReadFor(asking[c].user) EXCEPT !.access = t]
Refreshed_EndsLogin(c, t) == [asking[c].read EXCEPT !.access = t, !.state = 0]
Refreshed(c, t) ==
  IF asking[c].user = "owner" THEN [asking[c].read EXCEPT !.access = t, !.state = 0]
  ELSE [asking[c].read EXCEPT !.access = t]

RefreshAnswers(c) ==
  LET t == Len(grantOf) + 1 IN
  /\ c \in Refreshing
  /\ t <= TokenIssues
  /\ grantOf' = Append(grantOf, asking[c].read.grant)
  /\ legacy' = Refreshed(c, t)
  /\ own' = IF asking[c].user = "contacts" THEN Refreshed(c, t) ELSE own
  /\ asking' = [asking EXCEPT ![c] = IdleCall]
  /\ UNCHANGED <<loginVars, tokenHistory>>

\* ... or refuses: the old token is used, or the owner's action fails.
RefreshFails(c) ==
  /\ c \in Refreshing
  /\ asking' = [asking EXCEPT ![c] = IdleCall]
  /\ UNCHANGED <<tokenStores, grantOf, loginVars, tokenHistory>>

-----------------------------------------------------------------------------
(* Logging in *)

\* startAuth: the state of the login is kept beside the tokens, in both stores.
StartAuth ==
  /\ logins < Logins
  /\ logins' = logins + 1
  /\ own' = [Stored EXCEPT !.state = logins + 1]
  /\ legacy' = [Stored EXCEPT !.state = logins + 1]
  /\ clean' = (Refreshing = {} /\ exchanging = {})
  /\ UNCHANGED <<grantOf, exchanging, calledBack, asking, latest, latestOwn, overlappedLogin>>

\* completeAuth up to the await: the state must be that of the newest login.
StateMatches(k) == Stored.state = k
Callback(k) ==
  /\ k \in 1..logins \ calledBack
  /\ calledBack' = calledBack \cup {k}
  /\ exchanging' = IF StateMatches(k) THEN exchanging \cup {k} ELSE exchanging
  /\ UNCHANGED <<tokenStores, grantOf, logins, asking, tokenHistory>>

\* ... and after it: both stores get the new grant.
Granted_OwnOnly(record) == own' = record /\ legacy' = legacy
Granted(record) == own' = record /\ legacy' = record
ExchangeAnswers(k) ==
  LET t == Len(grantOf) + 1 IN
  /\ k \in exchanging
  /\ t <= TokenIssues
  /\ exchanging' = exchanging \ {k}
  /\ grantOf' = Append(grantOf, t)
  /\ Granted([access |-> t, grant |-> t, state |-> 0])
  /\ latest' = t /\ latestOwn' = t
  /\ overlappedLogin' = (overlappedLogin \/ Refreshing # {})
  /\ UNCHANGED <<logins, calledBack, asking, clean>>

\* The login of the calendar: it asks for no consent, so it may get no refresh token
\* and keeps the one of the legacy file, if any; it writes that file only.
CalendarLogin ==
  LET t == Len(grantOf) + 1 IN
  /\ t <= TokenIssues
  /\ \E grant \in {t, legacy.grant} :
       /\ grantOf' = Append(grantOf, grant)
       /\ legacy' = [access |-> t, grant |-> grant, state |-> 0]
       /\ latest' = grant
  /\ overlappedLogin' = (overlappedLogin \/ Refreshing # {})
  /\ clean' = (clean /\ OwnHasTokens)
  /\ UNCHANGED <<own, loginVars, asking, latestOwn>>

ExchangeFails(k) ==
  /\ k \in exchanging
  /\ exchanging' = exchanging \ {k}
  /\ UNCHANGED <<tokenStores, grantOf, logins, calledBack, asking, tokenHistory>>

TokensNext ==
  \/ \E c \in TokenCallers :
       \/ \E user \in Users : Ask(c, user)
       \/ RefreshAnswers(c) \/ RefreshFails(c)
  \/ StartAuth \/ CalendarLogin
  \/ \E k \in 1..Logins : Callback(k) \/ ExchangeAnswers(k) \/ ExchangeFails(k)

-----------------------------------------------------------------------------
(* Properties *)

\* An access token is kept with the grant it was issued for, whoever wrote over whom.
PairsMatch ==
  \A store \in {own, legacy} : store.access # 0 => grantOf[store.access] = store.grant

\* The contacts' store has the grant of their last login, and the legacy file that of
\* the last login or the contacts', as long as no login was completed while a refresh
\* was under way: such a refresh puts the old grant back.
NewestGrantKept ==
  ~overlappedLogin =>
    /\ latestOwn # 0 => own.grant = latestOwn
    /\ legacy.grant \in {latest, own.grant}

\* The newest login can be completed: refreshes that begin after its start, also of
\* those who write the legacy file only, leave its state where completeAuth looks.
LoginCanComplete ==
  clean /\ logins > 0 /\ logins \notin calledBack => Stored.state = logins

\* Once connected, the integration stays connected, but for a login of the calendar that
\* got the first access token and no refresh token: startAuth copies that to the contacts'
\* store, and from there over the legacy file, whatever that has got meanwhile.
Ungranted == own.access # 0 /\ own.grant = 0
StaysConnected ==
  /\ latest # 0 => legacy.grant # 0 \/ Ungranted
  /\ latestOwn # 0 => own.grant # 0

TokensCorrect == PairsMatch /\ NewestGrantKept /\ LoginCanComplete /\ StaysConnected

=============================================================================
