------------------------------- MODULE Client -------------------------------
(***************************************************************************)
(* One browser tab (static/app.js): the forms of the landing page, the     *)
(* credentials in memory and in sessionStorage, the WebSockets the tab has *)
(* opened and the page it shows.                                           *)
(*                                                                         *)
(* A step is one event of the tab, which JavaScript runs to its end or to  *)
(* its next await, or one thing the server or the user does.  A WebSocket  *)
(* object lives on after the tab has let go of it: its close event comes   *)
(* later, and no message comes once it is closing.  The server answers or  *)
(* fails at any time; it refuses credentials of a session that has ended   *)
(* or from which the player was kicked.                                    *)
(***************************************************************************)
EXTENDS Naturals

CONSTANTS
  Tickets,  \* credentials: a session and a participant of it
  Sockets,  \* names for WebSocket objects, free again after the close event
  None,     \* no credentials, no socket
  MaxAsks,  \* bound: forms submitted and not answered yet
  MaxLoads  \* bound: how often the user loads the page

ASSUME ClientAssumption ==
  /\ None \notin Tickets /\ None \notin Sockets
  /\ MaxAsks \in Nat /\ MaxLoads \in Nat

VARIABLES
  page,       \* the view shown
  ticket,     \* state.sessionId and state.participantId
  saved,      \* the same in sessionStorage, which survives a reload
  ws,         \* state.ws
  wsClosing,  \* state.wsClosing
  armed,      \* state.currentRound: whether this connection or an earlier one
              \* has announced it
  asking,     \* forms whose reply is awaited
  ending,     \* is the reply to the host's close request awaited?
  booted,     \* has boot() got past the configuration?
  loads,      \* how often the page was loaded
  socket,     \* each WebSocket: its readyState
  holds,      \* the credentials it was opened with
  checked,    \* the sockets the server has accepted
  valid,      \* the credentials the server accepts
  hasty,      \* history: has the user submitted a form while an earlier request
              \* or connection was not over?
  dropped     \* history: has a connection been lost since a round was announced?

tabVars == <<page, ticket, saved, ws, wsClosing, armed, asking, ending, booted, loads>>
netVars == <<socket, holds, checked, valid>>
clientVars == <<tabVars, netVars, hasty, dropped>>

----------------------------------------------------------------------------
\* The tab is well formed; state.ws, when set, is a socket that is not closing,
\* and each WebSocket object belongs to one participant's credentials.
ClientTypeOK ==
  /\ page \in {"landing", "session"}
  /\ ticket \in Tickets \cup {None}
  /\ saved \in Tickets \cup {None}
  /\ ws \in Sockets \cup {None}
  /\ wsClosing \in BOOLEAN
  /\ armed \in {"no", "here", "before"}
  /\ asking \in 0 .. MaxAsks
  /\ ending \in BOOLEAN
  /\ booted \in BOOLEAN
  /\ loads \in 0 .. MaxLoads
  /\ socket \in [Sockets -> {"none", "connecting", "open", "closing"}]
  /\ holds \in [Sockets -> Tickets \cup {None}]
  /\ \A w \in Sockets : holds[w] = None <=> socket[w] = "none"
  /\ checked \subseteq {w \in Sockets : socket[w] \in {"open", "closing"}}
  /\ valid \subseteq Tickets
  /\ ws # None => socket[ws] \in {"connecting", "open"}
  /\ hasty \in BOOLEAN /\ dropped \in BOOLEAN

ClientInit ==
  /\ page = "landing" /\ ticket = None /\ saved = None
  /\ ws = None /\ wsClosing = FALSE /\ armed = "no"
  /\ asking = 0 /\ ending = FALSE /\ booted = FALSE /\ loads = 0
  /\ socket = [w \in Sockets |-> "none"]
  /\ holds = [w \in Sockets |-> None]
  /\ checked = {}
  /\ valid = Tickets
  /\ hasty = FALSE /\ dropped = FALSE

----------------------------------------------------------------------------
(* Helpers *)

\* connect(): a new WebSocket for the credentials in memory.
Connect(t) ==
  \E w \in Sockets :
    /\ socket[w] = "none"
    /\ socket' = [socket EXCEPT ![w] = "connecting"]
    /\ holds' = [holds EXCEPT ![w] = t]
    /\ ws' = w
    /\ wsClosing' = FALSE
    /\ armed' = IF armed = "no" THEN "no" ELSE "before"

\* What leaveAndReset does but for the round.
ForgetSession ==
  /\ wsClosing' = TRUE
  /\ socket' = [w \in Sockets |-> IF w = ws THEN "closing" ELSE socket[w]]
  /\ saved' = None /\ ticket' = None /\ ws' = None
  /\ page' = "landing"

\* A faulty variant of the next definition, never used.
ResetKeepsRound == ForgetSession /\ UNCHANGED <<armed, dropped>>

\* leaveAndReset(): it closes state.ws, whichever socket the event came from.
LeaveAndReset ==
  /\ ForgetSession
  /\ armed' = "no" /\ dropped' = FALSE

SocketGone(w) ==
  /\ socket[w] # "none"
  /\ socket' = [socket EXCEPT ![w] = "none"]
  /\ holds' = [holds EXCEPT ![w] = None]
  /\ checked' = checked \ {w}

Disconnected ==
  IF wsClosing THEN UNCHANGED <<saved, page, dropped>>
  ELSE saved' = None /\ page' = "landing" /\ dropped' = TRUE

\* Is anything of an earlier session not over yet?
Pending == asking > 0 \/ ending \/ ~booted \/ \E w \in Sockets : socket[w] # "none"

\* What no close event touches.
untouched == <<ticket, wsClosing, armed, asking, ending, booted, loads, valid, hasty>>

----------------------------------------------------------------------------
(* Faulty variants of CloseEvent, never part of Next *)

CloseKeepsSaved(w) ==
  /\ SocketGone(w)
  /\ ws' = None
  /\ page' = IF wsClosing THEN page ELSE "landing"
  /\ dropped' = (dropped \/ ~wsClosing)
  /\ UNCHANGED <<untouched, saved>>

CloseKeepsPage(w) ==
  /\ SocketGone(w)
  /\ ws' = None
  /\ saved' = IF wsClosing THEN saved ELSE None
  /\ dropped' = (dropped \/ ~wsClosing)
  /\ UNCHANGED <<untouched, page>>

CloseKeepsSocket(w) == SocketGone(w) /\ Disconnected /\ UNCHANGED <<untouched, ws>>

\* The server reports the error but does not close.
CloseNotRefused(w) ==
  /\ socket[w] = "open" => w \in checked
  /\ SocketGone(w)
  /\ ws' = None
  /\ Disconnected
  /\ UNCHANGED untouched

----------------------------------------------------------------------------
(* The user *)

\* form-host or form-join: fetch is called, its reply awaited.
Submit ==
  /\ page = "landing"
  /\ asking < MaxAsks
  /\ asking' = asking + 1
  /\ hasty' = (hasty \/ Pending)
  /\ UNCHANGED <<page, ticket, saved, ws, wsClosing, armed, ending, booted, loads,
                 netVars, dropped>>

\* The player's leave button.
Leave ==
  /\ page = "session"
  /\ LeaveAndReset
  /\ UNCHANGED <<asking, ending, booted, loads, holds, checked, valid, hasty>>

\* The host's close button.
HostClose ==
  /\ page = "session"
  /\ ~ending
  /\ ending' = TRUE
  /\ UNCHANGED <<page, ticket, saved, ws, wsClosing, armed, asking, booted, loads,
                 netVars, hasty, dropped>>

\* The page is reloaded: memory, sockets and requests are gone.
Reload ==
  /\ loads < MaxLoads
  /\ loads' = loads + 1
  /\ page' = "landing" /\ ticket' = None /\ ws' = None /\ wsClosing' = FALSE
  /\ armed' = "no" /\ asking' = 0 /\ ending' = FALSE /\ booted' = FALSE
  /\ socket' = [w \in Sockets |-> "none"]
  /\ holds' = [w \in Sockets |-> None]
  /\ checked' = {}
  /\ hasty' = FALSE /\ dropped' = FALSE
  /\ UNCHANGED <<saved, valid>>

----------------------------------------------------------------------------
(* Events of the tab *)

\* boot(), after loadConfig: a saved session is taken up again.
Boot ==
  /\ ~booted
  /\ booted' = TRUE
  /\ IF saved = None
     THEN page' = "landing" /\ UNCHANGED <<ticket, ws, wsClosing, armed, socket, holds>>
     ELSE ticket' = saved /\ Connect(saved) /\ UNCHANGED page
  /\ UNCHANGED <<saved, asking, ending, loads, checked, valid, hasty, dropped>>

\* The reply to a form: credentials, which are saved and used, or an error.
Joined(t) ==
  /\ asking > 0
  /\ asking' = asking - 1
  /\ t \in valid /\ t # saved /\ \A w \in Sockets : holds[w] # t
  /\ ticket' = t /\ saved' = t
  /\ Connect(t)
  /\ UNCHANGED <<page, ending, booted, loads, checked, valid, hasty, dropped>>

NotJoined ==
  /\ asking > 0
  /\ asking' = asking - 1
  /\ UNCHANGED <<page, ticket, saved, ws, wsClosing, armed, ending, booted, loads,
                 netVars, hasty, dropped>>

\* The reply to the close request, or its failure, which is ignored.
Closing ==
  /\ ending
  /\ ending' = FALSE
  /\ LeaveAndReset
  /\ UNCHANGED <<asking, booted, loads, holds, checked, valid, hasty>>

\* The open event of any socket shows the session's page.
OpenEvent(w) ==
  /\ socket[w] = "connecting"
  /\ socket' = [socket EXCEPT ![w] = "open"]
  /\ page' = "session"
  /\ UNCHANGED <<ticket, saved, ws, wsClosing, armed, asking, ending, booted, loads,
                 holds, checked, valid, hasty, dropped>>

\* allow_answer and stop_answer.
AllowAnswer(w) ==
  /\ socket[w] = "open" /\ w \in checked
  /\ armed' = "here"
  /\ dropped' = FALSE
  /\ UNCHANGED <<page, ticket, saved, ws, wsClosing, asking, ending, booted, loads,
                 netVars, hasty>>

StopAnswer(w) ==
  /\ socket[w] = "open" /\ w \in checked
  /\ armed' = "no"
  /\ dropped' = FALSE
  /\ UNCHANGED <<page, ticket, saved, ws, wsClosing, asking, ending, booted, loads,
                 netVars, hasty>>

\* kicked and session_closed.
Parted(w) ==
  /\ socket[w] = "open" /\ w \in checked
  /\ holds[w] \notin valid
  /\ LeaveAndReset
  /\ UNCHANGED <<asking, ending, booted, loads, holds, checked, valid, hasty>>

\* The close event: the tab has closed the socket, the server has refused it, or
\* the connection broke.  It does not look whose event it is, and leaves
\* state.currentRound as it is.
CloseEvent(w) ==
  /\ SocketGone(w)
  /\ ws' = None
  /\ Disconnected
  /\ UNCHANGED untouched

----------------------------------------------------------------------------
(* The server *)

\* The handshake finds session and participant.
Accept(w) ==
  /\ socket[w] = "open" /\ w \notin checked
  /\ holds[w] \in valid
  /\ checked' = checked \cup {w}
  /\ UNCHANGED <<tabVars, socket, holds, valid, hasty, dropped>>

\* The session ends or the player is kicked.
Expire(t) ==
  /\ t \in valid
  /\ valid' = valid \ {t}
  /\ UNCHANGED <<tabVars, socket, holds, checked, hasty, dropped>>

----------------------------------------------------------------------------
SocketEvent(w) ==
  \/ OpenEvent(w) \/ AllowAnswer(w) \/ StopAnswer(w) \/ Parted(w) \/ CloseEvent(w)
  \/ Accept(w)

ClientNext ==
  \/ Submit \/ Leave \/ HostClose \/ Reload
  \/ Boot \/ NotJoined \/ Closing
  \/ \E t \in Tickets : Joined(t) \/ Expire(t)
  \/ \E w \in Sockets : SocketEvent(w)

ClientSpec == ClientInit /\ [][ClientNext]_clientVars

\* The handshake of a socket whose credentials are refused ends in a close event
\* (close_with_error), and boot() gets past the configuration with or without a
\* reply.  Nothing is assumed of the user, of replies and of connections that
\* were accepted.
Refused(w) == socket[w] = "open" /\ w \notin checked /\ holds[w] \notin valid

FairClientSpec ==
  /\ ClientSpec
  /\ WF_clientVars(Boot)
  /\ \A w \in Sockets : /\ WF_clientVars(OpenEvent(w))
                        /\ WF_clientVars(Refused(w) /\ CloseEvent(w))

----------------------------------------------------------------------------
(* Properties *)

\* The page of a session is shown exactly while the tab's socket is open, and no
\* other socket is: "Unexpected disconnect - go back to landing", and no sooner.
\* It takes a user who lets a request and the close event of an old socket come
\* before the next form: that event treats the new connection as lost.
PageIsLive ==
  ~hasty =>
    /\ page = "session" <=> ws # None /\ socket[ws] = "open"
    /\ \A w \in Sockets : socket[w] \in {"connecting", "open"} => w = ws

\* Credentials stay in sessionStorage, where a reload takes them up, only while a
\* connection that uses them is not over, however hasty the user.
SavedIsUsed ==
  booted /\ saved # None =>
    /\ ticket = saved
    /\ \E w \in Sockets : holds[w] = saved

\* Who leaves a session, is told that it has ended or reloads does not take its
\* round along to the next one; only a lost connection leaves it armed.
RoundLeftBehind == page = "session" /\ armed = "before" => dropped \/ hasty

\* A tab does not stay with credentials the server refuses: after a reload, or
\* when the session ends during the handshake, they are forgotten.
StaleCredentialsGo ==
  \A t \in Tickets :
    (/\ saved = t /\ t \notin valid
     /\ \A w \in checked : holds[w] # t) ~> saved # t
=============================================================================
