------------------------------- MODULE Roster -------------------------------
(***************************************************************************)
(* Connections together with the list of players on every screen: players  *)
(* join, connect, leave and are kicked, and whoever changed the list       *)
(* reports it to everybody connected (broadcast_participants).             *)
(*                                                                         *)
(* A report lists the rows, looks up who is connected and sends the        *)
(* result, in three steps that other reports may interleave with.  Each    *)
(* list overwrites the one before on a FIFO connection, so a screen is     *)
(* represented by the last one put into its channel.  The runtime of the   *)
(* session is never dropped here (that is module Lifecycle's), so all      *)
(* reports go to the same one.                                             *)
(***************************************************************************)
EXTENDS Connections

\* Who may have something to report: a socket's task, a kick, the request of a
\* player who joins.
Reporters == Sockets \cup Kicks \cup Participants

\* ParticipantInfo: absent from the list, or with its connected flag.
Lists == [Participants -> {"absent", "away", "here"}]

ASSUME RosterAssumption ==
  /\ Sockets \cap Kicks = {}
  /\ (Sockets \cup Kicks) \cap Participants = {}
  /\ None \notin Lists

VARIABLES
  joined,   \* those with a row in participants
  report,   \* each reporter: where it is
  rows,     \* the participants it has listed
  roster,   \* the list it is about to send
  greeting, \* socket tasks that have yet to send Welcome
  shown,    \* the list last sent to each socket
  late      \* history: was the last list sent out of date when it was sent, or
            \* has a change gone unreported since (its report failed, or the
            \* request that made it was abandoned before it)?

rosterVars == <<joined, report, rows, roster, greeting, shown, late>>
allVars == <<connVars, rosterVars>>

ReportSteps == {"idle", "runtime", "list", "info", "say"}

\* Reports and screens are well formed; a connection that has had its Welcome
\* shows some list.
RosterTypeOK ==
  /\ joined \subseteq Participants
  /\ report \in [Reporters -> ReportSteps]
  /\ rows \in [Reporters -> SUBSET Participants]
  /\ roster \in [Reporters -> Lists \cup {None}]
  /\ greeting \subseteq {s \in Sockets : pc[s] = "open" /\ report[s] # "idle"}
  /\ shown \in [Sockets -> Lists \cup {None}]
  /\ \A s \in Sockets : pc[s] = "open" /\ s \notin greeting => shown[s] # None
  /\ late \in BOOLEAN

RosterInit ==
  /\ ConnInit
  /\ joined = Hosts
  /\ report = [r \in Reporters |-> "idle"]
  /\ rows = [r \in Reporters |-> {}]
  /\ roster = [r \in Reporters |-> None]
  /\ greeting = {}
  /\ shown = [s \in Sockets |-> None]
  /\ late = FALSE

----------------------------------------------------------------------------
(* Reports *)

\* build_participant_info
Info(listed) ==
  [p \in Participants |->
     IF p \notin listed THEN "absent"
     ELSE IF \E g \in Runtimes : g = runtime /\ registry[g][p] # None THEN "here" ELSE "away"]

\* What a report that ran now, at once, would send.
Current == Info(joined \ kicked)

ReportGoto(r, step) == report' = [report EXCEPT ![r] = step]

ReportReturn(r) ==
  /\ ReportGoto(r, "idle")
  /\ rows' = [rows EXCEPT ![r] = {}]
  /\ roster' = [roster EXCEPT ![r] = None]

\* db::list_participants
List(r) ==
  /\ report[r] = "list"
  /\ rows' = [rows EXCEPT ![r] = joined \ kicked]
  /\ ReportGoto(r, "info")
  /\ UNCHANGED <<connVars, joined, roster, greeting, shown, late>>

\* A faulty variant of the next definition, never used: no list, no Welcome.
FailsBeforeWelcome(r) ==
  /\ report[r] # "idle"
  /\ r \in Sockets => report[r] = "list"
  /\ ReportReturn(r)
  /\ greeting' = greeting \ {r}
  /\ late' = TRUE
  /\ UNCHANGED <<connVars, joined, shown>>

\* A report ends when its query fails and, if a join or a kick makes it, at any
\* step when the page that asked goes away; a kick that gets no further than this
\* is KickGivenUp below.  Welcome is sent with an empty list all the same.
ReportFails(r) ==
  /\ report[r] # "idle"
  /\ r \in Sockets => report[r] = "list"
  /\ IF r \in greeting
     THEN ReportGoto(r, "info") /\ UNCHANGED <<rows, roster, late>>
     ELSE ReportReturn(r) /\ late' = TRUE
  /\ UNCHANGED <<connVars, joined, greeting, shown>>

LookAround(r) ==
  /\ report[r] = "info"
  /\ roster' = [roster EXCEPT ![r] = Info(rows[r])]
  /\ ReportGoto(r, "say")
  /\ UNCHANGED <<connVars, joined, rows, greeting, shown, late>>

\* Welcome goes to the task's own channel; its report to everybody follows.
Welcome(s) ==
  /\ report[s] = "say" /\ s \in greeting
  /\ shown' = [shown EXCEPT ![s] = roster[s]]
  /\ greeting' = greeting \ {s}
  /\ ReportGoto(s, "list")
  /\ rows' = [rows EXCEPT ![s] = {}]
  /\ roster' = [roster EXCEPT ![s] = None]
  /\ UNCHANGED <<connVars, joined, late>>

Listening(s) == \E g \in Runtimes : g = runtime /\ registry[g][Owner[s]] = s

Say(r) ==
  /\ report[r] = "say" /\ r \notin greeting
  /\ shown' = [s \in Sockets |->
                 IF Listening(s) THEN roster[r] ELSE shown[s]]
  /\ late' = (roster[r] # Current)
  /\ ReportReturn(r)
  /\ UNCHANGED <<connVars, joined, greeting>>

----------------------------------------------------------------------------
(* What is reported *)

\* The insert of join_session (its tests are in module Settings).
Join(p) ==
  /\ p \notin joined /\ row = "open"
  /\ joined' = joined \cup {p}
  /\ ReportGoto(p, "runtime")
  /\ UNCHANGED <<connVars, rows, roster, greeting, shown, late>>

JoinTakeRuntime(p) ==
  /\ report[p] = "runtime"
  /\ \E g \in Runtimes : RuntimeFor(g, Held)
  /\ ReportGoto(p, "list")
  /\ UNCHANGED <<tableVars, socketVars, kickVars, joined, rows, roster, greeting, shown, late>>

\* A faulty variant of the next definition, never used: Welcome is sent, but the
\* others are not notified.
EntersUnseen(s) ==
  /\ Register(s)
  /\ UNCHANGED <<joined, report, rows, roster, greeting, late>>
  /\ shown' = [shown EXCEPT ![s] = Info(joined \ kicked)']

Enters(s) ==
  /\ Register(s)
  /\ greeting' = greeting \cup {s}
  /\ ReportGoto(s, "list")
  /\ UNCHANGED <<joined, rows, roster, shown, late>>

Leaves(s) ==
  /\ Deregister(s)
  /\ shown' = [shown EXCEPT ![s] = None]
  /\ ReportGoto(s, "list")
  /\ UNCHANGED <<joined, rows, roster, greeting, late>>

Kicked(k) ==
  /\ KickDrop(k)
  /\ ReportGoto(k, "list")
  /\ UNCHANGED <<joined, rows, roster, greeting, shown, late>>

----------------------------------------------------------------------------
Reporting(r) == List(r) \/ LookAround(r) \/ Say(r) \/ ReportFails(r)

\* A socket's task waits for neither of its two tasks before Welcome and the
\* first report have been sent, and serves the next connection only after the
\* last one; a kick slot is free when its report is over.
SocketStep(s) ==
  \/ Welcome(s) \/ Enters(s) \/ Leaves(s)
  \/ /\ \/ Connect(s) /\ Owner[s] \in joined /\ report[s] = "idle"
        \/ Validate(s) \/ TakeRuntime(s, Held)
        \/ (ReaderEnds(s) \/ SenderEnds(s)) /\ (pc[s] = "open" => report[s] = "idle")
     /\ UNCHANGED rosterVars

\* Once its victim is marked an abandoned kick has changed the list.
KickGivenUp(k) ==
  /\ KickAbandon(k)
  /\ late' = (late \/ kpc[k] # "mark")
  /\ UNCHANGED <<joined, report, rows, roster, greeting, shown>>

KickStep(k) ==
  \/ Kicked(k) \/ KickGivenUp(k)
  \/ /\ \/ KickBegin(k) /\ report[k] = "idle" /\ victim'[k] \in joined
        \/ KickMark(k) \/ KickTakeRuntime(k, Held) \/ KickTell(k)
     /\ UNCHANGED rosterVars

RosterNext ==
  \/ \E s \in Sockets : SocketStep(s)
  \/ \E k \in Kicks : KickStep(k)
  \/ \E p \in Participants : Join(p) \/ JoinTakeRuntime(p)
  \/ \E r \in Reporters : Reporting(r)

RosterSpec == RosterInit /\ [][RosterNext]_allVars

----------------------------------------------------------------------------
(* Properties *)

\* No report is under way, and no kick that has marked its victim.
AllReported ==
  /\ \A r \in Reporters : report[r] = "idle"
  /\ \A k \in Kicks : kpc[k] \in {"idle", "mark"}

\* messages.rs on participants: "Roster changed (join, leave, kick)".  When
\* everything is reported, everybody in the registry was last sent the players
\* there are and who of them is connected: whoever changes the list tells
\* everybody, after the change.  The exceptions are the code's: of two reports
\* that overlap the one that looked first may be sent last, a failed report is
\* not repeated, and a request may be abandoned between its change and its
\* report; the screens then are wrong until the next one.
RosterShown ==
  AllReported /\ ~late => \A s \in Sockets : Listening(s) => shown[s] = Current
=============================================================================
