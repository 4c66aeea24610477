----------------------------- MODULE Connections -----------------------------
(***************************************************************************)
(* The connection registry of one session: the tasks behind the WebSockets *)
(* (ws/handler.rs), the runtime objects they register with (state.rs) and  *)
(* the host's kick request (api/routes.rs).                                *)
(*                                                                         *)
(* A socket's task validates the session row and the participant row,      *)
(* looks the runtime up, registers its channel, and deregisters when the   *)
(* task that sends or the one that reads has ended.  The runtime is an     *)
(* Arc: a task keeps the one it got, whatever the map holds later.         *)
(* A socket name stands for successive connections of the same tab.        *)
(***************************************************************************)
EXTENDS Naturals

CONSTANTS
  Participants,  \* participant ids of the session
  Hosts,         \* those with is_host, one in a real session
  Sockets,       \* the WebSockets of their tabs
  Owner,         \* Owner[s] is the participant socket s was opened for
  Runtimes,      \* SessionRuntime objects
  None,          \* no runtime, no socket, nobody
  Kicks          \* slots for concurrent kick requests

ASSUME ConnectionsAssumption ==
  /\ Hosts \subseteq Participants
  /\ Owner \in [Sockets -> Participants]
  /\ None \notin Runtimes /\ None \notin Sockets /\ None \notin Participants

VARIABLES
  row,      \* the sessions row: open, closed (closed_at set) or gone (deleted)
  kicked,   \* participants whose kicked_at is set
  runtime,  \* the map's runtime for the session
  registry, \* connections of each runtime
  pc, rt,   \* each socket's task: where it is, the runtime it holds
  reading,  \* sockets whose reader task is alive
  told,     \* parting messages put into the channel of each socket
  kpc, victim, krt  \* each kick request: where it is, whom it is about, the
                    \* runtime it holds

tableVars == <<row, kicked>>
hubVars == <<runtime, registry>>
socketVars == <<pc, rt, reading, told>>
kickVars == <<kpc, victim, krt>>
connVars == <<tableVars, hubVars, socketVars, kickVars>>

SocketSteps == {"off", "participant", "runtime", "register", "open", "leaving"}

KickSteps == {"idle", "mark", "runtime", "tell", "drop"}

Partings == {"kicked", "session_closed"}

\* Tables, registry and tasks are well formed, and no kick is about a host
\* (kick refuses it).
ConnTypeOK ==
  /\ row \in {"open", "closed", "gone"}
  /\ kicked \subseteq Participants \ Hosts
  /\ runtime \in Runtimes \cup {None}
  /\ registry \in [Runtimes -> [Participants -> Sockets \cup {None}]]
  /\ pc \in [Sockets -> SocketSteps]
  /\ rt \in [Sockets -> Runtimes \cup {None}]
  /\ reading \subseteq Sockets
  /\ told \in [Sockets -> SUBSET Partings]
  /\ kpc \in [Kicks -> KickSteps]
  /\ victim \in [Kicks -> (Participants \ Hosts) \cup {None}]
  /\ krt \in [Kicks -> Runtimes \cup {None}]

Empty == [p \in Participants |-> None]

ConnInit ==
  /\ row = "open"
  /\ kicked = {}
  /\ runtime = None
  /\ registry = [g \in Runtimes |-> Empty]
  /\ pc = [s \in Sockets |-> "off"]
  /\ rt = [s \in Sockets |-> None]
  /\ reading = {}
  /\ told = [s \in Sockets |-> {}]
  /\ kpc = [k \in Kicks |-> "idle"]
  /\ victim = [k \in Kicks |-> None]
  /\ krt = [k \in Kicks |-> None]

----------------------------------------------------------------------------
(* Faulty variants of the steps below, never part of a next-state relation *)

DeregisterForgets(s) ==
  /\ pc[s] = "leaving"
  /\ pc' = [pc EXCEPT ![s] = "off"]
  /\ rt' = [rt EXCEPT ![s] = None]
  /\ told' = [told EXCEPT ![s] = {}]
  /\ UNCHANGED <<tableVars, hubVars, reading, kickVars>>

LookupAlwaysCreates(g, inUse) ==
  Runtimes \ inUse # {} /\ g = CHOOSE fresh \in Runtimes \ inUse : TRUE

KickAnybody(k) ==
  /\ kpc[k] = "idle"
  /\ row = "open"
  /\ \E p \in Participants : victim' = [victim EXCEPT ![k] = p]
  /\ kpc' = [kpc EXCEPT ![k] = "mark"]
  /\ UNCHANGED <<tableVars, hubVars, socketVars, krt>>

----------------------------------------------------------------------------
(* AppState::runtime_for *)

\* The runtimes tasks of this module can still reach; a dropped one nobody
\* holds is freed, and its name can be given to a new one.
Held == {runtime} \cup {rt[s] : s \in Sockets} \cup {krt[k] : k \in Kicks}

\* The lookup returns the map's runtime or inserts a new, empty one; which free
\* name the new one gets makes no difference.
LooksUp(g, inUse) ==
  IF runtime # None THEN g = runtime
  ELSE Runtimes \ inUse # {} /\ g = CHOOSE fresh \in Runtimes \ inUse : TRUE

RuntimeFor(g, inUse) ==
  /\ LooksUp(g, inUse)
  /\ runtime' = g
  /\ registry' = IF g = runtime THEN registry ELSE [registry EXCEPT ![g] = Empty]

----------------------------------------------------------------------------
(* connection *)

Goto(s, step) == pc' = [pc EXCEPT ![s] = step]

\* db::fetch_session: only an open session lets the handshake go on.
Connect(s) ==
  /\ pc[s] = "off" /\ s \notin reading
  /\ row = "open"
  /\ Goto(s, "participant")
  /\ UNCHANGED <<tableVars, hubVars, rt, reading, told, kickVars>>

\* db::fetch_participant: the row must be read, be there (deleting the session
\* deletes it) and not be kicked.
Validate(s) ==
  /\ pc[s] = "participant"
  /\ \/ row # "gone" /\ Owner[s] \notin kicked /\ Goto(s, "runtime")
     \/ Goto(s, "off")
  /\ UNCHANGED <<tableVars, hubVars, rt, reading, told, kickVars>>

TakeRuntime(s, inUse) ==
  /\ pc[s] = "runtime"
  /\ \E g \in Runtimes : RuntimeFor(g, inUse) /\ rt' = [rt EXCEPT ![s] = g]
  /\ Goto(s, "register")
  /\ UNCHANGED <<tableVars, reading, told, kickVars>>

\* connections.insert replaces the participant's previous connection; then both
\* tasks start.
Register(s) ==
  /\ pc[s] = "register"
  /\ registry' = [registry EXCEPT ![rt[s]][Owner[s]] = s]
  /\ Goto(s, "open")
  /\ reading' = reading \cup {s}
  /\ UNCHANGED <<tableVars, runtime, rt, told, kickVars>>

\* The reader sees the socket closed or broken.
ReaderEnds(s) ==
  /\ s \in reading
  /\ reading' = reading \ {s}
  /\ pc' = [pc EXCEPT ![s] = IF @ = "open" THEN "leaving" ELSE @]
  /\ UNCHANGED <<tableVars, hubVars, rt, told, kickVars>>

\* The sender fails first: select! drops the handle of the reader task, which
\* goes on by itself.
SenderEnds(s) ==
  /\ pc[s] = "open"
  /\ Goto(s, "leaving")
  /\ UNCHANGED <<tableVars, hubVars, rt, reading, told, kickVars>>

\* connections.remove(&participant_id), whichever connection is there.
Deregister(s) ==
  /\ pc[s] = "leaving"
  /\ registry' = [registry EXCEPT ![rt[s]][Owner[s]] = None]
  /\ Goto(s, "off")
  /\ rt' = [rt EXCEPT ![s] = None]
  /\ told' = [told EXCEPT ![s] = {}]
  /\ UNCHANGED <<tableVars, runtime, reading, kickVars>>

----------------------------------------------------------------------------
(* kick *)

KickGoto(k, step) == kpc' = [kpc EXCEPT ![k] = step]

\* assert_host, then the victim's row: it must be there and not the host's.
KickBegin(k) ==
  /\ kpc[k] = "idle"
  /\ row = "open"
  /\ \E p \in Participants \ Hosts : victim' = [victim EXCEPT ![k] = p]
  /\ KickGoto(k, "mark")
  /\ UNCHANGED <<tableVars, hubVars, socketVars, krt>>

KickMark(k) ==
  /\ kpc[k] = "mark"
  /\ kicked' = kicked \cup {victim[k]}
  /\ KickGoto(k, "runtime")
  /\ UNCHANGED <<row, hubVars, socketVars, victim, krt>>

KickTakeRuntime(k, inUse) ==
  /\ kpc[k] = "runtime"
  /\ \E g \in Runtimes : RuntimeFor(g, inUse) /\ krt' = [krt EXCEPT ![k] = g]
  /\ KickGoto(k, "tell")
  /\ UNCHANGED <<tableVars, socketVars, victim>>

KickTell(k) ==
  /\ kpc[k] = "tell"
  /\ told' = [s \in Sockets |->
                IF s = registry[krt[k]][victim[k]] THEN told[s] \cup {"kicked"} ELSE told[s]]
  /\ KickGoto(k, "drop")
  /\ UNCHANGED <<tableVars, hubVars, pc, rt, reading, victim, krt>>

KickReturn(k) ==
  /\ KickGoto(k, "idle")
  /\ victim' = [victim EXCEPT ![k] = None]
  /\ krt' = [krt EXCEPT ![k] = None]

KickDrop(k) ==
  /\ kpc[k] = "drop"
  /\ registry' = [registry EXCEPT ![krt[k]][victim[k]] = None]
  /\ KickReturn(k)
  /\ UNCHANGED <<tableVars, runtime, socketVars>>

\* The statement fails, or the HTTP client goes away and the handler is dropped
\* at its next await: whatever it has done stays as it is.
KickAbandon(k) ==
  /\ kpc[k] # "idle"
  /\ KickReturn(k)
  /\ UNCHANGED <<tableVars, hubVars, socketVars>>

----------------------------------------------------------------------------
SocketTask(s) == Validate(s) \/ TakeRuntime(s, Held) \/ Register(s) \/ Deregister(s)

KickTask(k) ==
  KickMark(k) \/ KickTakeRuntime(k, Held) \/ KickTell(k) \/ KickDrop(k) \/ KickAbandon(k)

ConnNext ==
  \/ \E s \in Sockets : Connect(s) \/ SocketTask(s) \/ ReaderEnds(s) \/ SenderEnds(s)
  \/ \E k \in Kicks : KickBegin(k) \/ KickTask(k)

ConnSpec == ConnInit /\ [][ConnNext]_connVars

----------------------------------------------------------------------------
(* Properties *)

\* A runtime only lists connections of the right participant whose task holds
\* that runtime and has yet to deregister: broadcasts never go to a channel
\* nobody drains, and no task leaves an entry behind.
RegistryLive ==
  \A g \in Runtimes, p \in Participants :
    LET s == registry[g][p] IN
      s # None => Owner[s] = p /\ rt[s] = g /\ pc[s] \in {"open", "leaving"}

\* README.md: "an in-memory hub holds the live WebSocket senders".  A participant
\* with an open connection, if not kicked, is in the registry of the session's
\* runtime and gets the broadcasts.  True while every participant has one tab; the old
\* connection of a reloaded page deregisters the new one (run conn_reload).
OpenIsHeld ==
  \A s \in Sockets :
    pc[s] = "open" /\ Owner[s] \notin kicked =>
      \E g \in Runtimes : g = runtime /\ registry[g][Owner[s]] # None

=============================================================================
