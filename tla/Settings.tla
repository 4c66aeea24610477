------------------------------ MODULE Settings ------------------------------
(***************************************************************************)
(* The settings of one session (invite code, joins_enabled,                *)
(* answers_enabled): the requests that create the session and change them, *)
(* the players who join by its code, and the screens that show them.       *)
(*                                                                         *)
(* A host request changes the row, fetches it and broadcasts what it       *)
(* fetched, in three steps; a connection reads the row at the start of its *)
(* handshake and puts it into Welcome at the end.  Every settings message  *)
(* overwrites the one before on a FIFO connection, so a screen is          *)
(* represented by the last one put into its channel.  The host's screen    *)
(* gets what the players' get and is left out.  Kicks are left to module   *)
(* Connections, the end of the session to Lifecycle: here the row is       *)
(* closed and deleted at any time.                                         *)
(***************************************************************************)
EXTENDS Naturals

CONSTANTS
  Players,     \* people who may join, with a tab each
  Requests,    \* slots for concurrent host requests
  Codes,       \* what generate_invite_code may draw
  None,        \* no code, no settings
  MaxAttempts  \* draws before create_session and regenerate_code give up

Setting == [code : Codes, joins : BOOLEAN, answers : BOOLEAN]

ASSUME SettingsAssumption ==
  /\ None \notin Codes \cup Setting
  /\ MaxAttempts \in Nat \ {0}

VARIABLES
  row,      \* the sessions row
  taken,    \* invite codes of the other sessions
  members,  \* the players with a row in participants
  rpc, op,  \* each host request: where it is, what it is to do
  tries,    \* codes it has drawn in vain
  got,      \* the settings it has fetched
  pc,       \* each player: the join request or its connection
  typed,    \* the code given
  snap,     \* the settings the handshake has read
  shown     \* the settings last sent to the tab

\* History, for the properties only.
VARIABLES
  admits,   \* codes that would have let a player in since the request began
  solo,     \* requests under way that have had no other beside them
  muddled,  \* have requests overlapped or failed with nothing done since?
  behind    \* players whose Welcome was out of date, with nothing sent since

requestVars == <<rpc, op, tries, got>>
playerVars == <<pc, typed, snap, shown>>
history == <<admits, solo, muddled, behind>>
settingsVars == <<row, taken, members, requestVars, playerVars, history>>

----------------------------------------------------------------------------
Ops == {[kind |-> kind, on |-> on] : kind \in {"joins", "answers"}, on \in BOOLEAN}
         \cup {[kind |-> kind, on |-> TRUE] : kind \in {"create", "code", "start"}}

RequestSteps == {"idle", "draw", "write", "fetch", "say"}

PlayerSteps == {"away", "lookup", "insert", "register", "welcome", "on"}

\* Those with an entry in the registry.
Registered == {b \in Players : pc[b] \in {"welcome", "on"}}

\* The state is well formed: exactly an existing row has settings, a connection
\* that has had its Welcome shows some, and one that is not registered none.
SettingsTypeOK ==
  /\ row.state \in {"absent", "open", "closed", "gone"}
  /\ row.settings \in Setting \cup {None}
  /\ row.settings = None <=> row.state \in {"absent", "gone"}
  /\ taken \subseteq Codes
  /\ members \subseteq Players
  /\ rpc \in [Requests -> RequestSteps]
  /\ op \in [Requests -> Ops \cup {None}]
  /\ tries \in [Requests -> 0 .. MaxAttempts - 1]
  /\ got \in [Requests -> Setting \cup {None}]
  /\ pc \in [Players -> PlayerSteps]
  /\ typed \in [Players -> Codes \cup {None}]
  /\ snap \in [Players -> Setting \cup {None}]
  /\ shown \in [Players -> Setting \cup {None}]
  /\ \A b \in Players : (pc[b] = "on" => shown[b] # None)
                         /\ (b \notin Registered => shown[b] = None)
  /\ admits \in [Players -> SUBSET Codes]
  /\ solo \subseteq Requests
  /\ muddled \in BOOLEAN
  /\ behind \subseteq Players

SettingsInit ==
  /\ row = [state |-> "absent", settings |-> None]
  /\ taken = {}
  /\ members = {}
  /\ rpc = [h \in Requests |-> "idle"]
  /\ op = [h \in Requests |-> None]
  /\ tries = [h \in Requests |-> 0]
  /\ got = [h \in Requests |-> None]
  /\ pc = [b \in Players |-> "away"]
  /\ typed = [b \in Players |-> None]
  /\ snap = [b \in Players |-> None]
  /\ shown = [b \in Players |-> None]
  /\ admits = [b \in Players |-> {}]
  /\ solo = {}
  /\ muddled = FALSE
  /\ behind = {}

----------------------------------------------------------------------------
(* Helpers *)

\* The code with which somebody could join, as fetch_session_by_code and the
\* test of joins_enabled have it.
Admitting(r) ==
  IF r.state = "open" /\ r.settings.joins THEN {r.settings.code} ELSE {}

\* A statement changes the row, and those who have asked to join live to see it.
SetRow(r) ==
  /\ row' = r
  /\ admits' = [b \in Players |-> IF pc[b] \in {"lookup", "insert"}
                                   THEN admits[b] \cup Admitting(r) ELSE {}]

RequestGoto(h, step) == rpc' = [rpc EXCEPT ![h] = step]

\* What the request was about is of no matter from here on.
RequestFetch(h) ==
  /\ RequestGoto(h, "fetch")
  /\ op' = [op EXCEPT ![h] = None]
  /\ tries' = [tries EXCEPT ![h] = 0]

RequestReturn(h) ==
  /\ rpc' = [rpc EXCEPT ![h] = "idle"]
  /\ op' = [op EXCEPT ![h] = None]
  /\ tries' = [tries EXCEPT ![h] = 0]
  /\ got' = [got EXCEPT ![h] = None]
  /\ solo' = solo \ {h}

PlayerGoto(b, step) == pc' = [pc EXCEPT ![b] = step]

JoinReturn(b) ==
  /\ PlayerGoto(b, "away")
  /\ typed' = [typed EXCEPT ![b] = None]
  /\ admits' = [admits EXCEPT ![b] = {}]

----------------------------------------------------------------------------
(* Faulty variants of the steps below, never part of Next *)

LookupIgnoresToggle(b) ==
  /\ pc[b] = "lookup"
  /\ IF row.state = "open" /\ typed[b] = row.settings.code
     THEN PlayerGoto(b, "insert") /\ UNCHANGED <<typed, admits>>
     ELSE JoinReturn(b)
  /\ UNCHANGED <<row, taken, members, requestVars, snap, shown, solo, muddled, behind>>

\* The handler broadcasts the row assert_host has read.
WriteSaysOldRow(h) ==
  /\ rpc[h] = "write"
  /\ got' = [got EXCEPT ![h] = row.settings]
  /\ SetRow(IF row.state = "gone" THEN row
            ELSE IF op[h].kind = "joins" THEN [row EXCEPT !.settings.joins = op[h].on]
            ELSE [row EXCEPT !.settings.answers = op[h].on])
  /\ RequestGoto(h, "say")
  /\ UNCHANGED <<taken, members, op, tries, playerVars, solo, muddled, behind>>

LeaveKeepsScreen(b) ==
  /\ pc[b] = "on"
  /\ PlayerGoto(b, "away")
  /\ behind' = behind \ {b}
  /\ UNCHANGED <<row, taken, members, requestVars, typed, snap, shown,
                 admits, solo, muddled>>

----------------------------------------------------------------------------
(* Host requests *)

Beside(h) == \E k \in Requests \ {h} : rpc[k] # "idle"

\* assert_host lets the host of an open session through; start_round tests
\* answers_enabled on the row it read.  A second creation is another session.
RequestBegin(h, o) ==
  /\ rpc[h] = "idle"
  /\ IF o.kind = "create" THEN row.state = "absent" /\ ~Beside(h)
     ELSE row.state = "open"
  /\ IF o.kind = "start" /\ row.settings.answers THEN RequestFetch(h)
     ELSE /\ RequestGoto(h, IF o.kind \in {"create", "code"} THEN "draw" ELSE "write")
          /\ op' = [op EXCEPT ![h] = o]
          /\ UNCHANGED tries
  /\ solo' = IF Beside(h) THEN {} ELSE {h}
  /\ muddled' = (muddled \/ Beside(h))
  /\ UNCHANGED <<row, taken, members, got, playerVars, admits, behind>>

\* create_session: the session (and its host) is inserted in one transaction,
\* with the column defaults.
CreateDraw(h, code) ==
  /\ rpc[h] = "draw" /\ op[h].kind = "create"
  /\ code \notin taken
  /\ SetRow([state |-> "open",
             settings |-> [code |-> code, joins |-> TRUE, answers |-> FALSE]])
  /\ RequestReturn(h)
  /\ UNCHANGED <<taken, members, playerVars, muddled, behind>>

\* regenerate_invite_code: the code drawn may be the one the session has.
CodeDraw(h, code) ==
  /\ rpc[h] = "draw" /\ op[h].kind = "code"
  /\ row.state # "gone"
  /\ code \notin taken
  /\ SetRow([row EXCEPT !.settings.code = code])
  /\ RequestFetch(h)
  /\ UNCHANGED <<taken, members, got, playerVars, solo, muddled, behind>>

\* sessions_invite_code_key is violated: another code is drawn, a few times.
DrawCollides(h, code) ==
  /\ rpc[h] = "draw" /\ row.state # "gone"
  /\ code \in taken
  /\ IF tries[h] + 1 = MaxAttempts THEN RequestReturn(h)
     ELSE tries' = [tries EXCEPT ![h] = @ + 1] /\ UNCHANGED <<rpc, op, got, solo>>
  /\ UNCHANGED <<row, taken, members, playerVars, admits, muddled, behind>>

DrawForNobody(h) ==
  /\ rpc[h] = "draw" /\ row.state = "gone"
  /\ RequestReturn(h)
  /\ UNCHANGED <<row, taken, members, playerVars, admits, muddled, behind>>

\* UPDATE sessions SET joins_enabled / answers_enabled; a row that is gone is
\* not an error.
Write(h) ==
  /\ rpc[h] = "write"
  /\ SetRow(IF row.state = "gone" THEN row
            ELSE IF op[h].kind = "joins" THEN [row EXCEPT !.settings.joins = op[h].on]
            ELSE [row EXCEPT !.settings.answers = op[h].on])
  /\ RequestFetch(h)
  /\ UNCHANGED <<taken, members, got, playerVars, solo, muddled, behind>>

\* broadcast_session_state fetches the row ...
Fetch(h) ==
  /\ rpc[h] = "fetch"
  /\ IF row.state = "gone" THEN RequestReturn(h)
     ELSE /\ got' = [got EXCEPT ![h] = row.settings]
          /\ RequestGoto(h, "say")
          /\ UNCHANGED <<op, tries, solo>>
  /\ UNCHANGED <<row, taken, members, playerVars, admits, muddled, behind>>

\* ... and sends it to everybody in the registry.
Say(h) ==
  /\ rpc[h] = "say"
  /\ shown' = [b \in Players |-> IF b \in Registered THEN got[h] ELSE shown[b]]
  /\ behind' = behind \ Registered
  /\ muddled' = (muddled /\ h \notin solo)
  /\ RequestReturn(h)
  /\ UNCHANGED <<row, taken, members, pc, typed, snap, admits>>

\* A statement fails, or the host's page goes away and the handler is dropped at
\* its next await.
Abandon(h) ==
  /\ rpc[h] # "idle"
  /\ muddled' = (muddled \/ rpc[h] \in {"fetch", "say"})
  /\ RequestReturn(h)
  /\ UNCHANGED <<row, taken, members, playerVars, admits, behind>>

----------------------------------------------------------------------------
(* Players join, browsers connect *)

Ask(b, code) ==
  /\ pc[b] = "away" /\ b \notin members
  /\ PlayerGoto(b, "lookup")
  /\ typed' = [typed EXCEPT ![b] = code]
  /\ admits' = [admits EXCEPT ![b] = Admitting(row)]
  /\ UNCHANGED <<row, taken, members, requestVars, snap, shown, solo, muddled, behind>>

\* The session is looked up by its code and joins_enabled is tested; the code of
\* another session leads there.
Lookup(b) ==
  /\ pc[b] = "lookup"
  /\ IF typed[b] \in Admitting(row)
     THEN PlayerGoto(b, "insert") /\ UNCHANGED <<typed, admits>>
     ELSE JoinReturn(b)
  /\ UNCHANGED <<row, taken, members, requestVars, snap, shown, solo, muddled, behind>>

\* add_participant tests nothing again; the foreign key refuses a session that
\* is gone.
Insert(b) ==
  /\ pc[b] = "insert"
  /\ members' = IF row.state = "gone" THEN members ELSE members \cup {b}
  /\ JoinReturn(b)
  /\ UNCHANGED <<row, taken, requestVars, snap, shown, solo, muddled, behind>>

\* The handshake reads the row (and finds the participant), ...
ReadRow(b) ==
  /\ pc[b] = "away" /\ b \in members /\ row.state = "open"
  /\ snap' = [snap EXCEPT ![b] = row.settings]
  /\ PlayerGoto(b, "register")
  /\ UNCHANGED <<row, taken, members, requestVars, typed, shown, history>>

\* ... inserts its channel into the registry ...
Register(b) ==
  /\ pc[b] = "register"
  /\ PlayerGoto(b, "welcome")
  /\ UNCHANGED <<row, taken, members, requestVars, typed, snap, shown, history>>

\* ... and puts Welcome, with the settings it read first, into it.
Welcome(b) ==
  /\ pc[b] = "welcome"
  /\ PlayerGoto(b, "on")
  /\ shown' = [shown EXCEPT ![b] = snap[b]]
  /\ snap' = [snap EXCEPT ![b] = None]
  /\ behind' = IF snap[b] = row.settings THEN behind \ {b} ELSE behind \cup {b}
  /\ UNCHANGED <<row, taken, members, requestVars, typed, admits, solo, muddled>>

\* The connection ends and is deregistered.
Leave(b) ==
  /\ pc[b] = "on"
  /\ PlayerGoto(b, "away")
  /\ shown' = [shown EXCEPT ![b] = None]
  /\ behind' = behind \ {b}
  /\ UNCHANGED <<row, taken, members, requestVars, typed, snap, admits, solo, muddled>>

----------------------------------------------------------------------------
(* The rest of the system *)

\* Other sessions are created, get new codes and are deleted.
OtherSession(code) ==
  /\ \/ code \in taken /\ taken' = taken \ {code}
     \/ /\ code \notin taken
        /\ row.state \in {"open", "closed"} => row.settings.code # code
        /\ taken' = taken \cup {code}
  /\ UNCHANGED <<row, members, requestVars, playerVars, history>>

\* close_session or the cleanup loop closes the row, then deletes it; the
\* participants go with it.
End ==
  /\ \/ /\ row.state = "open"
        /\ SetRow([row EXCEPT !.state = "closed"])
        /\ UNCHANGED members
     \/ /\ row.state = "closed"
        /\ SetRow([state |-> "gone", settings |-> None])
        /\ members' = {}
  /\ UNCHANGED <<taken, requestVars, playerVars, solo, muddled, behind>>

----------------------------------------------------------------------------
RequestStep(h) ==
  \/ \E code \in Codes :
       CreateDraw(h, code) \/ CodeDraw(h, code) \/ DrawCollides(h, code)
  \/ DrawForNobody(h) \/ Write(h) \/ Fetch(h) \/ Say(h) \/ Abandon(h)

PlayerStep(b) ==
  \/ \E code \in Codes : Ask(b, code)
  \/ Lookup(b) \/ Insert(b) \/ ReadRow(b) \/ Register(b) \/ Welcome(b) \/ Leave(b)

SettingsNext ==
  \/ \E h \in Requests : RequestStep(h) \/ \E o \in Ops : RequestBegin(h, o)
  \/ \E b \in Players : PlayerStep(b)
  \/ \E code \in Codes : OtherSession(code)
  \/ End

SettingsSpec == SettingsInit /\ [][SettingsNext]_settingsVars

----------------------------------------------------------------------------
(* Properties *)

Settled == \A h \in Requests : rpc[h] = "idle"

\* messages.rs on session_state: "Session settings changed".  When no request is
\* under way, every connected browser was last sent the settings of the row,
\* whatever joins, handshakes, failed draws and other sessions did meanwhile.
\* Two exceptions are the code's: a Welcome that was out of date when it was
\* sent (its row is read before the connection is registered) stays until the
\* next message, and after requests that overlapped or were abandoned the
\* screens may be wrong until one request has run alone.
SettingsShown ==
  Settled /\ ~muddled /\ row.state = "open" =>
    \A b \in Registered \ behind : pc[b] = "on" => shown[b] = row.settings

\* join_session: whoever is added gave a code that would have let him in at some
\* moment between his request and the insert: a code replaced, joins disabled or
\* a session closed before he asked keep him out, however the requests race.
JoinWasAllowed ==
  [][\A b \in Players :
       b \in members' /\ b \notin members => typed[b] \in admits[b]]_settingsVars
=============================================================================
