------------------------------ MODULE Lifecycle ------------------------------
(***************************************************************************)
(* The end of a session: the cleanup loop (cleanup.rs), the host's         *)
(* close_session request (api/routes.rs), process restarts and failing     *)
(* statements, on top of the connections of module Connections.            *)
(*                                                                         *)
(* Time passes in units, TickLen of them between two cleanup ticks; a tick *)
(* takes less than one.  Only ages matter, and only up to the largest      *)
(* limit they are compared with, where they stop counting.                 *)
(***************************************************************************)
EXTENDS Connections

CONSTANTS
  TTL,         \* session_ttl_seconds, as an age
  Grace,       \* host_disconnect_grace_seconds
  TickLen,     \* TICK
  MaxFailures, \* bound: statements that fail
  MaxRestarts  \* bound: restarts of the process

ASSUME LifecycleAssumption ==
  /\ TTL \in Nat /\ Grace \in Nat /\ TickLen \in Nat \ {0}
  /\ MaxFailures \in Nat /\ MaxRestarts \in Nat

VARIABLES
  age,       \* since sessions.created_at
  seen,      \* of each runtime: since host_last_seen, or Never
  timer,     \* until the next tick of the cleanup loop
  tpc, trt,  \* the cleanup task: where it is, the runtime it holds
  after,     \* where it goes once it has ended the session
  cpc, crt,  \* the close_session request
  vpc,       \* a request that only looks the runtime up (join, settings, rounds)
  absent,    \* history: since a host's connection was last registered
  gap,       \* history: absent when the cleanup task last looked at the registry
  tracked,   \* history: for how long the map has had a runtime
  failures, restarts  \* how many there were

cleanVars == <<timer, tpc, trt, after, gap>>
closeVars == <<cpc, crt>>
clockVars == <<age, absent, tracked>>
faultVars == <<failures, restarts>>
lifeVars == <<connVars, clockVars, seen, cleanVars, closeVars, vpc, faultVars>>

Larger(x, y) == IF x > y THEN x ELSE y

MaxAge == Larger(TTL, Grace + 1)
Never == Grace + 2
MaxAbsent == Grace + TickLen + 1

CleanSteps == {"sleep", "live", "runtime", "look", "refresh", "row",
               "end", "say", "close", "delete", "drop"}
CloseSteps == {"idle", "mark", "runtime", "say", "drop", "delete"}

\* Ages, tasks and counters are well formed, and a runtime that lists a host's
\* connection has its host_last_seen set.
LifeTypeOK ==
  /\ ConnTypeOK
  /\ age \in 0..MaxAge
  /\ seen \in [Runtimes -> 0..Never]
  /\ timer \in 0..TickLen
  /\ tpc \in CleanSteps /\ trt \in Runtimes \cup {None} /\ after \in {"sleep", "live"}
  /\ cpc \in CloseSteps /\ crt \in Runtimes \cup {None}
  /\ vpc \in {"idle", "touch"}
  /\ absent \in 0..MaxAbsent /\ gap \in 0..MaxAbsent
  /\ tracked \in 0..TickLen + 1
  /\ failures \in 0..MaxFailures /\ restarts \in 0..MaxRestarts
  /\ \A g \in Runtimes, p \in Hosts : registry[g][p] # None => seen[g] # Never

LifeInit ==
  /\ ConnInit
  /\ age = 0
  /\ seen = [g \in Runtimes |-> Never]
  /\ timer = 0
  /\ tpc = "sleep" /\ trt = None /\ after = "sleep"
  /\ cpc = "idle" /\ crt = None
  /\ vpc = "idle"
  /\ absent = 0 /\ gap = 0 /\ tracked = 0
  /\ failures = 0 /\ restarts = 0

----------------------------------------------------------------------------
(* Faulty variants of the definitions below, never part of a next-state      *)
(* relation                                                                  *)

ListedIfExpired == row = "open" /\ age >= TTL

StaleIfSeen(g) == seen[g] # Never /\ seen[g] > Grace

SayClosedToHost(g) ==
  told' = [s \in Sockets |->
             IF Owner[s] \in Hosts /\ s = registry[g][Owner[s]]
             THEN told[s] \cup {"session_closed"} ELSE told[s]]

RecentIfMissing == row = "gone" \/ age <= Grace

RefreshForgotten ==
  /\ tpc = "refresh"
  /\ timer' = TickLen /\ tpc' = "sleep" /\ trt' = None /\ after' = "sleep" /\ gap' = 0
  /\ UNCHANGED <<connVars, seen, clockVars, closeVars, vpc, faultVars>>

RegisterUnseen(s) ==
  /\ Register(s)
  /\ absent' = IF Owner[s] \in Hosts THEN 0 ELSE absent
  /\ UNCHANGED <<age, tracked, seen, cleanVars, closeVars, vpc, faultVars>>

----------------------------------------------------------------------------
InUse == Held \cup {trt, crt}

\* runtime_for by any task: a fresh runtime has not seen the host.
LookUp(g) ==
  /\ RuntimeFor(g, InUse)
  /\ seen' = IF g = runtime THEN seen ELSE [seen EXCEPT ![g] = Never]

\* broadcast of session_closed to the connections of a runtime.
SayClosed(g) ==
  told' = [s \in Sockets |->
             IF s = registry[g][Owner[s]] THEN told[s] \cup {"session_closed"} ELSE told[s]]

Fail ==
  /\ failures < MaxFailures
  /\ failures' = failures + 1
  /\ UNCHANGED restarts

----------------------------------------------------------------------------
(* Sockets, as in Connections *)

HostThere == \E s \in Sockets : pc[s] \in {"open", "leaving"} /\ Owner[s] \in Hosts

SocketKeeps == UNCHANGED <<age, tracked, cleanVars, closeVars, vpc, faultVars>>

LifeConnect(s) == Connect(s) /\ SocketKeeps /\ UNCHANGED <<seen, absent>>

LifeTake(s) ==
  /\ TakeRuntime(s, InUse)
  /\ seen' = IF runtime' = runtime THEN seen ELSE [seen EXCEPT ![runtime'] = Never]
  /\ SocketKeeps /\ UNCHANGED absent

\* Registering a host's connection also sets host_last_seen.
LifeRegister(s) ==
  /\ Register(s)
  /\ IF Owner[s] \in Hosts THEN seen' = [seen EXCEPT ![rt[s]] = 0] /\ absent' = 0
     ELSE UNCHANGED <<seen, absent>>
  /\ SocketKeeps

LifeSocket(s) ==
  \/ LifeTake(s) \/ LifeRegister(s)
  \/ /\ Validate(s) \/ Deregister(s)
     /\ SocketKeeps /\ UNCHANGED <<seen, absent>>

LifeEnds(s) ==
  /\ ReaderEnds(s) \/ SenderEnds(s)
  /\ SocketKeeps /\ UNCHANGED <<seen, absent>>

----------------------------------------------------------------------------
(* The cleanup task *)

CleanGoto(step) == tpc' = step

CleanKeeps == UNCHANGED <<kicked, pc, rt, reading, kickVars, clockVars, closeVars, vpc>>

Sleep ==
  /\ CleanGoto("sleep")
  /\ timer' = TickLen
  /\ trt' = None /\ after' = "sleep" /\ gap' = 0

Listed == (row = "open" /\ age >= TTL) \/ row = "closed"

\* list_expired_sessions; its failure ends the tick.
TickList ==
  /\ tpc = "sleep" /\ timer = 0
  /\ \/ /\ IF Listed
           THEN CleanGoto("end") /\ after' = "live"
           ELSE CleanGoto("live") /\ UNCHANGED after
        /\ UNCHANGED <<timer, trt, gap, faultVars>>
     \/ Fail /\ Sleep
  /\ CleanKeeps /\ UNCHANGED <<row, hubVars, told, seen>>

\* The snapshot of the map's keys.
TickLive ==
  /\ tpc = "live"
  /\ IF runtime # None THEN CleanGoto("runtime") /\ UNCHANGED <<timer, trt, after, gap>>
     ELSE Sleep
  /\ CleanKeeps /\ UNCHANGED <<row, hubVars, told, seen, faultVars>>

TickRuntime ==
  /\ tpc = "runtime"
  /\ \E g \in Runtimes : LookUp(g) /\ trt' = g
  /\ CleanGoto("look")
  /\ CleanKeeps /\ UNCHANGED <<row, told, timer, after, gap, faultVars>>

HostListed(g) == \E p \in Hosts : registry[g][p] # None

\* Never seen counts as stale at once.
Stale(g) == seen[g] > Grace

\* host_connected and host_last_seen are read under one lock.
TickLook ==
  /\ tpc = "look"
  /\ \/ /\ HostListed(trt)
        /\ CleanGoto("refresh") /\ UNCHANGED <<timer, trt, after, gap>>
     \/ /\ ~HostListed(trt) /\ Stale(trt)
        /\ CleanGoto("row") /\ gap' = absent /\ UNCHANGED <<timer, trt, after>>
     \/ /\ ~HostListed(trt) /\ ~Stale(trt)
        /\ Sleep
  /\ CleanKeeps /\ UNCHANGED <<row, hubVars, told, seen, faultVars>>

TickRefresh ==
  /\ tpc = "refresh"
  /\ seen' = [seen EXCEPT ![trt] = 0]
  /\ Sleep
  /\ CleanKeeps /\ UNCHANGED <<row, hubVars, told, faultVars>>

StillRecent == row # "gone" /\ age <= Grace

\* The session's age protects it, unless the row is gone or cannot be read.
TickRow ==
  /\ tpc = "row"
  /\ \/ StillRecent /\ Sleep /\ UNCHANGED faultVars
     \/ /\ ~StillRecent
        /\ CleanGoto("end") /\ UNCHANGED <<timer, trt, after, gap, faultVars>>
     \/ Fail /\ CleanGoto("end") /\ UNCHANGED <<timer, trt, after, gap>>
  /\ CleanKeeps /\ UNCHANGED <<row, hubVars, told, seen>>

\* end_session: look the runtime up, broadcast, close_and_delete, drop_runtime.
EndRuntime ==
  /\ tpc = "end"
  /\ \E g \in Runtimes : LookUp(g) /\ trt' = g
  /\ CleanGoto("say")
  /\ CleanKeeps /\ UNCHANGED <<row, told, timer, after, gap, faultVars>>

EndSay ==
  /\ tpc = "say"
  /\ SayClosed(trt)
  /\ CleanGoto("close")
  /\ CleanKeeps /\ UNCHANGED <<row, hubVars, seen, timer, trt, after, gap, faultVars>>

EndClose ==
  /\ tpc = "close"
  /\ \/ /\ row' = IF row = "open" THEN "closed" ELSE row
        /\ CleanGoto("delete") /\ UNCHANGED faultVars
     \/ Fail /\ CleanGoto("drop") /\ UNCHANGED row
  /\ CleanKeeps /\ UNCHANGED <<hubVars, told, seen, timer, trt, after, gap>>

EndDelete ==
  /\ tpc = "delete"
  /\ \/ row' = "gone" /\ UNCHANGED faultVars
     \/ Fail /\ UNCHANGED row
  /\ CleanGoto("drop")
  /\ CleanKeeps /\ UNCHANGED <<hubVars, told, seen, timer, trt, after, gap>>

EndDrop ==
  /\ tpc = "drop"
  /\ runtime' = None
  /\ IF after = "live"
     THEN CleanGoto("live") /\ trt' = None /\ after' = "sleep" /\ UNCHANGED <<timer, gap>>
     ELSE Sleep
  /\ CleanKeeps /\ UNCHANGED <<row, registry, told, seen, faultVars>>

Cleanup ==
  \/ TickList \/ TickLive \/ TickRuntime \/ TickLook \/ TickRefresh \/ TickRow
  \/ EndRuntime \/ EndSay \/ EndClose \/ EndDelete \/ EndDrop

----------------------------------------------------------------------------
(* close_session *)

CloseGoto(step) == cpc' = step

CloseKeeps == UNCHANGED <<kicked, pc, rt, reading, kickVars, clockVars, cleanVars, vpc>>

CloseBegin ==
  /\ cpc = "idle"
  /\ row = "open"
  /\ CloseGoto("mark")
  /\ CloseKeeps /\ UNCHANGED <<row, hubVars, told, seen, crt, faultVars>>

CloseMark ==
  /\ cpc = "mark"
  /\ row' = IF row = "open" THEN "closed" ELSE row
  /\ CloseGoto("runtime")
  /\ CloseKeeps /\ UNCHANGED <<hubVars, told, seen, crt, faultVars>>

CloseRuntime ==
  /\ cpc = "runtime"
  /\ \E g \in Runtimes : LookUp(g) /\ crt' = g
  /\ CloseGoto("say")
  /\ CloseKeeps /\ UNCHANGED <<row, told, faultVars>>

CloseSay ==
  /\ cpc = "say"
  /\ SayClosed(crt)
  /\ CloseGoto("drop")
  /\ CloseKeeps /\ UNCHANGED <<row, hubVars, seen, crt, faultVars>>

CloseDrop ==
  /\ cpc = "drop"
  /\ runtime' = None
  /\ CloseGoto("delete") /\ crt' = None
  /\ CloseKeeps /\ UNCHANGED <<row, registry, told, seen, faultVars>>

CloseDelete ==
  /\ cpc = "delete"
  /\ row' = "gone"
  /\ CloseGoto("idle")
  /\ CloseKeeps /\ UNCHANGED <<hubVars, told, seen, crt, faultVars>>

\* A statement fails, or the HTTP client goes away and the handler is dropped.
CloseAbandon ==
  /\ cpc # "idle"
  /\ Fail
  /\ CloseGoto("idle") /\ crt' = None
  /\ CloseKeeps /\ UNCHANGED <<row, hubVars, told, seen>>

CloseRequest ==
  CloseMark \/ CloseRuntime \/ CloseSay \/ CloseDrop \/ CloseDelete

----------------------------------------------------------------------------
(* Everything else *)

\* join_session and the host's other requests find the session open and later
\* look its runtime up.
VisitBegin ==
  /\ vpc = "idle" /\ row = "open"
  /\ vpc' = "touch"
  /\ UNCHANGED <<connVars, clockVars, seen, cleanVars, closeVars, faultVars>>

VisitTouch ==
  /\ vpc = "touch"
  /\ \E g \in Runtimes : LookUp(g)
  /\ vpc' = "idle"
  /\ UNCHANGED <<tableVars, socketVars, kickVars, clockVars, cleanVars, closeVars, faultVars>>

\* The next tick is never late.  What a freed runtime had seen is forgotten.
Clock ==
  /\ tpc = "sleep" /\ timer > 0
  /\ timer' = timer - 1
  /\ age' = IF age < MaxAge THEN age + 1 ELSE age
  /\ absent' = IF HostThere THEN 0 ELSE IF absent < MaxAbsent THEN absent + 1 ELSE absent
  /\ tracked' = IF runtime = None THEN 0
                ELSE IF tracked <= TickLen THEN tracked + 1 ELSE tracked
  /\ seen' = [g \in Runtimes |->
                IF g \notin InUse THEN Never
                ELSE IF seen[g] <= Grace THEN seen[g] + 1 ELSE seen[g]]
  /\ UNCHANGED <<connVars, tpc, trt, after, gap, closeVars, vpc, faultVars>>

\* Only the tables survive; the cleanup loop ticks as soon as it is spawned.
Restart ==
  /\ restarts < MaxRestarts
  /\ restarts' = restarts + 1
  /\ runtime' = None
  /\ registry' = [g \in Runtimes |-> Empty]
  /\ pc' = [s \in Sockets |-> "off"] /\ rt' = [s \in Sockets |-> None]
  /\ reading' = {} /\ told' = [s \in Sockets |-> {}]
  /\ kpc' = [k \in Kicks |-> "idle"]
  /\ victim' = [k \in Kicks |-> None] /\ krt' = [k \in Kicks |-> None]
  /\ seen' = [g \in Runtimes |-> Never]
  /\ timer' = 0 /\ tpc' = "sleep" /\ trt' = None /\ after' = "sleep" /\ gap' = 0
  /\ cpc' = "idle" /\ crt' = None /\ vpc' = "idle"
  /\ UNCHANGED <<tableVars, clockVars, failures>>

----------------------------------------------------------------------------
LifeNext ==
  \/ \E s \in Sockets : LifeConnect(s) \/ LifeSocket(s) \/ LifeEnds(s)
  \/ Cleanup
  \/ CloseBegin \/ CloseRequest \/ CloseAbandon
  \/ VisitBegin \/ VisitTouch
  \/ Clock \/ Restart

LifeSpec == LifeInit /\ [][LifeNext]_lifeVars

\* Time passes and the server's tasks run; clients need not do anything, and
\* only MaxFailures statements fail.
FairLifeSpec ==
  /\ LifeSpec
  /\ WF_lifeVars(Clock) /\ WF_lifeVars(Cleanup) /\ WF_lifeVars(CloseRequest)
  /\ WF_lifeVars(VisitTouch)
  /\ \A s \in Sockets : WF_lifeVars(LifeSocket(s))

----------------------------------------------------------------------------
(* Properties *)

Life == INSTANCE SessionLife

\* Whoever ends the session, racing or failing half-way, the row is closed
\* before it is deleted and stays deleted; and it is deleted in the end, a
\* half-done close_session being finished by the cleanup loop.
ImplementsLife == Life!Spec

\* cleanup.rs: "Close sessions whose host has been disconnected for longer than
\* the configured grace period."  The cleanup loop ends an open session for the
\* host's absence only if, when it looked, the host had been away for more than
\* the grace period less one tick: host_last_seen is only refreshed by
\* registering and by the ticks.  A restart breaks it (run lifecycle_restart).
GraceRespected ==
  tpc = "close" /\ after = "sleep" /\ row = "open" => gap + TickLen > Grace

\* The other direction: a session that has had a runtime for more than a tick
\* does not outlast the grace period and a tick without its host, whether the host
\* left or never came.  (One nobody looks up has no runtime, and the loop only
\* goes through those that have.)
AbsentHostEndsSession ==
  row = "open" /\ tracked > TickLen => absent <= Grace + TickLen

\* messages.rs on SessionClosed: who is connected to an open session is told
\* before it is gone, whoever ends it, unless the connection ends first; or it
\* registers while the cleanup loop, past its broadcast, is closing the row; or
\* the loop fails to close the row and drops the connection's runtime all the
\* same, and the session goes on without that runtime.
EndIsTold ==
  \A s \in Sockets :
    row = "open" /\ pc[s] = "open" /\ tpc \notin {"close", "delete", "drop"} ~>
      "session_closed" \in told[s] \/ pc[s] # "open" \/ (row = "open" /\ rt[s] # runtime)

\* A runtime created again after the session was deleted (by a handshake, a
\* visit or the cleanup task itself) does not stay in the map, unless the host
\* connected to it.
RuntimeReclaimed == row = "gone" ~> runtime = None \/ HostThere
=============================================================================
