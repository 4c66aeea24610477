--------------------------- MODULE LifecycleProofs ---------------------------
(***************************************************************************)
(* Proofs about Lifecycle, for any participants, sockets, runtimes and     *)
(* time limits.  What does not survive failing statements or restarts is   *)
(* proved without them.                                                    *)
(***************************************************************************)
EXTENDS Lifecycle, ConnectionsProofs

USE ConnectionsAssumption, LifecycleAssumption

\* A task that uses a runtime has one.
TasksHold ==
  /\ \A s \in Sockets : pc[s] \in {"register", "open", "leaving"} => rt[s] \in Runtimes
  /\ tpc \in {"look", "refresh", "say"} => trt \in Runtimes
  /\ cpc = "say" => crt \in Runtimes

\* Whoever is about to delete the row has closed it, and close_session closes it
\* before it does anything else.
ClosedFirst ==
  /\ tpc = "delete" => row # "open"
  /\ cpc \in {"runtime", "say", "drop", "delete"} => row # "open"

LifeInv == LifeTypeOK /\ TasksHold /\ ClosedFirst /\ RegistryLive

NoFaults == MaxFailures = 0 /\ MaxRestarts = 0

\* Without faults the runtime of an open session is never dropped, so there is one.
OneWhileOpen ==
  row = "open" =>
    /\ \A s \in Sockets : rt[s] \in {None, runtime}
    /\ trt \in {None, runtime} /\ crt \in {None, runtime}
    /\ tpc # "drop"

\* Of an open session: host_last_seen is never younger than the host's absence, and
\* since the last tick that could look at a runtime the absence has stayed within
\* the grace period and the time since that tick.
AbsenceBounded ==
  /\ tpc # "sleep" => timer = 0
  /\ HostThere => absent = 0
  /\ age = MaxAge \/ absent <= age
  /\ row = "open" =>
       /\ runtime = None => tracked = 0
       /\ runtime # None /\ seen[runtime] <= Grace => absent <= seen[runtime]
       /\ tpc = "refresh" => absent = 0
       /\ tracked > TickLen - timer => absent + timer <= Grace + TickLen

AbsenceInv == LifeInv /\ OneWhileOpen /\ AbsenceBounded

\* With one tab each, a connection of an open session is in the registry.
ListedWhileOpen ==
  row = "open" =>
    \A s \in Sockets : pc[s] \in {"open", "leaving"} => registry[rt[s]][Owner[s]] = s

\* Of an open session: host_last_seen is no more than a tick older than the host's
\* absence, a session whose host was never seen is as old as it, and the cleanup
\* task goes on to end the session only if that absence was long enough.
SeenInTime ==
  row = "open" =>
    /\ HostThere => /\ seen[runtime] # Never /\ seen[runtime] + timer <= TickLen
                    /\ tpc = "row" => seen[runtime] = 0
    /\ runtime # None /\ seen[runtime] # Never => seen[runtime] <= absent + TickLen
    /\ runtime = None \/ seen[runtime] = Never => absent >= age \/ absent > Grace
    /\ tpc = "row" => gap + TickLen > Grace \/ gap >= age
    /\ tpc \in {"end", "say", "close"} /\ after = "sleep" => gap + TickLen > Grace

GraceInv == AbsenceInv /\ ListedWhileOpen /\ SeenInTime

----------------------------------------------------------------------------
(* runtime_for *)

LEMMA LookUpKeeps ==
  ASSUME LifeTypeOK, NEW g \in Runtimes, LookUp(g)
  PROVE  /\ runtime' = g /\ (runtime # None => g = runtime)
         /\ registry' \in [Runtimes -> [Participants -> Sockets \cup {None}]]
         /\ \A q \in Runtimes, p \in Participants :
              registry'[q][p] = registry[q][p] \/ registry'[q][p] = None
         /\ runtime # None => registry' = registry /\ seen' = seen
         /\ runtime = None => seen' = [seen EXCEPT ![g] = Never]
         /\ seen' \in [Runtimes -> 0..Never]
         /\ \A q \in Runtimes, p \in Hosts : registry'[q][p] # None => seen'[q] # Never
  <1>1. RuntimeFor(g, InUse)  BY DEF LookUp
  <1>2. ConnTypeOK  BY DEF LifeTypeOK
  <1>3. runtime' = g /\ (runtime # None => g = runtime)
        /\ registry' = IF g = runtime THEN registry ELSE [registry EXCEPT ![g] = Empty]
    BY <1>1, LookUpFacts
  <1>4. /\ registry' \in [Runtimes -> [Participants -> Sockets \cup {None}]]
        /\ \A q \in Runtimes, p \in Participants :
             registry'[q][p] = registry[q][p] \/ registry'[q][p] = None
    BY <1>1, <1>2, LookUpRegistry
  <1>5. seen' = IF g = runtime THEN seen ELSE [seen EXCEPT ![g] = Never]  BY DEF LookUp
  <1>6. Never \in 0..Never  BY DEF Never
  <1>7. seen' \in [Runtimes -> 0..Never]  BY <1>5, <1>6 DEF LifeTypeOK
  <1>8. ASSUME NEW q \in Runtimes, NEW p \in Hosts, registry'[q][p] # None
        PROVE  seen'[q] # Never
    <2>1. CASE q = g /\ g # runtime
      BY <1>3, <1>8, <2>1 DEF ConnTypeOK, LifeTypeOK, Empty
    <2>2. CASE q # g \/ g = runtime
      <3>1. registry'[q] = registry[q] /\ seen'[q] = seen[q]
        BY <1>2, <1>3, <1>5, <2>2 DEF ConnTypeOK, LifeTypeOK
      <3>. QED  BY <1>8, <3>1 DEF LifeTypeOK
    <2>. QED  BY <2>1, <2>2
  <1>. QED  BY <1>3, <1>4, <1>5, <1>7, <1>8

\* The handshake's lookup is the same one.
LEMMA TakeLooksUp ==
  ASSUME NEW s \in Sockets, LifeTake(s)
  PROVE  \E g \in Runtimes : LookUp(g) /\ rt' = [rt EXCEPT ![s] = g]
  <1>1. PICK g \in Runtimes : RuntimeFor(g, InUse) /\ rt' = [rt EXCEPT ![s] = g]
    BY DEF LifeTake, TakeRuntime
  <1>2. runtime' = g  BY <1>1, LookUpFacts
  <1>. QED  BY <1>1, <1>2 DEF LifeTake, LookUp

\* A step that adds no entry to a registry and leaves those connected alone.
LEMMA RegistryStaysLive ==
  ASSUME ConnTypeOK, RegistryLive,
         \A q \in Runtimes, p \in Participants :
           registry'[q][p] = registry[q][p] \/ registry'[q][p] = None,
         \A t \in Sockets : pc[t] \in {"open", "leaving"} =>
           rt'[t] = rt[t] /\ pc'[t] \in {"open", "leaving"}
  PROVE  RegistryLive'
  BY DEF RegistryLive, ConnTypeOK

----------------------------------------------------------------------------
(* The invariant, whatever fails *)

LEMMA LifeInitInv == LifeInit => LifeInv
  <1> SUFFICES ASSUME LifeInit PROVE LifeInv
    OBVIOUS
  <1>1. ConnTypeOK /\ RegistryLive  BY InitInv DEF LifeInit, ConnInv
  <1>2. \A g \in Runtimes, p \in Hosts : registry[g][p] = None
    BY DEF LifeInit, ConnInit, Empty
  <1>3. LifeTypeOK
    BY <1>1, <1>2
    DEF LifeInit, LifeTypeOK, MaxAge, Never, MaxAbsent, Larger, CleanSteps, CloseSteps
  <1>4. TasksHold /\ ClosedFirst  BY DEF LifeInit, ConnInit, TasksHold, ClosedFirst
  <1>. QED  BY <1>1, <1>3, <1>4 DEF LifeInv

LEMMA SocketKeepsLifeInv ==
  ASSUME LifeInv, NEW s \in Sockets, LifeConnect(s) \/ LifeSocket(s) \/ LifeEnds(s)
  PROVE  LifeInv'
  <1> USE DEF LifeInv, SocketKeeps, tableVars, hubVars, kickVars, cleanVars, closeVars,
              faultVars, Goto
  <1>0. 0 \in 0..MaxAbsent /\ 0 \in 0..Never  BY DEF MaxAbsent, Never
  <1>1. CASE LifeConnect(s)
    <2>1. ConnTypeOK'
      BY <1>1 DEF LifeConnect, Connect, LifeTypeOK, ConnTypeOK, SocketSteps, TasksHold
    <2>2. LifeTypeOK'  BY <1>0, <1>1, <2>1 DEF LifeConnect, Connect, LifeTypeOK
    <2>3. TasksHold'  BY <1>1 DEF LifeConnect, Connect, LifeTypeOK, ConnTypeOK, TasksHold
    <2>4. ClosedFirst'  BY <1>1 DEF LifeConnect, Connect, ClosedFirst
    <2>5. RegistryLive'
      BY <1>1, RegistryStaysLive DEF LifeConnect, Connect, LifeTypeOK, ConnTypeOK
    <2>. QED  BY <2>2, <2>3, <2>4, <2>5
  <1>2. CASE LifeTake(s)
    <2>0. PICK g \in Runtimes : LookUp(g) /\ rt' = [rt EXCEPT ![s] = g]
      BY <1>2, TakeLooksUp
    <2>lookup. /\ runtime' \in Runtimes
               /\ registry' \in [Runtimes -> [Participants -> Sockets \cup {None}]]
               /\ \A q \in Runtimes, p \in Participants :
                    registry'[q][p] = registry[q][p] \/ registry'[q][p] = None
               /\ seen' \in [Runtimes -> 0..Never]
               /\ \A q \in Runtimes, p \in Hosts :
                    registry'[q][p] # None => seen'[q] # Never
      BY <2>0, LookUpKeeps
    <2>1. ConnTypeOK'
      BY <1>2, <2>0, <2>lookup
      DEF LifeTake, TakeRuntime, LifeTypeOK, ConnTypeOK, SocketSteps, TasksHold
    <2>2. LifeTypeOK'
      BY <1>0, <1>2, <2>1, <2>0, <2>lookup DEF LifeTake, TakeRuntime, LifeTypeOK
    <2>3. TasksHold'
      BY <1>2, <2>0, <2>lookup
      DEF LifeTake, TakeRuntime, LifeTypeOK, ConnTypeOK, TasksHold
    <2>4. ClosedFirst'  BY <1>2 DEF LifeTake, TakeRuntime, ClosedFirst
    <2>5. RegistryLive'
      BY <1>2, <2>0, <2>lookup, RegistryStaysLive
      DEF LifeTake, TakeRuntime, LifeTypeOK, ConnTypeOK
    <2>. QED  BY <2>2, <2>3, <2>4, <2>5
  <1>3. CASE LifeRegister(s)
    <2>1. ConnTypeOK'
      BY <1>3 DEF LifeRegister, Register, LifeTypeOK, ConnTypeOK, SocketSteps, TasksHold
    <2>2. ASSUME NEW g \in Runtimes, NEW p \in Hosts, registry'[g][p] # None
          PROVE  seen'[g] # Never
      <3>1. CASE g = rt[s] /\ p = Owner[s]
        BY <1>3, <3>1 DEF LifeRegister, LifeTypeOK, Never
      <3>2. CASE ~(g = rt[s] /\ p = Owner[s])
        <4>1. registry'[g][p] = registry[g][p]
          BY <1>3, <3>2 DEF LifeRegister, Register, LifeTypeOK, ConnTypeOK
        <4>2. seen[g] # Never  BY <2>2, <4>1 DEF LifeTypeOK
        <4>. QED  BY <1>3, <4>2 DEF LifeRegister, LifeTypeOK, Never
      <3>. QED  BY <3>1, <3>2
    <2>types. LifeTypeOK'
      BY <1>0, <1>3, <2>1, <2>2 DEF LifeRegister, Register, LifeTypeOK
    <2>3. TasksHold'
      BY <1>3 DEF LifeRegister, Register, LifeTypeOK, ConnTypeOK, TasksHold
    <2>4. ClosedFirst'  BY <1>3 DEF LifeRegister, Register, ClosedFirst
    <2>5. RegistryLive'
      BY <1>3, RegistryStaysLive
      DEF LifeRegister, Register, LifeTypeOK, ConnTypeOK, TasksHold, RegistryLive
    <2>. QED  BY <2>types, <2>3, <2>4, <2>5
  <1>4. CASE Validate(s) /\ SocketKeeps /\ UNCHANGED <<seen, absent>>
    <2>1. ConnTypeOK'
      BY <1>4 DEF Validate, LifeTypeOK, ConnTypeOK, SocketSteps, TasksHold
    <2>2. LifeTypeOK'  BY <1>0, <1>4, <2>1 DEF Validate, LifeTypeOK
    <2>3. TasksHold'  BY <1>4 DEF Validate, LifeTypeOK, ConnTypeOK, TasksHold
    <2>4. ClosedFirst'  BY <1>4 DEF Validate, ClosedFirst
    <2>5. RegistryLive'  BY <1>4, RegistryStaysLive DEF Validate, LifeTypeOK, ConnTypeOK
    <2>. QED  BY <2>2, <2>3, <2>4, <2>5
  <1>5. CASE Deregister(s) /\ SocketKeeps /\ UNCHANGED <<seen, absent>>
    <2>1. ConnTypeOK'
      BY <1>5 DEF Deregister, LifeTypeOK, ConnTypeOK, SocketSteps, TasksHold
    <2>2. LifeTypeOK'  BY <1>0, <1>5, <2>1 DEF Deregister, LifeTypeOK
    <2>3. TasksHold'  BY <1>5 DEF Deregister, LifeTypeOK, ConnTypeOK, TasksHold
    <2>4. ClosedFirst'  BY <1>5 DEF Deregister, ClosedFirst
    <2>5. RegistryLive'
      BY <1>5, RegistryStaysLive
      DEF Deregister, LifeTypeOK, ConnTypeOK, TasksHold, RegistryLive
    <2>. QED  BY <2>2, <2>3, <2>4, <2>5
  <1>6. CASE LifeEnds(s)
    <2>1. ConnTypeOK'
      BY <1>6
      DEF LifeEnds, ReaderEnds, SenderEnds, LifeTypeOK, ConnTypeOK, SocketSteps,
          TasksHold
    <2>2. LifeTypeOK'
      BY <1>0, <1>6, <2>1 DEF LifeEnds, ReaderEnds, SenderEnds, LifeTypeOK
    <2>3. TasksHold'
      BY <1>6 DEF LifeEnds, ReaderEnds, SenderEnds, LifeTypeOK, ConnTypeOK, TasksHold
    <2>4. ClosedFirst'  BY <1>6 DEF LifeEnds, ReaderEnds, SenderEnds, ClosedFirst
    <2>5. RegistryLive'
      BY <1>6, RegistryStaysLive
      DEF LifeEnds, ReaderEnds, SenderEnds, LifeTypeOK, ConnTypeOK
    <2>. QED  BY <2>2, <2>3, <2>4, <2>5
  <1>. QED  BY <1>1, <1>2, <1>3, <1>4, <1>5, <1>6 DEF LifeSocket

LEMMA CleanupKeepsLifeInv ==
  ASSUME LifeInv, Cleanup
  PROVE  LifeInv'
  <1> USE DEF LifeInv, CleanKeeps, CleanGoto, hubVars, kickVars, clockVars, closeVars,
              faultVars
  <1>0. 0 \in 0..MaxAbsent /\ 0 \in 0..Never  BY DEF MaxAbsent, Never
  <1>1. CASE TickList
    <2>1. ConnTypeOK'  BY <1>1 DEF TickList, Fail, Sleep, LifeTypeOK, ConnTypeOK, Partings
    <2>2. LifeTypeOK'
      BY <1>0, <1>1, <2>1
      DEF TickList, Fail, Sleep, LifeTypeOK, TasksHold, CleanSteps, CloseSteps
    <2>3. TasksHold'  BY <1>1 DEF TickList, Fail, Sleep, TasksHold
    <2>4. ClosedFirst'  BY <1>1 DEF TickList, Fail, Sleep, ClosedFirst
    <2>5. RegistryLive'  BY <1>1, RegistryStaysLive DEF TickList, Fail, Sleep, LifeTypeOK
    <2>. QED  BY <2>2, <2>3, <2>4, <2>5
  <1>2. CASE TickLive
    <2>1. ConnTypeOK'  BY <1>2 DEF TickLive, Sleep, LifeTypeOK, ConnTypeOK, Partings
    <2>2. LifeTypeOK'
      BY <1>0, <1>2, <2>1
      DEF TickLive, Sleep, LifeTypeOK, TasksHold, CleanSteps, CloseSteps
    <2>3. TasksHold'  BY <1>2 DEF TickLive, Sleep, TasksHold
    <2>4. ClosedFirst'  BY <1>2 DEF TickLive, Sleep, ClosedFirst
    <2>5. RegistryLive'  BY <1>2, RegistryStaysLive DEF TickLive, Sleep, LifeTypeOK
    <2>. QED  BY <2>2, <2>3, <2>4, <2>5
  <1>3. CASE TickRuntime
    <2>0. PICK g \in Runtimes : LookUp(g) /\ trt' = g
      BY <1>3 DEF TickRuntime
    <2>lookup. /\ runtime' \in Runtimes
               /\ registry' \in [Runtimes -> [Participants -> Sockets \cup {None}]]
               /\ \A q \in Runtimes, p \in Participants :
                    registry'[q][p] = registry[q][p] \/ registry'[q][p] = None
               /\ seen' \in [Runtimes -> 0..Never]
               /\ \A q \in Runtimes, p \in Hosts :
                    registry'[q][p] # None => seen'[q] # Never
      BY <2>0, LookUpKeeps
    <2>1. ConnTypeOK'
      BY <1>3, <2>0, <2>lookup DEF TickRuntime, LifeTypeOK, ConnTypeOK, Partings
    <2>2. LifeTypeOK'
      BY <1>0, <1>3, <2>1, <2>0, <2>lookup
      DEF TickRuntime, LifeTypeOK, TasksHold, CleanSteps, CloseSteps
    <2>3. TasksHold'  BY <1>3, <2>0, <2>lookup DEF TickRuntime, TasksHold
    <2>4. ClosedFirst'  BY <1>3 DEF TickRuntime, ClosedFirst
    <2>5. RegistryLive'
      BY <1>3, <2>0, <2>lookup, RegistryStaysLive DEF TickRuntime, LifeTypeOK
    <2>. QED  BY <2>2, <2>3, <2>4, <2>5
  <1>4. CASE TickLook
    <2>1. ConnTypeOK'  BY <1>4 DEF TickLook, Sleep, LifeTypeOK, ConnTypeOK, Partings
    <2>2. LifeTypeOK'
      BY <1>0, <1>4, <2>1
      DEF TickLook, Sleep, LifeTypeOK, TasksHold, CleanSteps, CloseSteps
    <2>3. TasksHold'  BY <1>4 DEF TickLook, Sleep, TasksHold
    <2>4. ClosedFirst'  BY <1>4 DEF TickLook, Sleep, ClosedFirst
    <2>5. RegistryLive'  BY <1>4, RegistryStaysLive DEF TickLook, Sleep, LifeTypeOK
    <2>. QED  BY <2>2, <2>3, <2>4, <2>5
  <1>5. CASE TickRefresh
    <2>1. ConnTypeOK'  BY <1>5 DEF TickRefresh, Sleep, LifeTypeOK, ConnTypeOK, Partings
    <2>2. LifeTypeOK'
      BY <1>0, <1>5, <2>1
      DEF TickRefresh, Sleep, LifeTypeOK, TasksHold, CleanSteps, CloseSteps
    <2>3. TasksHold'  BY <1>5 DEF TickRefresh, Sleep, TasksHold
    <2>4. ClosedFirst'  BY <1>5 DEF TickRefresh, Sleep, ClosedFirst
    <2>5. RegistryLive'  BY <1>5, RegistryStaysLive DEF TickRefresh, Sleep, LifeTypeOK
    <2>. QED  BY <2>2, <2>3, <2>4, <2>5
  <1>6. CASE TickRow
    <2>1. ConnTypeOK'  BY <1>6 DEF TickRow, Sleep, Fail, LifeTypeOK, ConnTypeOK, Partings
    <2>2. LifeTypeOK'
      BY <1>0, <1>6, <2>1
      DEF TickRow, Sleep, Fail, LifeTypeOK, TasksHold, CleanSteps, CloseSteps
    <2>3. TasksHold'  BY <1>6 DEF TickRow, Sleep, Fail, TasksHold
    <2>4. ClosedFirst'  BY <1>6 DEF TickRow, Sleep, Fail, ClosedFirst
    <2>5. RegistryLive'  BY <1>6, RegistryStaysLive DEF TickRow, Sleep, Fail, LifeTypeOK
    <2>. QED  BY <2>2, <2>3, <2>4, <2>5
  <1>7. CASE EndRuntime
    <2>0. PICK g \in Runtimes : LookUp(g) /\ trt' = g
      BY <1>7 DEF EndRuntime
    <2>lookup. /\ runtime' \in Runtimes
               /\ registry' \in [Runtimes -> [Participants -> Sockets \cup {None}]]
               /\ \A q \in Runtimes, p \in Participants :
                    registry'[q][p] = registry[q][p] \/ registry'[q][p] = None
               /\ seen' \in [Runtimes -> 0..Never]
               /\ \A q \in Runtimes, p \in Hosts :
                    registry'[q][p] # None => seen'[q] # Never
      BY <2>0, LookUpKeeps
    <2>1. ConnTypeOK'
      BY <1>7, <2>0, <2>lookup DEF EndRuntime, LifeTypeOK, ConnTypeOK, Partings
    <2>2. LifeTypeOK'
      BY <1>0, <1>7, <2>1, <2>0, <2>lookup
      DEF EndRuntime, LifeTypeOK, TasksHold, CleanSteps, CloseSteps
    <2>3. TasksHold'  BY <1>7, <2>0, <2>lookup DEF EndRuntime, TasksHold
    <2>4. ClosedFirst'  BY <1>7 DEF EndRuntime, ClosedFirst
    <2>5. RegistryLive'
      BY <1>7, <2>0, <2>lookup, RegistryStaysLive DEF EndRuntime, LifeTypeOK
    <2>. QED  BY <2>2, <2>3, <2>4, <2>5
  <1>8. CASE EndSay
    <2>1. ConnTypeOK'  BY <1>8 DEF EndSay, SayClosed, LifeTypeOK, ConnTypeOK, Partings
    <2>2. LifeTypeOK'
      BY <1>0, <1>8, <2>1
      DEF EndSay, SayClosed, LifeTypeOK, TasksHold, CleanSteps, CloseSteps
    <2>3. TasksHold'  BY <1>8 DEF EndSay, SayClosed, TasksHold
    <2>4. ClosedFirst'  BY <1>8 DEF EndSay, SayClosed, ClosedFirst
    <2>5. RegistryLive'  BY <1>8, RegistryStaysLive DEF EndSay, SayClosed, LifeTypeOK
    <2>. QED  BY <2>2, <2>3, <2>4, <2>5
  <1>9. CASE EndClose
    <2>1. ConnTypeOK'  BY <1>9 DEF EndClose, Fail, LifeTypeOK, ConnTypeOK, Partings
    <2>2. LifeTypeOK'
      BY <1>0, <1>9, <2>1
      DEF EndClose, Fail, LifeTypeOK, TasksHold, CleanSteps, CloseSteps
    <2>3. TasksHold'  BY <1>9 DEF EndClose, Fail, TasksHold
    <2>4. ClosedFirst'  BY <1>9 DEF EndClose, Fail, ClosedFirst
    <2>5. RegistryLive'  BY <1>9, RegistryStaysLive DEF EndClose, Fail, LifeTypeOK
    <2>. QED  BY <2>2, <2>3, <2>4, <2>5
  <1>10. CASE EndDelete
    <2>1. ConnTypeOK'  BY <1>10 DEF EndDelete, Fail, LifeTypeOK, ConnTypeOK, Partings
    <2>2. LifeTypeOK'
      BY <1>0, <1>10, <2>1
      DEF EndDelete, Fail, LifeTypeOK, TasksHold, CleanSteps, CloseSteps
    <2>3. TasksHold'  BY <1>10 DEF EndDelete, Fail, TasksHold
    <2>4. ClosedFirst'  BY <1>10 DEF EndDelete, Fail, ClosedFirst
    <2>5. RegistryLive'  BY <1>10, RegistryStaysLive DEF EndDelete, Fail, LifeTypeOK
    <2>. QED  BY <2>2, <2>3, <2>4, <2>5
  <1>11. CASE EndDrop
    <2>1. ConnTypeOK'  BY <1>11 DEF EndDrop, Sleep, LifeTypeOK, ConnTypeOK, Partings
    <2>2. LifeTypeOK'
      BY <1>0, <1>11, <2>1
      DEF EndDrop, Sleep, LifeTypeOK, TasksHold, CleanSteps, CloseSteps
    <2>3. TasksHold'  BY <1>11 DEF EndDrop, Sleep, TasksHold
    <2>4. ClosedFirst'  BY <1>11 DEF EndDrop, Sleep, ClosedFirst
    <2>5. RegistryLive'  BY <1>11, RegistryStaysLive DEF EndDrop, Sleep, LifeTypeOK
    <2>. QED  BY <2>2, <2>3, <2>4, <2>5
  <1>. QED
    BY <1>1, <1>2, <1>3, <1>4, <1>5, <1>6, <1>7, <1>8, <1>9, <1>10, <1>11 DEF Cleanup

LEMMA CloseKeepsLifeInv ==
  ASSUME LifeInv, CloseBegin \/ CloseRequest \/ CloseAbandon
  PROVE  LifeInv'
  <1> USE DEF LifeInv, CloseKeeps, CloseGoto, hubVars, kickVars, clockVars, cleanVars,
              faultVars
  <1>0. 0 \in 0..MaxAbsent /\ 0 \in 0..Never  BY DEF MaxAbsent, Never
  <1>1. CASE CloseBegin
    <2>1. ConnTypeOK'  BY <1>1 DEF CloseBegin, LifeTypeOK, ConnTypeOK, Partings
    <2>2. LifeTypeOK'
      BY <1>0, <1>1, <2>1 DEF CloseBegin, LifeTypeOK, TasksHold, CleanSteps, CloseSteps
    <2>3. TasksHold'  BY <1>1 DEF CloseBegin, TasksHold
    <2>4. ClosedFirst'  BY <1>1 DEF CloseBegin, ClosedFirst
    <2>5. RegistryLive'  BY <1>1, RegistryStaysLive DEF CloseBegin, LifeTypeOK
    <2>. QED  BY <2>2, <2>3, <2>4, <2>5
  <1>2. CASE CloseMark
    <2>1. ConnTypeOK'  BY <1>2 DEF CloseMark, LifeTypeOK, ConnTypeOK, Partings
    <2>2. LifeTypeOK'
      BY <1>0, <1>2, <2>1 DEF CloseMark, LifeTypeOK, TasksHold, CleanSteps, CloseSteps
    <2>3. TasksHold'  BY <1>2 DEF CloseMark, TasksHold
    <2>4. ClosedFirst'  BY <1>2 DEF CloseMark, ClosedFirst
    <2>5. RegistryLive'  BY <1>2, RegistryStaysLive DEF CloseMark, LifeTypeOK
    <2>. QED  BY <2>2, <2>3, <2>4, <2>5
  <1>3. CASE CloseRuntime
    <2>0. PICK g \in Runtimes : LookUp(g) /\ crt' = g
      BY <1>3 DEF CloseRuntime
    <2>lookup. /\ runtime' \in Runtimes
               /\ registry' \in [Runtimes -> [Participants -> Sockets \cup {None}]]
               /\ \A q \in Runtimes, p \in Participants :
                    registry'[q][p] = registry[q][p] \/ registry'[q][p] = None
               /\ seen' \in [Runtimes -> 0..Never]
               /\ \A q \in Runtimes, p \in Hosts :
                    registry'[q][p] # None => seen'[q] # Never
      BY <2>0, LookUpKeeps
    <2>1. ConnTypeOK'
      BY <1>3, <2>0, <2>lookup DEF CloseRuntime, LifeTypeOK, ConnTypeOK, Partings
    <2>2. LifeTypeOK'
      BY <1>0, <1>3, <2>1, <2>0, <2>lookup
      DEF CloseRuntime, LifeTypeOK, TasksHold, CleanSteps, CloseSteps
    <2>3. TasksHold'  BY <1>3, <2>0, <2>lookup DEF CloseRuntime, TasksHold
    <2>4. ClosedFirst'  BY <1>3 DEF CloseRuntime, ClosedFirst
    <2>5. RegistryLive'
      BY <1>3, <2>0, <2>lookup, RegistryStaysLive DEF CloseRuntime, LifeTypeOK
    <2>. QED  BY <2>2, <2>3, <2>4, <2>5
  <1>4. CASE CloseSay
    <2>1. ConnTypeOK'  BY <1>4 DEF CloseSay, SayClosed, LifeTypeOK, ConnTypeOK, Partings
    <2>2. LifeTypeOK'
      BY <1>0, <1>4, <2>1
      DEF CloseSay, SayClosed, LifeTypeOK, TasksHold, CleanSteps, CloseSteps
    <2>3. TasksHold'  BY <1>4 DEF CloseSay, SayClosed, TasksHold
    <2>4. ClosedFirst'  BY <1>4 DEF CloseSay, SayClosed, ClosedFirst
    <2>5. RegistryLive'  BY <1>4, RegistryStaysLive DEF CloseSay, SayClosed, LifeTypeOK
    <2>. QED  BY <2>2, <2>3, <2>4, <2>5
  <1>5. CASE CloseDrop
    <2>1. ConnTypeOK'  BY <1>5 DEF CloseDrop, LifeTypeOK, ConnTypeOK, Partings
    <2>2. LifeTypeOK'
      BY <1>0, <1>5, <2>1 DEF CloseDrop, LifeTypeOK, TasksHold, CleanSteps, CloseSteps
    <2>3. TasksHold'  BY <1>5 DEF CloseDrop, TasksHold
    <2>4. ClosedFirst'  BY <1>5 DEF CloseDrop, ClosedFirst
    <2>5. RegistryLive'  BY <1>5, RegistryStaysLive DEF CloseDrop, LifeTypeOK
    <2>. QED  BY <2>2, <2>3, <2>4, <2>5
  <1>6. CASE CloseDelete
    <2>1. ConnTypeOK'  BY <1>6 DEF CloseDelete, LifeTypeOK, ConnTypeOK, Partings
    <2>2. LifeTypeOK'
      BY <1>0, <1>6, <2>1 DEF CloseDelete, LifeTypeOK, TasksHold, CleanSteps, CloseSteps
    <2>3. TasksHold'  BY <1>6 DEF CloseDelete, TasksHold
    <2>4. ClosedFirst'  BY <1>6 DEF CloseDelete, ClosedFirst
    <2>5. RegistryLive'  BY <1>6, RegistryStaysLive DEF CloseDelete, LifeTypeOK
    <2>. QED  BY <2>2, <2>3, <2>4, <2>5
  <1>7. CASE CloseAbandon
    <2>1. ConnTypeOK'  BY <1>7 DEF CloseAbandon, Fail, LifeTypeOK, ConnTypeOK, Partings
    <2>2. LifeTypeOK'
      BY <1>0, <1>7, <2>1
      DEF CloseAbandon, Fail, LifeTypeOK, TasksHold, CleanSteps, CloseSteps
    <2>3. TasksHold'  BY <1>7 DEF CloseAbandon, Fail, TasksHold
    <2>4. ClosedFirst'  BY <1>7 DEF CloseAbandon, Fail, ClosedFirst
    <2>5. RegistryLive'  BY <1>7, RegistryStaysLive DEF CloseAbandon, Fail, LifeTypeOK
    <2>. QED  BY <2>2, <2>3, <2>4, <2>5
  <1>. QED  BY <1>1, <1>2, <1>3, <1>4, <1>5, <1>6, <1>7 DEF CloseRequest

LEMMA OthersKeepLifeInv ==
  ASSUME LifeInv, VisitBegin \/ VisitTouch \/ Clock \/ Restart
  PROVE  LifeInv'
  <1> USE DEF LifeInv, tableVars, hubVars, socketVars, kickVars, connVars, clockVars,
              cleanVars, closeVars, faultVars
  <1>0. 0 \in 0..MaxAbsent /\ 0 \in 0..Never  BY DEF MaxAbsent, Never
  <1>1. CASE VisitBegin
    <2>1. ConnTypeOK'  BY <1>1 DEF VisitBegin, LifeTypeOK, ConnTypeOK, Partings
    <2>2. LifeTypeOK'
      BY <1>0, <1>1, <2>1 DEF VisitBegin, LifeTypeOK, TasksHold, CleanSteps, CloseSteps
    <2>3. TasksHold'  BY <1>1 DEF VisitBegin, TasksHold
    <2>4. ClosedFirst'  BY <1>1 DEF VisitBegin, ClosedFirst
    <2>5. RegistryLive'  BY <1>1, RegistryStaysLive DEF VisitBegin, LifeTypeOK
    <2>. QED  BY <2>2, <2>3, <2>4, <2>5
  <1>2. CASE VisitTouch
    <2>0. PICK g \in Runtimes : LookUp(g)
      BY <1>2 DEF VisitTouch
    <2>lookup. /\ runtime' \in Runtimes
               /\ registry' \in [Runtimes -> [Participants -> Sockets \cup {None}]]
               /\ \A q \in Runtimes, p \in Participants :
                    registry'[q][p] = registry[q][p] \/ registry'[q][p] = None
               /\ seen' \in [Runtimes -> 0..Never]
               /\ \A q \in Runtimes, p \in Hosts :
                    registry'[q][p] # None => seen'[q] # Never
      BY <2>0, LookUpKeeps
    <2>1. ConnTypeOK'
      BY <1>2, <2>0, <2>lookup DEF VisitTouch, LifeTypeOK, ConnTypeOK, Partings
    <2>2. LifeTypeOK'
      BY <1>0, <1>2, <2>1, <2>0, <2>lookup
      DEF VisitTouch, LifeTypeOK, TasksHold, CleanSteps, CloseSteps
    <2>3. TasksHold'  BY <1>2, <2>0, <2>lookup DEF VisitTouch, TasksHold
    <2>4. ClosedFirst'  BY <1>2 DEF VisitTouch, ClosedFirst
    <2>5. RegistryLive'
      BY <1>2, <2>0, <2>lookup, RegistryStaysLive DEF VisitTouch, LifeTypeOK
    <2>. QED  BY <2>2, <2>3, <2>4, <2>5
  <1>3. CASE Clock
    <2>1. ConnTypeOK'  BY <1>3 DEF Clock, LifeTypeOK, ConnTypeOK
    <2>2. LifeTypeOK'
      <3>1. timer' \in 0..TickLen /\ age' \in 0..MaxAge
        BY <1>3 DEF Clock, LifeTypeOK, MaxAge, Larger
      <3>2. absent' \in 0..MaxAbsent  BY <1>0, <1>3 DEF Clock, LifeTypeOK, MaxAbsent
      <3>3. tracked' \in 0..TickLen + 1  BY <1>3 DEF Clock, LifeTypeOK
      <3>4. seen' \in [Runtimes -> 0..Never]  BY <1>3 DEF Clock, LifeTypeOK, Never
      <3>5. ASSUME NEW g \in Runtimes, NEW p \in Hosts, registry'[g][p] # None
            PROVE  seen'[g] # Never
        <4>1. registry[g][p] # None /\ seen[g] \in 0..Never /\ seen[g] # Never
          BY <1>3, <3>5 DEF Clock, LifeTypeOK
        <4>2. registry[g][p] \in Sockets /\ rt[registry[g][p]] = g
          BY <4>1 DEF RegistryLive, LifeTypeOK, ConnTypeOK
        <4>3. g \in InUse  BY <4>2 DEF InUse, Held
        <4>4. seen'[g] = IF seen[g] <= Grace THEN seen[g] + 1 ELSE seen[g]
          BY <1>3, <4>3 DEF Clock
        <4>. QED  BY <4>1, <4>4 DEF Never
      <3>. QED  BY <1>3, <2>1, <3>1, <3>2, <3>3, <3>4, <3>5 DEF Clock, LifeTypeOK
    <2>3. TasksHold'  BY <1>3 DEF Clock, TasksHold
    <2>4. ClosedFirst'  BY <1>3 DEF Clock, ClosedFirst
    <2>5. RegistryLive'  BY <1>3 DEF Clock, RegistryLive
    <2>. QED  BY <2>2, <2>3, <2>4, <2>5
  <1>4. CASE Restart
    <2>1. Empty \in [Participants -> Sockets \cup {None}]  BY DEF Empty
    <2>2. ConnTypeOK'
      BY <1>4, <2>1 DEF Restart, LifeTypeOK, ConnTypeOK, SocketSteps, KickSteps
    <2>3. LifeTypeOK'
      <3>1. \A g \in Runtimes, p \in Hosts : registry'[g][p] = None
        BY <1>4 DEF Restart, Empty
      <3>. QED
        BY <1>0, <1>4, <2>2, <3>1
        DEF Restart, LifeTypeOK, CleanSteps, CloseSteps, Never
    <2>4. TasksHold' /\ ClosedFirst'  BY <1>4 DEF Restart, TasksHold, ClosedFirst
    <2>5. RegistryLive'  BY <1>4 DEF Restart, RegistryLive, Empty
    <2>. QED  BY <2>3, <2>4, <2>5
  <1>. QED  BY <1>1, <1>2, <1>3, <1>4

LEMMA StutterKeepsLifeInv ==
  ASSUME LifeInv, UNCHANGED lifeVars
  PROVE  LifeInv'
  BY DEF LifeInv, LifeTypeOK, ConnTypeOK, TasksHold, ClosedFirst, RegistryLive, lifeVars,
         connVars, tableVars, hubVars, socketVars, kickVars, clockVars, cleanVars,
         closeVars, faultVars

LEMMA StepKeepsLifeInv == LifeInv /\ [LifeNext]_lifeVars => LifeInv'
  BY SocketKeepsLifeInv, CleanupKeepsLifeInv, CloseKeepsLifeInv, OthersKeepLifeInv,
     StutterKeepsLifeInv DEF LifeNext

----------------------------------------------------------------------------
(* Without faults: one runtime, and how long the host has been absent *)

LEMMA ListedIsThere ==
  ASSUME ConnTypeOK, RegistryLive, NEW g \in Runtimes, HostListed(g)
  PROVE  HostThere
  BY DEF ConnTypeOK, RegistryLive, HostListed, HostThere

LEMMA AbsenceInitInv == LifeInit => OneWhileOpen /\ AbsenceBounded
  BY DEF LifeInit, ConnInit, OneWhileOpen, AbsenceBounded, HostThere, MaxAge, Larger

LEMMA SocketKeepsAbsence ==
  ASSUME NoFaults, AbsenceInv, NEW s \in Sockets,
         LifeConnect(s) \/ LifeSocket(s) \/ LifeEnds(s)
  PROVE  OneWhileOpen' /\ AbsenceBounded'
  <1> USE DEF AbsenceInv, LifeInv, SocketKeeps, tableVars, hubVars, kickVars, cleanVars,
              closeVars, faultVars, Goto
  <1>1. CASE LifeConnect(s)
    <2>1. OneWhileOpen'
      BY <1>1 DEF LifeConnect, Connect, OneWhileOpen, ClosedFirst, LifeTypeOK, ConnTypeOK
    <2>2. AbsenceBounded'
      BY <1>1
      DEF LifeConnect, Connect, OneWhileOpen, ClosedFirst, AbsenceBounded, HostThere,
          LifeTypeOK, ConnTypeOK
    <2>. QED  BY <2>1, <2>2
  <1>2. CASE LifeTake(s)
    <2>0. PICK g \in Runtimes : LookUp(g) /\ rt' = [rt EXCEPT ![s] = g]
      BY <1>2, TakeLooksUp
    <2>lookup. /\ runtime' = g /\ g # None /\ (runtime # None => g = runtime /\ seen' = seen)
               /\ runtime = None => seen' = [seen EXCEPT ![g] = Never]
      BY <2>0, LookUpKeeps
    <2>never. runtime = None => ~(seen'[g] <= Grace)  BY <2>lookup DEF LifeTypeOK, Never
    <2>1. OneWhileOpen'
      BY <1>2, <2>0, <2>lookup, <2>never
      DEF LifeTake, TakeRuntime, OneWhileOpen, ClosedFirst, LifeTypeOK, ConnTypeOK
    <2>2. HostThere' => HostThere
      BY <1>2, <2>0 DEF LifeTake, TakeRuntime, HostThere, LifeTypeOK, ConnTypeOK
    <2>3. row' = "open" =>
           /\ row = "open"
           /\ runtime' # None /\ seen'[runtime'] <= Grace => absent <= seen'[runtime']
      BY <1>2, <2>0, <2>lookup, <2>never DEF LifeTake, TakeRuntime, AbsenceBounded
    <2>4. AbsenceBounded'
      BY <1>2, <2>lookup, <2>2, <2>3 DEF LifeTake, TakeRuntime, AbsenceBounded
    <2>. QED  BY <2>1, <2>4
  <1>3. CASE LifeRegister(s)
    <2>1. OneWhileOpen'
      BY <1>3
      DEF LifeRegister, Register, TasksHold, OneWhileOpen, ClosedFirst, LifeTypeOK,
          ConnTypeOK
    <2>2. AbsenceBounded'
      BY <1>3
      DEF LifeRegister, Register, TasksHold, OneWhileOpen, ClosedFirst, AbsenceBounded,
          HostThere, LifeTypeOK, ConnTypeOK
    <2>. QED  BY <2>1, <2>2
  <1>4. CASE Validate(s) /\ SocketKeeps /\ UNCHANGED <<seen, absent>>
    <2>1. OneWhileOpen'
      BY <1>4 DEF Validate, OneWhileOpen, ClosedFirst, LifeTypeOK, ConnTypeOK
    <2>2. AbsenceBounded'
      BY <1>4
      DEF Validate, OneWhileOpen, ClosedFirst, AbsenceBounded, HostThere, LifeTypeOK,
          ConnTypeOK
    <2>. QED  BY <2>1, <2>2
  <1>5. CASE Deregister(s) /\ SocketKeeps /\ UNCHANGED <<seen, absent>>
    <2>1. OneWhileOpen'
      BY <1>5 DEF Deregister, OneWhileOpen, ClosedFirst, LifeTypeOK, ConnTypeOK
    <2>2. AbsenceBounded'
      BY <1>5
      DEF Deregister, OneWhileOpen, ClosedFirst, AbsenceBounded, HostThere, LifeTypeOK,
          ConnTypeOK
    <2>. QED  BY <2>1, <2>2
  <1>6. CASE LifeEnds(s)
    <2>1. OneWhileOpen'
      BY <1>6
      DEF LifeEnds, ReaderEnds, SenderEnds, OneWhileOpen, ClosedFirst, LifeTypeOK,
          ConnTypeOK
    <2>2. AbsenceBounded'
      BY <1>6
      DEF LifeEnds, ReaderEnds, SenderEnds, OneWhileOpen, ClosedFirst, AbsenceBounded,
          HostThere, LifeTypeOK, ConnTypeOK
    <2>. QED  BY <2>1, <2>2
  <1>. QED  BY <1>1, <1>2, <1>3, <1>4, <1>5, <1>6 DEF LifeSocket

LEMMA CleanupKeepsAbsence ==
  ASSUME NoFaults, AbsenceInv, Cleanup
  PROVE  OneWhileOpen' /\ AbsenceBounded'
  <1> USE DEF AbsenceInv, LifeInv, NoFaults, CleanKeeps, CleanGoto, hubVars, kickVars,
              clockVars, closeVars, faultVars
  <1>0. failures = 0  BY DEF LifeTypeOK
  <1>ages. MaxAge > Grace  BY DEF MaxAge, Larger
  <1>1. CASE TickList
    <2>1. OneWhileOpen'
      BY <1>0, <1>1 DEF TickList, Fail, OneWhileOpen, ClosedFirst, LifeTypeOK, ConnTypeOK
    <2>2. AbsenceBounded'
      BY <1>0, <1>1
      DEF TickList, Fail, OneWhileOpen, ClosedFirst, AbsenceBounded, HostThere,
          LifeTypeOK, ConnTypeOK
    <2>. QED  BY <2>1, <2>2
  <1>2. CASE TickLive
    <2>1. OneWhileOpen'
      BY <1>0, <1>2 DEF TickLive, Sleep, OneWhileOpen, ClosedFirst, LifeTypeOK, ConnTypeOK
    <2>2. AbsenceBounded'
      BY <1>0, <1>2
      DEF TickLive, Sleep, OneWhileOpen, ClosedFirst, AbsenceBounded, HostThere,
          LifeTypeOK, ConnTypeOK
    <2>. QED  BY <2>1, <2>2
  <1>3. CASE TickRuntime
    <2>0. PICK g \in Runtimes : LookUp(g) /\ trt' = g
      BY <1>0, <1>3 DEF TickRuntime
    <2>lookup. /\ runtime' = g /\ g # None /\ (runtime # None => g = runtime /\ seen' = seen)
               /\ runtime = None => seen' = [seen EXCEPT ![g] = Never]
      BY <2>0, LookUpKeeps
    <2>never. runtime = None => ~(seen'[g] <= Grace)  BY <2>lookup DEF LifeTypeOK, Never
    <2>1. OneWhileOpen'
      BY <1>0, <1>3, <2>0, <2>lookup, <2>never
      DEF TickRuntime, OneWhileOpen, ClosedFirst, LifeTypeOK, ConnTypeOK
    <2>2. HostThere' => HostThere
      BY <1>0, <1>3, <2>0 DEF TickRuntime, HostThere, LifeTypeOK, ConnTypeOK
    <2>3. row' = "open" =>
           /\ row = "open"
           /\ runtime' # None /\ seen'[runtime'] <= Grace => absent <= seen'[runtime']
      BY <1>0, <1>3, <2>0, <2>lookup, <2>never DEF TickRuntime, AbsenceBounded
    <2>4. AbsenceBounded'
      BY <1>0, <1>3, <2>lookup, <2>2, <2>3 DEF TickRuntime, AbsenceBounded
    <2>. QED  BY <2>1, <2>4
  <1>4. CASE TickLook
    <2>0. HostListed(trt) => HostThere
      BY <1>4, ListedIsThere DEF TickLook, TasksHold, LifeTypeOK
    <2>1. OneWhileOpen'
      BY <1>0, <1>4, <2>0
      DEF TickLook, Sleep, Stale, TasksHold, OneWhileOpen, ClosedFirst, LifeTypeOK,
          ConnTypeOK
    <2>2. AbsenceBounded'
      BY <1>0, <1>4, <2>0
      DEF TickLook, Sleep, Stale, TasksHold, OneWhileOpen, ClosedFirst, AbsenceBounded,
          HostThere, LifeTypeOK, ConnTypeOK
    <2>. QED  BY <2>1, <2>2
  <1>5. CASE TickRefresh
    <2>1. OneWhileOpen'
      BY <1>0, <1>5
      DEF TickRefresh, Sleep, TasksHold, OneWhileOpen, ClosedFirst, LifeTypeOK,
          ConnTypeOK
    <2>2. AbsenceBounded'
      BY <1>0, <1>5
      DEF TickRefresh, Sleep, TasksHold, OneWhileOpen, ClosedFirst, AbsenceBounded,
          HostThere, LifeTypeOK, ConnTypeOK
    <2>. QED  BY <2>1, <2>2
  <1>6. CASE TickRow
    <2>1. OneWhileOpen'
      BY <1>0, <1>ages, <1>6
      DEF TickRow, Sleep, Fail, StillRecent, OneWhileOpen, ClosedFirst, LifeTypeOK,
          ConnTypeOK
    <2>2. AbsenceBounded'
      BY <1>0, <1>ages, <1>6
      DEF TickRow, Sleep, Fail, StillRecent, OneWhileOpen, ClosedFirst, AbsenceBounded,
          HostThere, LifeTypeOK, ConnTypeOK
    <2>. QED  BY <2>1, <2>2
  <1>7. CASE EndRuntime
    <2>0. PICK g \in Runtimes : LookUp(g) /\ trt' = g
      BY <1>0, <1>7 DEF EndRuntime
    <2>lookup. /\ runtime' = g /\ g # None /\ (runtime # None => g = runtime /\ seen' = seen)
               /\ runtime = None => seen' = [seen EXCEPT ![g] = Never]
      BY <2>0, LookUpKeeps
    <2>never. runtime = None => ~(seen'[g] <= Grace)  BY <2>lookup DEF LifeTypeOK, Never
    <2>1. OneWhileOpen'
      BY <1>0, <1>7, <2>0, <2>lookup, <2>never
      DEF EndRuntime, OneWhileOpen, ClosedFirst, LifeTypeOK, ConnTypeOK
    <2>2. HostThere' => HostThere
      BY <1>0, <1>7, <2>0 DEF EndRuntime, HostThere, LifeTypeOK, ConnTypeOK
    <2>3. row' = "open" =>
           /\ row = "open"
           /\ runtime' # None /\ seen'[runtime'] <= Grace => absent <= seen'[runtime']
      BY <1>0, <1>7, <2>0, <2>lookup, <2>never DEF EndRuntime, AbsenceBounded
    <2>4. AbsenceBounded'
      BY <1>0, <1>7, <2>lookup, <2>2, <2>3 DEF EndRuntime, AbsenceBounded
    <2>. QED  BY <2>1, <2>4
  <1>8. CASE EndSay
    <2>1. OneWhileOpen'
      BY <1>0, <1>8 DEF EndSay, OneWhileOpen, ClosedFirst, LifeTypeOK, ConnTypeOK
    <2>2. AbsenceBounded'
      BY <1>0, <1>8
      DEF EndSay, OneWhileOpen, ClosedFirst, AbsenceBounded, HostThere, LifeTypeOK,
          ConnTypeOK
    <2>. QED  BY <2>1, <2>2
  <1>9. CASE EndClose
    <2>1. OneWhileOpen'
      BY <1>0, <1>9 DEF EndClose, Fail, OneWhileOpen, ClosedFirst, LifeTypeOK, ConnTypeOK
    <2>2. AbsenceBounded'
      BY <1>0, <1>9
      DEF EndClose, Fail, OneWhileOpen, ClosedFirst, AbsenceBounded, HostThere,
          LifeTypeOK, ConnTypeOK
    <2>. QED  BY <2>1, <2>2
  <1>10. CASE EndDelete
    <2>1. OneWhileOpen'
      BY <1>0, <1>10
      DEF EndDelete, Fail, OneWhileOpen, ClosedFirst, LifeTypeOK, ConnTypeOK
    <2>2. AbsenceBounded'
      BY <1>0, <1>10
      DEF EndDelete, Fail, OneWhileOpen, ClosedFirst, AbsenceBounded, HostThere,
          LifeTypeOK, ConnTypeOK
    <2>. QED  BY <2>1, <2>2
  <1>11. CASE EndDrop
    <2>1. OneWhileOpen'
      BY <1>0, <1>11 DEF EndDrop, OneWhileOpen, ClosedFirst, LifeTypeOK, ConnTypeOK
    <2>2. AbsenceBounded'
      BY <1>0, <1>11
      DEF EndDrop, Sleep, OneWhileOpen, ClosedFirst, AbsenceBounded, HostThere,
          LifeTypeOK, ConnTypeOK
    <2>. QED  BY <2>1, <2>2
  <1>. QED
    BY <1>1, <1>2, <1>3, <1>4, <1>5, <1>6, <1>7, <1>8, <1>9, <1>10, <1>11 DEF Cleanup

LEMMA CloseKeepsAbsence ==
  ASSUME NoFaults, AbsenceInv, CloseBegin \/ CloseRequest \/ CloseAbandon
  PROVE  OneWhileOpen' /\ AbsenceBounded'
  <1> USE DEF AbsenceInv, LifeInv, NoFaults, CloseKeeps, CloseGoto, hubVars, kickVars,
              clockVars, cleanVars, faultVars
  <1>1. CASE CloseBegin
    <2>1. OneWhileOpen'
      BY <1>1 DEF CloseBegin, OneWhileOpen, ClosedFirst, LifeTypeOK, ConnTypeOK
    <2>2. AbsenceBounded'
      BY <1>1
      DEF CloseBegin, OneWhileOpen, ClosedFirst, AbsenceBounded, HostThere, LifeTypeOK,
          ConnTypeOK
    <2>. QED  BY <2>1, <2>2
  <1>2. CASE CloseMark
    <2>1. OneWhileOpen'
      BY <1>2 DEF CloseMark, OneWhileOpen, ClosedFirst, LifeTypeOK, ConnTypeOK
    <2>2. AbsenceBounded'
      BY <1>2
      DEF CloseMark, OneWhileOpen, ClosedFirst, AbsenceBounded, HostThere, LifeTypeOK,
          ConnTypeOK
    <2>. QED  BY <2>1, <2>2
  <1>3. CASE CloseRuntime
    <2>0. PICK g \in Runtimes : LookUp(g) /\ crt' = g
      BY <1>3 DEF CloseRuntime
    <2>lookup. /\ runtime' = g /\ g # None /\ (runtime # None => g = runtime /\ seen' = seen)
               /\ runtime = None => seen' = [seen EXCEPT ![g] = Never]
      BY <2>0, LookUpKeeps
    <2>never. runtime = None => ~(seen'[g] <= Grace)  BY <2>lookup DEF LifeTypeOK, Never
    <2>1. OneWhileOpen'
      BY <1>3, <2>0, <2>lookup, <2>never
      DEF CloseRuntime, OneWhileOpen, ClosedFirst, LifeTypeOK, ConnTypeOK
    <2>2. HostThere' => HostThere
      BY <1>3, <2>0 DEF CloseRuntime, HostThere, LifeTypeOK, ConnTypeOK
    <2>3. row' = "open" =>
           /\ row = "open"
           /\ runtime' # None /\ seen'[runtime'] <= Grace => absent <= seen'[runtime']
      BY <1>3, <2>0, <2>lookup, <2>never DEF CloseRuntime, AbsenceBounded
    <2>4. AbsenceBounded'
      BY <1>3, <2>lookup, <2>2, <2>3 DEF CloseRuntime, AbsenceBounded
    <2>. QED  BY <2>1, <2>4
  <1>4. CASE CloseSay
    <2>1. OneWhileOpen'
      BY <1>4 DEF CloseSay, OneWhileOpen, ClosedFirst, LifeTypeOK, ConnTypeOK
    <2>2. AbsenceBounded'
      BY <1>4
      DEF CloseSay, OneWhileOpen, ClosedFirst, AbsenceBounded, HostThere, LifeTypeOK,
          ConnTypeOK
    <2>. QED  BY <2>1, <2>2
  <1>5. CASE CloseDrop
    <2>1. OneWhileOpen'
      BY <1>5 DEF CloseDrop, OneWhileOpen, ClosedFirst, LifeTypeOK, ConnTypeOK
    <2>2. AbsenceBounded'
      BY <1>5
      DEF CloseDrop, OneWhileOpen, ClosedFirst, AbsenceBounded, HostThere, LifeTypeOK,
          ConnTypeOK
    <2>. QED  BY <2>1, <2>2
  <1>6. CASE CloseDelete
    <2>1. OneWhileOpen'
      BY <1>6 DEF CloseDelete, OneWhileOpen, ClosedFirst, LifeTypeOK, ConnTypeOK
    <2>2. AbsenceBounded'
      BY <1>6
      DEF CloseDelete, OneWhileOpen, ClosedFirst, AbsenceBounded, HostThere, LifeTypeOK,
          ConnTypeOK
    <2>. QED  BY <2>1, <2>2
  <1>7. CASE CloseAbandon
    <2>1. OneWhileOpen'
      BY <1>7 DEF CloseAbandon, Fail, OneWhileOpen, ClosedFirst, LifeTypeOK, ConnTypeOK
    <2>2. AbsenceBounded'
      BY <1>7
      DEF CloseAbandon, Fail, OneWhileOpen, ClosedFirst, AbsenceBounded, HostThere,
          LifeTypeOK, ConnTypeOK
    <2>. QED  BY <2>1, <2>2
  <1>. QED  BY <1>1, <1>2, <1>3, <1>4, <1>5, <1>6, <1>7 DEF CloseRequest

LEMMA OthersKeepAbsence ==
  ASSUME NoFaults, AbsenceInv, VisitBegin \/ VisitTouch \/ Clock \/ Restart
  PROVE  OneWhileOpen' /\ AbsenceBounded'
  <1> USE DEF AbsenceInv, LifeInv, NoFaults, tableVars, hubVars, socketVars, kickVars,
              connVars, clockVars, cleanVars, closeVars, faultVars
  <1>1. CASE VisitBegin
    <2>1. OneWhileOpen'
      BY <1>1 DEF VisitBegin, OneWhileOpen, ClosedFirst, LifeTypeOK, ConnTypeOK
    <2>2. AbsenceBounded'
      BY <1>1
      DEF VisitBegin, OneWhileOpen, ClosedFirst, AbsenceBounded, HostThere, LifeTypeOK,
          ConnTypeOK
    <2>. QED  BY <2>1, <2>2
  <1>2. CASE VisitTouch
    <2>0. PICK g \in Runtimes : LookUp(g)
      BY <1>2 DEF VisitTouch
    <2>lookup. /\ runtime' = g /\ g # None /\ (runtime # None => g = runtime /\ seen' = seen)
               /\ runtime = None => seen' = [seen EXCEPT ![g] = Never]
      BY <2>0, LookUpKeeps
    <2>never. runtime = None => ~(seen'[g] <= Grace)  BY <2>lookup DEF LifeTypeOK, Never
    <2>1. OneWhileOpen'
      BY <1>2, <2>0, <2>lookup, <2>never
      DEF VisitTouch, OneWhileOpen, ClosedFirst, LifeTypeOK, ConnTypeOK
    <2>2. HostThere' => HostThere
      BY <1>2, <2>0 DEF VisitTouch, HostThere, LifeTypeOK, ConnTypeOK
    <2>3. row' = "open" =>
           /\ row = "open"
           /\ runtime' # None /\ seen'[runtime'] <= Grace => absent <= seen'[runtime']
      BY <1>2, <2>0, <2>lookup, <2>never DEF VisitTouch, AbsenceBounded
    <2>4. AbsenceBounded'
      BY <1>2, <2>lookup, <2>2, <2>3 DEF VisitTouch, AbsenceBounded
    <2>. QED  BY <2>1, <2>4
  <1>3. CASE Clock
    <2>1. OneWhileOpen'  BY <1>3 DEF Clock, OneWhileOpen
    <2>2. runtime # None => /\ runtime \in Runtimes
                            /\ seen'[runtime] = IF seen[runtime] <= Grace THEN seen[runtime] + 1
                                                ELSE seen[runtime]
      BY <1>3 DEF Clock, LifeTypeOK, ConnTypeOK, InUse, Held
    <2>3. HostThere' = HostThere  BY <1>3 DEF Clock, HostThere
    <2>4. /\ absent' = 0 \/ (absent' = absent + 1 /\ ~HostThere) \/ absent' = absent
          /\ absent' <= absent + 1 /\ absent' \in Nat /\ absent \in Nat
          /\ HostThere => absent' = 0
      BY <1>3 DEF Clock, LifeTypeOK, MaxAbsent
    <2>5. age' = MaxAge \/ absent' <= age'
      BY <1>3, <2>4 DEF Clock, AbsenceBounded, LifeTypeOK, MaxAge, Larger
    <2>6. ASSUME row' = "open"
          PROVE  /\ runtime' = None => tracked' = 0
                 /\ runtime' # None /\ seen'[runtime'] <= Grace => absent' <= seen'[runtime']
                 /\ tracked' > TickLen - timer' => absent' + timer' <= Grace + TickLen
      <3>1. runtime' = None => tracked' = 0  BY <1>3 DEF Clock
      <3>2. ASSUME runtime' # None, seen'[runtime'] <= Grace PROVE absent' <= seen'[runtime']
        <4>1. runtime # None /\ runtime \in Runtimes /\ runtime' = runtime /\ seen[runtime] \in Nat
          BY <1>3, <2>2, <3>2 DEF Clock, LifeTypeOK
        <4>. QED  BY <1>3, <2>2, <2>4, <2>6, <3>2, <4>1 DEF Clock, AbsenceBounded
      <3>3. ASSUME tracked' > TickLen - timer' PROVE absent' + timer' <= Grace + TickLen
        <4>1. timer \in Nat /\ timer' = timer - 1 /\ timer > 0 /\ timer <= TickLen /\ tracked \in Nat
          BY <1>3 DEF Clock, LifeTypeOK
        <4>2. tracked > TickLen - timer  BY <1>3, <3>3, <4>1 DEF Clock
        <4>. QED  BY <1>3, <2>4, <2>6, <4>1, <4>2 DEF Clock, AbsenceBounded
      <3>. QED  BY <3>1, <3>2, <3>3
    <2>7. AbsenceBounded'  BY <1>3, <2>3, <2>4, <2>5, <2>6 DEF Clock, AbsenceBounded
    <2>. QED  BY <2>1, <2>7
  <1>4. ~Restart  BY DEF Restart, LifeTypeOK
  <1>. QED  BY <1>1, <1>2, <1>3, <1>4

LEMMA StepKeepsAbsence ==
  ASSUME NoFaults, AbsenceInv, [LifeNext]_lifeVars
  PROVE  AbsenceInv'
  <1>1. CASE UNCHANGED lifeVars
    BY <1>1, StutterKeepsLifeInv
    DEF AbsenceInv, OneWhileOpen, AbsenceBounded, HostThere, lifeVars, connVars, tableVars,
        hubVars, socketVars, kickVars, clockVars, cleanVars, closeVars, faultVars
  <1>2. CASE LifeNext
    BY <1>2, StepKeepsLifeInv, SocketKeepsAbsence, CleanupKeepsAbsence, CloseKeepsAbsence,
       OthersKeepAbsence DEF LifeNext, AbsenceInv
  <1>. QED  BY <1>1, <1>2

----------------------------------------------------------------------------
(* With one tab each as well: how long ago the host was seen *)

LEMMA GraceInitInv == LifeInit => ListedWhileOpen /\ SeenInTime
  BY DEF LifeInit, ConnInit, ListedWhileOpen, SeenInTime, HostThere

\* A host who is there is listed by the one runtime.
LEMMA ThereIsListed ==
  ASSUME LifeInv, OneWhileOpen, ListedWhileOpen, row = "open", HostThere
  PROVE  runtime \in Runtimes /\ HostListed(runtime)
  <1>1. PICK s \in Sockets : pc[s] \in {"open", "leaving"} /\ Owner[s] \in Hosts
    BY DEF HostThere
  <1>2. rt[s] = runtime /\ runtime \in Runtimes /\ registry[runtime][Owner[s]] = s
    BY <1>1 DEF LifeInv, TasksHold, OneWhileOpen, ListedWhileOpen
  <1>. QED  BY <1>1, <1>2 DEF HostListed

LEMMA SocketKeepsGrace ==
  ASSUME OneTab, GraceInv, NEW s \in Sockets,
         LifeConnect(s) \/ LifeSocket(s) \/ LifeEnds(s)
  PROVE  ListedWhileOpen' /\ SeenInTime'
  <1> USE DEF GraceInv, AbsenceInv, LifeInv, SocketKeeps, tableVars, hubVars, kickVars,
              cleanVars, closeVars, faultVars, Goto
  <1>1. CASE LifeConnect(s)
    <2>1. ListedWhileOpen'
      BY <1>1
      DEF LifeConnect, Connect, ListedWhileOpen, ClosedFirst, LifeTypeOK, ConnTypeOK
    <2>2. SeenInTime'
      BY <1>1
      DEF LifeConnect, Connect, SeenInTime, HostThere, LifeTypeOK, ConnTypeOK,
          ClosedFirst
    <2>. QED  BY <2>1, <2>2
  <1>2. CASE LifeTake(s)
    <2>0. PICK g \in Runtimes : LookUp(g) /\ rt' = [rt EXCEPT ![s] = g]
      BY <1>2, TakeLooksUp
    <2>lookup. /\ runtime' = g /\ (runtime # None => g = runtime /\ seen' = seen /\ registry' = registry)
               /\ runtime = None => seen' = [seen EXCEPT ![g] = Never]
      BY <2>0, LookUpKeeps
    <2>never. runtime = None => seen'[runtime'] = Never  BY <2>lookup DEF LifeTypeOK
    <2>1. row = "open" /\ runtime = None =>
            ~HostThere /\ \A t \in Sockets : pc[t] \notin {"open", "leaving"}
      BY DEF TasksHold, OneWhileOpen, HostThere
    <2>2. ListedWhileOpen'
      BY <1>2, <2>0, <2>lookup, <2>1
      DEF LifeTake, TakeRuntime, ListedWhileOpen, LifeTypeOK, ConnTypeOK
    <2>3. HostThere' => HostThere
      BY <1>2, <2>0 DEF LifeTake, TakeRuntime, HostThere, LifeTypeOK, ConnTypeOK
    <2>5. row' = row  BY <1>2 DEF LifeTake, TakeRuntime, tableVars
    <2>7. SeenInTime'
      BY <1>2, <2>lookup, <2>never, <2>1, <2>3, <2>5 DEF LifeTake, TakeRuntime, SeenInTime
    <2>. QED  BY <2>2, <2>7
  <1>3. CASE LifeRegister(s)
    <2>1. ListedWhileOpen'
      BY <1>3
      DEF LifeRegister, Register, TasksHold, OneWhileOpen, OneTab, ListedWhileOpen,
          ClosedFirst, LifeTypeOK, ConnTypeOK
    <2>2. rt[s] \in Runtimes /\ (row = "open" => rt[s] = runtime) /\ UNCHANGED <<row, runtime>>
      BY <1>3 DEF LifeRegister, Register, TasksHold, OneWhileOpen
    <2>3. CASE Owner[s] \in Hosts
      <3>1. seen' = [seen EXCEPT ![rt[s]] = 0] /\ absent' = 0
        BY <1>3, <2>3 DEF LifeRegister
      <3>2. seen'[rt[s]] = 0 /\ timer \in 0..TickLen  BY <2>2, <3>1 DEF LifeTypeOK
      <3>3. UNCHANGED <<age, timer, tpc, after, gap>>  BY <1>3 DEF LifeRegister
      <3>. QED  BY <2>1, <2>2, <3>1, <3>2, <3>3 DEF SeenInTime, Never
    <2>4. CASE Owner[s] \notin Hosts
      <3>1. HostThere' = HostThere
        BY <1>3, <2>4 DEF LifeRegister, Register, HostThere, LifeTypeOK, ConnTypeOK
      <3>2. UNCHANGED <<seen, absent, age, timer, tpc, after, gap>>
        BY <1>3, <2>4 DEF LifeRegister
      <3>. QED  BY <2>1, <2>2, <3>1, <3>2 DEF SeenInTime
    <2>. QED  BY <2>1, <2>3, <2>4
  <1>4. CASE Validate(s) /\ SocketKeeps /\ UNCHANGED <<seen, absent>>
    <2>1. ListedWhileOpen'
      BY <1>4 DEF Validate, ListedWhileOpen, ClosedFirst, LifeTypeOK, ConnTypeOK
    <2>2. SeenInTime'
      BY <1>4 DEF Validate, SeenInTime, HostThere, LifeTypeOK, ConnTypeOK, ClosedFirst
    <2>. QED  BY <2>1, <2>2
  <1>5. CASE Deregister(s) /\ SocketKeeps /\ UNCHANGED <<seen, absent>>
    <2>1. ListedWhileOpen'
      BY <1>5
      DEF Deregister, TasksHold, OneTab, ListedWhileOpen, ClosedFirst, LifeTypeOK,
          ConnTypeOK
    <2>2. SeenInTime'
      BY <1>5
      DEF Deregister, TasksHold, OneTab, SeenInTime, HostThere, LifeTypeOK, ConnTypeOK,
          ClosedFirst
    <2>. QED  BY <2>1, <2>2
  <1>6. CASE LifeEnds(s)
    <2>1. ListedWhileOpen'
      BY <1>6
      DEF LifeEnds, ReaderEnds, SenderEnds, ListedWhileOpen, ClosedFirst, LifeTypeOK,
          ConnTypeOK
    <2>2. SeenInTime'
      BY <1>6
      DEF LifeEnds, ReaderEnds, SenderEnds, SeenInTime, HostThere, LifeTypeOK,
          ConnTypeOK, ClosedFirst
    <2>. QED  BY <2>1, <2>2
  <1>. QED  BY <1>1, <1>2, <1>3, <1>4, <1>5, <1>6 DEF LifeSocket

LEMMA CleanupKeepsGrace ==
  ASSUME NoFaults, GraceInv, Cleanup
  PROVE  ListedWhileOpen' /\ SeenInTime'
  <1> USE DEF GraceInv, AbsenceInv, LifeInv, NoFaults, CleanKeeps, CleanGoto, hubVars,
              kickVars, clockVars, closeVars, faultVars
  <1>0. failures = 0  BY DEF LifeTypeOK
  <1>1. CASE TickList
    <2>1. ListedWhileOpen'
      BY <1>0, <1>1
      DEF TickList, Fail, ListedWhileOpen, ClosedFirst, LifeTypeOK, ConnTypeOK
    <2>2. SeenInTime'
      BY <1>0, <1>1
      DEF TickList, Fail, SeenInTime, HostThere, LifeTypeOK, ConnTypeOK, ClosedFirst
    <2>. QED  BY <2>1, <2>2
  <1>2. CASE TickLive
    <2>there. row = "open" /\ HostThere => runtime \in Runtimes /\ HostListed(runtime)
      BY ThereIsListed
    <2>1. ListedWhileOpen'
      BY <1>0, <1>2
      DEF TickLive, Sleep, ListedWhileOpen, ClosedFirst, LifeTypeOK, ConnTypeOK
    <2>2. SeenInTime'
      BY <1>0, <1>2, <2>there
      DEF TickLive, Sleep, SeenInTime, HostThere, LifeTypeOK, ConnTypeOK, ClosedFirst
    <2>. QED  BY <2>1, <2>2
  <1>3. CASE TickRuntime
    <2>0. PICK g \in Runtimes : LookUp(g) /\ trt' = g
      BY <1>3 DEF TickRuntime
    <2>lookup. /\ runtime' = g /\ (runtime # None => g = runtime /\ seen' = seen /\ registry' = registry)
               /\ runtime = None => seen' = [seen EXCEPT ![g] = Never]
      BY <2>0, LookUpKeeps
    <2>never. runtime = None => seen'[runtime'] = Never  BY <2>lookup DEF LifeTypeOK
    <2>1. row = "open" /\ runtime = None =>
            ~HostThere /\ \A t \in Sockets : pc[t] \notin {"open", "leaving"}
      BY DEF TasksHold, OneWhileOpen, HostThere
    <2>2. ListedWhileOpen'
      BY <1>0, <1>3, <2>0, <2>lookup, <2>1
      DEF TickRuntime, ListedWhileOpen, LifeTypeOK, ConnTypeOK
    <2>3. HostThere' => HostThere
      BY <1>0, <1>3, <2>0 DEF TickRuntime, HostThere, LifeTypeOK, ConnTypeOK
    <2>5. row' = row  BY <1>3 DEF TickRuntime, tableVars
    <2>7. SeenInTime'
      BY <1>0, <1>3, <2>lookup, <2>never, <2>1, <2>3, <2>5 DEF TickRuntime, SeenInTime
    <2>. QED  BY <2>2, <2>7
  <1>4. CASE TickLook
    <2>there. row = "open" /\ HostThere => runtime \in Runtimes /\ HostListed(runtime)
      BY ThereIsListed
    <2>held. trt \in Runtimes /\ (row = "open" => trt = runtime)
      BY <1>4 DEF TickLook, TasksHold, OneWhileOpen
    <2>1. ListedWhileOpen'
      BY <1>0, <1>4
      DEF TickLook, Sleep, Stale, TasksHold, OneWhileOpen, ListedWhileOpen, ClosedFirst,
          LifeTypeOK, ConnTypeOK
    <2>2. SeenInTime'
      BY <1>0, <1>4, <2>there, <2>held
      DEF TickLook, Sleep, Stale, TasksHold, OneWhileOpen, SeenInTime, HostThere,
          LifeTypeOK, ConnTypeOK, ClosedFirst
    <2>. QED  BY <2>1, <2>2
  <1>5. CASE TickRefresh
    <2>1. ListedWhileOpen'
      BY <1>0, <1>5
      DEF TickRefresh, Sleep, TasksHold, OneWhileOpen, ListedWhileOpen, ClosedFirst,
          LifeTypeOK, ConnTypeOK
    <2>2. SeenInTime'
      BY <1>0, <1>5
      DEF TickRefresh, Sleep, TasksHold, OneWhileOpen, SeenInTime, HostThere,
          LifeTypeOK, ConnTypeOK, ClosedFirst
    <2>. QED  BY <2>1, <2>2
  <1>6. CASE TickRow
    <2>1. ListedWhileOpen'
      BY <1>0, <1>6
      DEF TickRow, Sleep, Fail, StillRecent, ListedWhileOpen, ClosedFirst, LifeTypeOK,
          ConnTypeOK
    <2>2. SeenInTime'
      BY <1>0, <1>6
      DEF TickRow, Sleep, Fail, StillRecent, SeenInTime, HostThere, LifeTypeOK,
          ConnTypeOK, ClosedFirst
    <2>. QED  BY <2>1, <2>2
  <1>7. CASE EndRuntime
    <2>0. PICK g \in Runtimes : LookUp(g) /\ trt' = g
      BY <1>7 DEF EndRuntime
    <2>lookup. /\ runtime' = g /\ (runtime # None => g = runtime /\ seen' = seen /\ registry' = registry)
               /\ runtime = None => seen' = [seen EXCEPT ![g] = Never]
      BY <2>0, LookUpKeeps
    <2>never. runtime = None => seen'[runtime'] = Never  BY <2>lookup DEF LifeTypeOK
    <2>1. row = "open" /\ runtime = None =>
            ~HostThere /\ \A t \in Sockets : pc[t] \notin {"open", "leaving"}
      BY DEF TasksHold, OneWhileOpen, HostThere
    <2>2. ListedWhileOpen'
      BY <1>0, <1>7, <2>0, <2>lookup, <2>1
      DEF EndRuntime, ListedWhileOpen, LifeTypeOK, ConnTypeOK
    <2>3. HostThere' => HostThere
      BY <1>0, <1>7, <2>0 DEF EndRuntime, HostThere, LifeTypeOK, ConnTypeOK
    <2>5. row' = row  BY <1>7 DEF EndRuntime, tableVars
    <2>7. SeenInTime'
      BY <1>0, <1>7, <2>lookup, <2>never, <2>1, <2>3, <2>5 DEF EndRuntime, SeenInTime
    <2>. QED  BY <2>2, <2>7
  <1>8. CASE EndSay
    <2>1. ListedWhileOpen'
      BY <1>0, <1>8 DEF EndSay, ListedWhileOpen, ClosedFirst, LifeTypeOK, ConnTypeOK
    <2>2. SeenInTime'
      BY <1>0, <1>8 DEF EndSay, SeenInTime, HostThere, LifeTypeOK, ConnTypeOK, ClosedFirst
    <2>. QED  BY <2>1, <2>2
  <1>9. CASE EndClose
    <2>1. ListedWhileOpen'
      BY <1>0, <1>9
      DEF EndClose, Fail, ListedWhileOpen, ClosedFirst, LifeTypeOK, ConnTypeOK
    <2>2. SeenInTime'
      BY <1>0, <1>9
      DEF EndClose, Fail, SeenInTime, HostThere, LifeTypeOK, ConnTypeOK, ClosedFirst
    <2>. QED  BY <2>1, <2>2
  <1>10. CASE EndDelete
    <2>1. ListedWhileOpen'
      BY <1>0, <1>10
      DEF EndDelete, Fail, ListedWhileOpen, ClosedFirst, LifeTypeOK, ConnTypeOK
    <2>2. SeenInTime'
      BY <1>0, <1>10
      DEF EndDelete, Fail, SeenInTime, HostThere, LifeTypeOK, ConnTypeOK, ClosedFirst
    <2>. QED  BY <2>1, <2>2
  <1>11. CASE EndDrop
    <2>1. ListedWhileOpen'
      BY <1>0, <1>11
      DEF EndDrop, Sleep, OneWhileOpen, ListedWhileOpen, ClosedFirst, LifeTypeOK,
          ConnTypeOK
    <2>2. SeenInTime'
      BY <1>0, <1>11
      DEF EndDrop, Sleep, OneWhileOpen, SeenInTime, HostThere, LifeTypeOK, ConnTypeOK,
          ClosedFirst
    <2>. QED  BY <2>1, <2>2
  <1>. QED
    BY <1>1, <1>2, <1>3, <1>4, <1>5, <1>6, <1>7, <1>8, <1>9, <1>10, <1>11 DEF Cleanup

LEMMA CloseKeepsGrace ==
  ASSUME NoFaults, GraceInv, CloseBegin \/ CloseRequest \/ CloseAbandon
  PROVE  ListedWhileOpen' /\ SeenInTime'
  <1> USE DEF GraceInv, AbsenceInv, LifeInv, NoFaults, CloseKeeps, CloseGoto, hubVars,
              kickVars, clockVars, cleanVars, faultVars
  <1>1. CASE CloseBegin
    <2>1. ListedWhileOpen'
      BY <1>1 DEF CloseBegin, ListedWhileOpen, ClosedFirst, LifeTypeOK, ConnTypeOK
    <2>2. SeenInTime'
      BY <1>1 DEF CloseBegin, SeenInTime, HostThere, LifeTypeOK, ConnTypeOK, ClosedFirst
    <2>. QED  BY <2>1, <2>2
  <1>2. CASE CloseMark
    <2>1. ListedWhileOpen'
      BY <1>2 DEF CloseMark, ListedWhileOpen, ClosedFirst, LifeTypeOK, ConnTypeOK
    <2>2. SeenInTime'
      BY <1>2 DEF CloseMark, SeenInTime, HostThere, LifeTypeOK, ConnTypeOK, ClosedFirst
    <2>. QED  BY <2>1, <2>2
  <1>3. CASE CloseRuntime
    <2>0. PICK g \in Runtimes : LookUp(g) /\ crt' = g
      BY <1>3 DEF CloseRuntime
    <2>lookup. /\ runtime' = g /\ (runtime # None => g = runtime /\ seen' = seen /\ registry' = registry)
               /\ runtime = None => seen' = [seen EXCEPT ![g] = Never]
      BY <2>0, LookUpKeeps
    <2>never. runtime = None => seen'[runtime'] = Never  BY <2>lookup DEF LifeTypeOK
    <2>1. row = "open" /\ runtime = None =>
            ~HostThere /\ \A t \in Sockets : pc[t] \notin {"open", "leaving"}
      BY DEF TasksHold, OneWhileOpen, HostThere
    <2>2. ListedWhileOpen'
      BY <1>3, <2>0, <2>lookup, <2>1
      DEF CloseRuntime, ListedWhileOpen, LifeTypeOK, ConnTypeOK
    <2>3. HostThere' => HostThere
      BY <1>3, <2>0 DEF CloseRuntime, HostThere, LifeTypeOK, ConnTypeOK
    <2>5. row' = row  BY <1>3 DEF CloseRuntime, tableVars
    <2>7. SeenInTime'
      BY <1>3, <2>lookup, <2>never, <2>1, <2>3, <2>5 DEF CloseRuntime, SeenInTime
    <2>. QED  BY <2>2, <2>7
  <1>4. CASE CloseSay
    <2>1. ListedWhileOpen'
      BY <1>4 DEF CloseSay, ListedWhileOpen, ClosedFirst, LifeTypeOK, ConnTypeOK
    <2>2. SeenInTime'
      BY <1>4 DEF CloseSay, SeenInTime, HostThere, LifeTypeOK, ConnTypeOK, ClosedFirst
    <2>. QED  BY <2>1, <2>2
  <1>5. CASE CloseDrop
    <2>1. ListedWhileOpen'
      BY <1>5 DEF CloseDrop, ListedWhileOpen, ClosedFirst, LifeTypeOK, ConnTypeOK
    <2>2. SeenInTime'
      BY <1>5 DEF CloseDrop, SeenInTime, HostThere, LifeTypeOK, ConnTypeOK, ClosedFirst
    <2>. QED  BY <2>1, <2>2
  <1>6. CASE CloseDelete
    <2>1. ListedWhileOpen'
      BY <1>6 DEF CloseDelete, ListedWhileOpen, ClosedFirst, LifeTypeOK, ConnTypeOK
    <2>2. SeenInTime'
      BY <1>6 DEF CloseDelete, SeenInTime, HostThere, LifeTypeOK, ConnTypeOK, ClosedFirst
    <2>. QED  BY <2>1, <2>2
  <1>7. CASE CloseAbandon
    <2>1. ListedWhileOpen'
      BY <1>7 DEF CloseAbandon, Fail, ListedWhileOpen, ClosedFirst, LifeTypeOK, ConnTypeOK
    <2>2. SeenInTime'
      BY <1>7
      DEF CloseAbandon, Fail, SeenInTime, HostThere, LifeTypeOK, ConnTypeOK, ClosedFirst
    <2>. QED  BY <2>1, <2>2
  <1>. QED  BY <1>1, <1>2, <1>3, <1>4, <1>5, <1>6, <1>7 DEF CloseRequest

LEMMA OthersKeepGrace ==
  ASSUME NoFaults, GraceInv, VisitBegin \/ VisitTouch \/ Clock \/ Restart
  PROVE  ListedWhileOpen' /\ SeenInTime'
  <1> USE DEF GraceInv, AbsenceInv, LifeInv, NoFaults, tableVars, hubVars, socketVars,
              kickVars, connVars, clockVars, cleanVars, closeVars, faultVars
  <1>1. CASE VisitBegin
    <2>1. ListedWhileOpen'
      BY <1>1 DEF VisitBegin, ListedWhileOpen, ClosedFirst, LifeTypeOK, ConnTypeOK
    <2>2. SeenInTime'
      BY <1>1 DEF VisitBegin, SeenInTime, HostThere, LifeTypeOK, ConnTypeOK, ClosedFirst
    <2>. QED  BY <2>1, <2>2
  <1>2. CASE VisitTouch
    <2>0. PICK g \in Runtimes : LookUp(g)
      BY <1>2 DEF VisitTouch
    <2>lookup. /\ runtime' = g /\ (runtime # None => g = runtime /\ seen' = seen /\ registry' = registry)
               /\ runtime = None => seen' = [seen EXCEPT ![g] = Never]
      BY <2>0, LookUpKeeps
    <2>never. runtime = None => seen'[runtime'] = Never  BY <2>lookup DEF LifeTypeOK
    <2>1. row = "open" /\ runtime = None =>
            ~HostThere /\ \A t \in Sockets : pc[t] \notin {"open", "leaving"}
      BY DEF TasksHold, OneWhileOpen, HostThere
    <2>2. ListedWhileOpen'
      BY <1>2, <2>0, <2>lookup, <2>1
      DEF VisitTouch, ListedWhileOpen, LifeTypeOK, ConnTypeOK
    <2>3. HostThere' => HostThere
      BY <1>2, <2>0 DEF VisitTouch, HostThere, LifeTypeOK, ConnTypeOK
    <2>5. row' = row  BY <1>2 DEF VisitTouch, tableVars
    <2>7. SeenInTime'
      BY <1>2, <2>lookup, <2>never, <2>1, <2>3, <2>5 DEF VisitTouch, SeenInTime
    <2>. QED  BY <2>2, <2>7
  <1>3. CASE Clock
    <2>1. ListedWhileOpen'  BY <1>3 DEF Clock, ListedWhileOpen
    <2>2. runtime # None => /\ runtime \in Runtimes /\ seen[runtime] \in Nat
                            /\ seen[runtime] <= Grace + 2
                            /\ seen'[runtime] = IF seen[runtime] <= Grace THEN seen[runtime] + 1
                                                ELSE seen[runtime]
      BY <1>3 DEF Clock, LifeTypeOK, ConnTypeOK, InUse, Held, Never
    <2>3. HostThere' = HostThere  BY <1>3 DEF Clock, HostThere
    <2>4. /\ absent \in Nat /\ absent <= Grace + TickLen + 1 /\ age \in Nat /\ timer \in Nat
          /\ HostThere => absent' = 0
          /\ ~HostThere => absent' = IF absent < Grace + TickLen + 1 THEN absent + 1 ELSE absent
          /\ age' <= age + 1 /\ age' \in Nat /\ timer > 0 /\ timer' = timer - 1
      BY <1>3 DEF Clock, LifeTypeOK, MaxAbsent, MaxAge
    <2>5. UNCHANGED <<row, runtime>> /\ tpc' = "sleep"  BY <1>3 DEF Clock
    <2>6. row = "open" /\ HostThere => runtime # None
      BY ThereIsListed
    <2>7. SeenInTime'  BY <2>2, <2>3, <2>4, <2>5, <2>6 DEF SeenInTime, Never
    <2>. QED  BY <2>1, <2>7
  <1>4. ~Restart  BY DEF Restart, LifeTypeOK
  <1>. QED  BY <1>1, <1>2, <1>3, <1>4

LEMMA StepKeepsGrace ==
  ASSUME NoFaults, OneTab, GraceInv, [LifeNext]_lifeVars
  PROVE  GraceInv'
  <1>1. CASE UNCHANGED lifeVars
    BY <1>1, StepKeepsAbsence
    DEF GraceInv, ListedWhileOpen, SeenInTime, HostThere, lifeVars, connVars, tableVars,
        hubVars, socketVars, kickVars, clockVars, cleanVars, closeVars, faultVars
  <1>2. CASE LifeNext
    BY <1>2, StepKeepsAbsence, SocketKeepsGrace, CleanupKeepsGrace, CloseKeepsGrace,
       OthersKeepGrace DEF LifeNext, GraceInv
  <1>. QED  BY <1>1, <1>2

----------------------------------------------------------------------------
(* The theorems *)

\* The invariant that holds whatever statements fail and however often the process
\* restarts.
THEOREM LifeInvHolds == LifeSpec => []LifeInv
  BY LifeInitInv, StepKeepsLifeInv, PTL DEF LifeSpec

\* Every state of the cleanup loop, close_session, the clocks and the connections
\* is well formed.
THEOREM LifeTypeCorrect == LifeSpec => []LifeTypeOK
  <1>1. LifeInv => LifeTypeOK  BY DEF LifeInv
  <1>. QED  BY <1>1, LifeInvHolds, PTL

\* Runtimes that are dropped and created again, failures and restarts leave no
\* entry of a connection that is over in a registry (connection, drop_runtime).
THEOREM RegistryLiveThroughout == LifeSpec => []RegistryLive
  <1>1. LifeInv => RegistryLive  BY DEF LifeInv
  <1>. QED  BY <1>1, LifeInvHolds, PTL

\* The safety half of ImplementsLife: the cleanup loop and close_session, racing or
\* failing half-way, only ever close an open row and delete a closed one.
THEOREM LifeIsSafe == LifeSpec => Life!Init /\ [][Life!Next]_row
  <1>1. LifeInit => Life!Init  BY DEF LifeInit, ConnInit, Life!Init
  <1>2. LifeInv /\ [LifeNext]_lifeVars => [Life!Next]_row
    <2> SUFFICES ASSUME LifeInv, [LifeNext]_lifeVars, row' # row PROVE Life!Next
      OBVIOUS
    <2> USE DEF Life!Next, Life!Close, Life!Delete
    <2>1. row \in {"open", "closed", "gone"}  BY DEF LifeInv, LifeTypeOK, ConnTypeOK
    <2>2. ASSUME NEW s \in Sockets, LifeConnect(s) \/ LifeSocket(s) \/ LifeEnds(s)
          PROVE  row' = row
      BY <2>2 DEF LifeConnect, LifeSocket, LifeEnds, Connect, LifeTake, TakeRuntime,
                  LifeRegister, Register, Validate, Deregister, ReaderEnds, SenderEnds,
                  tableVars
    <2>3. CASE Cleanup
      <3>1. CASE EndClose  BY <3>1, <2>1 DEF EndClose
      <3>2. CASE EndDelete  BY <3>2, <2>1 DEF EndDelete, LifeInv, ClosedFirst
      <3>3. CASE TickList \/ TickLive \/ TickRuntime \/ TickLook \/ TickRefresh \/ TickRow
                 \/ EndRuntime \/ EndSay \/ EndDrop
        BY <3>3 DEF TickList, TickLive, TickRuntime, TickLook, TickRefresh, TickRow,
                    EndRuntime, EndSay, EndDrop
      <3>. QED  BY <2>3, <3>1, <3>2, <3>3 DEF Cleanup
    <2>4. CASE CloseBegin \/ CloseRequest \/ CloseAbandon
      <3>1. CASE CloseMark  BY <3>1, <2>1 DEF CloseMark
      <3>2. CASE CloseDelete  BY <3>2, <2>1 DEF CloseDelete, LifeInv, ClosedFirst
      <3>3. CASE CloseBegin \/ CloseRuntime \/ CloseSay \/ CloseDrop \/ CloseAbandon
        BY <3>3 DEF CloseBegin, CloseRuntime, CloseSay, CloseDrop, CloseAbandon
      <3>. QED  BY <2>4, <3>1, <3>2, <3>3 DEF CloseRequest
    <2>5. CASE VisitBegin \/ VisitTouch \/ Clock \/ Restart
      BY <2>5 DEF VisitBegin, VisitTouch, Clock, Restart, connVars, tableVars
    <2>6. CASE UNCHANGED lifeVars  BY <2>6 DEF lifeVars, connVars, tableVars
    <2>. QED  BY <2>2, <2>3, <2>4, <2>5, <2>6 DEF LifeNext
  <1>. QED  BY <1>1, <1>2, LifeInvHolds, PTL DEF LifeSpec

\* The strengthening without failures and restarts.
THEOREM AbsenceInvHolds == NoFaults => (LifeSpec => []AbsenceInv)
  <1> SUFFICES ASSUME NoFaults PROVE LifeSpec => []AbsenceInv
    OBVIOUS
  <1>1. LifeInit => AbsenceInv  BY LifeInitInv, AbsenceInitInv DEF AbsenceInv
  <1>2. AbsenceInv /\ [LifeNext]_lifeVars => AbsenceInv'  BY StepKeepsAbsence
  <1>. QED  BY <1>1, <1>2, PTL DEF LifeSpec

\* If no statement fails and the process does not restart, an open session that has
\* had a runtime for more than a tick never outlasts the grace period and a tick
\* without its host, however many tabs he has (tick, session_is_stale).
THEOREM AbsenceEndsSession == NoFaults => (LifeSpec => []AbsentHostEndsSession)
  <1> SUFFICES ASSUME NoFaults PROVE LifeSpec => []AbsentHostEndsSession
    OBVIOUS
  <1>1. AbsenceInv => AbsentHostEndsSession
    BY DEF AbsenceInv, LifeInv, LifeTypeOK, AbsenceBounded, AbsentHostEndsSession
  <1>. QED  BY <1>1, AbsenceInvHolds, PTL

\* If, besides, everybody has one tab, the cleanup loop ends an open session for its
\* host's absence only if he had been away for the grace period less a tick.
THEOREM GraceIsRespected == NoFaults /\ OneTab => (LifeSpec => []GraceRespected)
  <1> SUFFICES ASSUME NoFaults, OneTab PROVE LifeSpec => []GraceRespected
    OBVIOUS
  <1>1. LifeInit => GraceInv
    BY LifeInitInv, AbsenceInitInv, GraceInitInv DEF GraceInv, AbsenceInv
  <1>2. GraceInv /\ [LifeNext]_lifeVars => GraceInv'  BY StepKeepsGrace
  <1>3. GraceInv => GraceRespected  BY DEF GraceInv, SeenInTime, GraceRespected
  <1>. QED  BY <1>1, <1>2, <1>3, PTL DEF LifeSpec
==============================================================================
