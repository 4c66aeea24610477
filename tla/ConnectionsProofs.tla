-------------------------- MODULE ConnectionsProofs --------------------------
(***************************************************************************)
(* Proofs about Connections, for any participants, sockets, runtimes and   *)
(* concurrent kicks.                                                       *)
(***************************************************************************)
EXTENDS Connections, TLAPS

USE ConnectionsAssumption

\* Nothing removes the map's runtime in this module, so all that hold a runtime
\* hold the same one.
OneRuntime ==
  /\ \A s \in Sockets : pc[s] \in {"register", "open", "leaving"} =>
       rt[s] \in Runtimes /\ rt[s] = runtime
  /\ \A k \in Kicks : kpc[k] \in {"tell", "drop"} =>
       krt[k] \in Runtimes /\ krt[k] = runtime

\* A kick marks its victim before it looks at the registry.
MarkedFirst ==
  \A k \in Kicks :
    /\ kpc[k] # "idle" => victim[k] \in Participants
    /\ kpc[k] \in {"runtime", "tell", "drop"} => victim[k] \in kicked

ConnInv == ConnTypeOK /\ OneRuntime /\ MarkedFirst /\ RegistryLive

\* No participant has two tabs.
OneTab == \A s, t \in Sockets : Owner[s] = Owner[t] => s = t

\* With one tab each, a registered connection is only removed by its own task or
\* by a kick that has already marked its owner.
Registered ==
  \A s \in Sockets :
    pc[s] \in {"open", "leaving"} /\ Owner[s] \notin kicked =>
      registry[rt[s]][Owner[s]] = s

----------------------------------------------------------------------------
(* runtime_for *)

LEMMA LookUpFacts ==
  ASSUME NEW g \in Runtimes, NEW inUse, RuntimeFor(g, inUse)
  PROVE  /\ runtime' = g
         /\ runtime # None => g = runtime
         /\ registry' = IF g = runtime THEN registry ELSE [registry EXCEPT ![g] = Empty]
  BY DEF RuntimeFor, LooksUp

\* Only a runtime that was not the map's is emptied.
LEMMA LookUpRegistry ==
  ASSUME ConnTypeOK, NEW g \in Runtimes, NEW inUse, RuntimeFor(g, inUse)
  PROVE  /\ registry' \in [Runtimes -> [Participants -> Sockets \cup {None}]]
         /\ registry'[runtime] = registry[runtime] \/ runtime = None
         /\ \A q \in Runtimes, p \in Participants :
              registry'[q][p] = registry[q][p] \/ registry'[q][p] = None
  <1>1. Empty \in [Participants -> Sockets \cup {None}]  BY DEF Empty
  <1>2. \A p \in Participants : Empty[p] = None  BY DEF Empty
  <1>3. registry \in [Runtimes -> [Participants -> Sockets \cup {None}]]  BY DEF ConnTypeOK
  <1>4. CASE g = runtime  BY <1>3, <1>4, LookUpFacts
  <1>5. CASE g # runtime
    <2>1. runtime = None /\ registry' = [registry EXCEPT ![g] = Empty]
      BY <1>5, LookUpFacts
    <2>. QED  BY <1>1, <1>2, <1>3, <2>1
  <1>. QED  BY <1>4, <1>5

----------------------------------------------------------------------------
(* The invariant *)

LEMMA InitInv == ConnInit => ConnInv /\ Registered
  BY DEF ConnInit, ConnInv, ConnTypeOK, OneRuntime, MarkedFirst, RegistryLive, Registered,
         Empty, SocketSteps, KickSteps

LEMMA SocketKeepsInv ==
  ASSUME ConnInv, NEW s \in Sockets,
         Connect(s) \/ SocketTask(s) \/ ReaderEnds(s) \/ SenderEnds(s)
  PROVE  ConnInv'
  <1> USE DEF ConnInv, tableVars, hubVars, socketVars, kickVars, SocketSteps, Goto
  <1>1. CASE Connect(s)
    BY <1>1 DEF Connect, ConnTypeOK, OneRuntime, MarkedFirst, RegistryLive
  <1>2. CASE Validate(s)
    BY <1>2 DEF Validate, ConnTypeOK, OneRuntime, MarkedFirst, RegistryLive
  <1>3. CASE TakeRuntime(s, Held)
    <2>1. PICK g \in Runtimes : RuntimeFor(g, Held) /\ rt' = [rt EXCEPT ![s] = g]
      BY <1>3 DEF TakeRuntime
    <2>2. /\ runtime' = g
          /\ runtime # None => g = runtime
          /\ registry' \in [Runtimes -> [Participants -> Sockets \cup {None}]]
          /\ \A q \in Runtimes, p \in Participants :
               registry'[q][p] = registry[q][p] \/ registry'[q][p] = None
      BY <2>1, LookUpFacts, LookUpRegistry
    <2>3. ConnTypeOK'  BY <1>3, <2>1, <2>2 DEF TakeRuntime, ConnTypeOK
    <2>4. OneRuntime'  BY <1>3, <2>1, <2>2 DEF TakeRuntime, ConnTypeOK, OneRuntime
    <2>5. MarkedFirst'  BY <1>3 DEF TakeRuntime, MarkedFirst
    <2>6. RegistryLive'
      <3> SUFFICES ASSUME NEW q \in Runtimes, NEW p \in Participants, registry'[q][p] # None
                   PROVE  LET t == registry'[q][p] IN
                            Owner[t] = p /\ rt'[t] = q /\ pc'[t] \in {"open", "leaving"}
        BY DEF RegistryLive
      <3> DEFINE t == registry[q][p]
      <3>1. registry'[q][p] = t /\ t # None  BY <2>2
      <3>2. t \in Sockets /\ Owner[t] = p /\ rt[t] = q /\ pc[t] \in {"open", "leaving"}
        BY <3>1 DEF RegistryLive, ConnTypeOK
      <3>3. t # s  BY <1>3, <3>2 DEF TakeRuntime
      <3>4. rt'[t] = rt[t] /\ pc'[t] = pc[t]
        BY <1>3, <2>1, <3>2, <3>3 DEF TakeRuntime, ConnTypeOK
      <3>. QED  BY <3>1, <3>2, <3>4
    <2>. QED  BY <2>3, <2>4, <2>5, <2>6
  <1>4. CASE Register(s)
    <2>1. rt[s] \in Runtimes /\ Owner[s] \in Participants
      BY <1>4 DEF Register, OneRuntime
    <2>2. ConnTypeOK' /\ OneRuntime' /\ MarkedFirst'
      BY <1>4 DEF Register, ConnTypeOK, OneRuntime, MarkedFirst
    <2>3. RegistryLive'
      BY <1>4, <2>1 DEF Register, ConnTypeOK, RegistryLive
    <2>. QED  BY <2>2, <2>3
  <1>5. CASE Deregister(s)
    <2>1. rt[s] \in Runtimes /\ Owner[s] \in Participants
      BY <1>5 DEF Deregister, OneRuntime
    <2>2. ConnTypeOK' /\ OneRuntime' /\ MarkedFirst'
      BY <1>5 DEF Deregister, ConnTypeOK, OneRuntime, MarkedFirst
    <2>3. RegistryLive'
      BY <1>5, <2>1 DEF Deregister, ConnTypeOK, RegistryLive
    <2>. QED  BY <2>2, <2>3
  <1>6. CASE ReaderEnds(s)
    BY <1>6 DEF ReaderEnds, ConnTypeOK, OneRuntime, MarkedFirst, RegistryLive
  <1>7. CASE SenderEnds(s)
    BY <1>7 DEF SenderEnds, ConnTypeOK, OneRuntime, MarkedFirst, RegistryLive
  <1>. QED  BY <1>1, <1>2, <1>3, <1>4, <1>5, <1>6, <1>7 DEF SocketTask

LEMMA KickKeepsInv ==
  ASSUME ConnInv, NEW k \in Kicks, KickBegin(k) \/ KickTask(k)
  PROVE  ConnInv'
  <1> USE DEF ConnInv, tableVars, hubVars, socketVars, kickVars, KickSteps, KickGoto,
              KickReturn
  <1>1. CASE KickBegin(k)
    BY <1>1 DEF KickBegin, ConnTypeOK, OneRuntime, MarkedFirst, RegistryLive
  <1>2. CASE KickMark(k)
    BY <1>2 DEF KickMark, ConnTypeOK, OneRuntime, MarkedFirst, RegistryLive
  <1>3. CASE KickTakeRuntime(k, Held)
    <2>1. PICK g \in Runtimes : RuntimeFor(g, Held) /\ krt' = [krt EXCEPT ![k] = g]
      BY <1>3 DEF KickTakeRuntime
    <2>2. /\ runtime' = g
          /\ runtime # None => g = runtime
          /\ registry' \in [Runtimes -> [Participants -> Sockets \cup {None}]]
          /\ \A q \in Runtimes, p \in Participants :
               registry'[q][p] = registry[q][p] \/ registry'[q][p] = None
      BY <2>1, LookUpFacts, LookUpRegistry
    <2>3. ConnTypeOK'  BY <1>3, <2>1, <2>2 DEF KickTakeRuntime, ConnTypeOK
    <2>4. OneRuntime'  BY <1>3, <2>1, <2>2 DEF KickTakeRuntime, ConnTypeOK, OneRuntime
    <2>5. MarkedFirst'  BY <1>3 DEF KickTakeRuntime, ConnTypeOK, MarkedFirst
    <2>6. RegistryLive'  BY <1>3, <2>2 DEF KickTakeRuntime, RegistryLive
    <2>. QED  BY <2>3, <2>4, <2>5, <2>6
  <1>4. CASE KickTell(k)
    <2>1. told' \in [Sockets -> SUBSET Partings]
      BY <1>4 DEF KickTell, ConnTypeOK, Partings
    <2>. QED
      BY <1>4, <2>1 DEF KickTell, ConnTypeOK, OneRuntime, MarkedFirst, RegistryLive
  <1>5. CASE KickDrop(k)
    <2>1. krt[k] \in Runtimes /\ victim[k] \in Participants
      BY <1>5 DEF KickDrop, OneRuntime, MarkedFirst
    <2>2. ConnTypeOK' /\ OneRuntime' /\ MarkedFirst'
      BY <1>5 DEF KickDrop, ConnTypeOK, OneRuntime, MarkedFirst
    <2>3. RegistryLive'
      BY <1>5, <2>1 DEF KickDrop, ConnTypeOK, RegistryLive
    <2>. QED  BY <2>2, <2>3
  <1>6. CASE KickAbandon(k)
    BY <1>6 DEF KickAbandon, ConnTypeOK, OneRuntime, MarkedFirst, RegistryLive
  <1>. QED  BY <1>1, <1>2, <1>3, <1>4, <1>5, <1>6 DEF KickTask

LEMMA SocketKeepsRegistered ==
  ASSUME OneTab, ConnInv, Registered, NEW s \in Sockets,
         Connect(s) \/ SocketTask(s) \/ ReaderEnds(s) \/ SenderEnds(s)
  PROVE  Registered'
  <1> USE DEF ConnInv, tableVars, hubVars, socketVars, kickVars, SocketSteps, Goto
  <1> SUFFICES ASSUME NEW t \in Sockets, pc'[t] \in {"open", "leaving"}, Owner[t] \notin kicked'
               PROVE  registry'[rt'[t]][Owner[t]] = t
    BY DEF Registered
  <1>1. kicked' = kicked /\ Owner[t] \in Participants /\ Owner[s] \in Participants
    BY DEF SocketTask, Connect, Validate, TakeRuntime, Register, Deregister, ReaderEnds,
           SenderEnds
  <1>2. CASE Connect(s)  BY <1>1, <1>2 DEF Connect, ConnTypeOK, Registered
  <1>3. CASE Validate(s)  BY <1>1, <1>3 DEF Validate, ConnTypeOK, Registered
  <1>4. CASE TakeRuntime(s, Held)
    <2>1. PICK g \in Runtimes : RuntimeFor(g, Held) /\ rt' = [rt EXCEPT ![s] = g]
      BY <1>4 DEF TakeRuntime
    <2>2. t # s /\ pc[t] = pc'[t] /\ rt'[t] = rt[t]
      BY <1>4, <2>1 DEF TakeRuntime, ConnTypeOK
    <2>3. rt[t] \in Runtimes /\ rt[t] = runtime /\ runtime # None
      BY <2>2 DEF OneRuntime
    <2>4. registry' = registry  BY <2>1, <2>3, LookUpFacts
    <2>. QED  BY <1>1, <2>2, <2>4 DEF Registered
  <1>5. CASE Register(s)
    <2>1. rt[s] \in Runtimes  BY <1>5 DEF Register, OneRuntime
    <2>2. CASE t = s  BY <1>1, <1>5, <2>1, <2>2 DEF Register, ConnTypeOK
    <2>3. CASE t # s
      <3>1. Owner[t] # Owner[s]  BY <2>3 DEF OneTab
      <3>2. pc[t] = pc'[t] /\ rt'[t] = rt[t] /\ rt[t] \in Runtimes
        BY <1>5, <2>3 DEF Register, ConnTypeOK, OneRuntime
      <3>3. registry'[rt[t]][Owner[t]] = registry[rt[t]][Owner[t]]
        BY <1>1, <1>5, <2>1, <3>1, <3>2 DEF Register, ConnTypeOK
      <3>. QED  BY <1>1, <3>2, <3>3 DEF Registered
    <2>. QED  BY <2>2, <2>3
  <1>6. CASE Deregister(s)
    <2>1. t # s /\ pc[t] = pc'[t] /\ rt'[t] = rt[t]
      BY <1>6 DEF Deregister, ConnTypeOK
    <2>2. Owner[t] # Owner[s] /\ rt[s] \in Runtimes /\ rt[t] \in Runtimes
      BY <1>6, <2>1 DEF OneTab, Deregister, OneRuntime
    <2>3. registry'[rt[t]][Owner[t]] = registry[rt[t]][Owner[t]]
      BY <1>1, <1>6, <2>2 DEF Deregister, ConnTypeOK
    <2>. QED  BY <1>1, <2>1, <2>3 DEF Registered
  <1>7. CASE ReaderEnds(s)  BY <1>1, <1>7 DEF ReaderEnds, ConnTypeOK, Registered
  <1>8. CASE SenderEnds(s)  BY <1>1, <1>8 DEF SenderEnds, ConnTypeOK, Registered
  <1>. QED  BY <1>2, <1>3, <1>4, <1>5, <1>6, <1>7, <1>8 DEF SocketTask

LEMMA KickKeepsRegistered ==
  ASSUME ConnInv, Registered, NEW k \in Kicks, KickBegin(k) \/ KickTask(k)
  PROVE  Registered'
  <1> USE DEF ConnInv, tableVars, hubVars, socketVars, kickVars, KickGoto
  <1>1. CASE KickBegin(k)  BY <1>1 DEF KickBegin, Registered
  <1>2. CASE KickMark(k)  BY <1>2 DEF KickMark, Registered
  <1>3. CASE KickTakeRuntime(k, Held)
    <2>1. PICK g \in Runtimes : RuntimeFor(g, Held)  BY <1>3 DEF KickTakeRuntime
    <2>2. UNCHANGED <<kicked, pc, rt>>  BY <1>3 DEF KickTakeRuntime
    <2>3. ASSUME NEW t \in Sockets, pc[t] \in {"open", "leaving"} PROVE registry' = registry
      <3>1. runtime # None  BY <2>3 DEF OneRuntime
      <3>. QED  BY <2>1, <3>1, LookUpFacts
    <2>. QED  BY <2>2, <2>3 DEF Registered
  <1>4. CASE KickTell(k)  BY <1>4 DEF KickTell, Registered
  <1>5. CASE KickDrop(k)
    <2>1. krt[k] \in Runtimes /\ victim[k] \in Participants /\ victim[k] \in kicked
      BY <1>5 DEF KickDrop, OneRuntime, MarkedFirst
    <2>2. UNCHANGED <<kicked, pc, rt>>  BY <1>5 DEF KickDrop
    <2>3. ASSUME NEW t \in Sockets, pc[t] \in {"open", "leaving"}, Owner[t] \notin kicked
          PROVE  registry'[rt[t]][Owner[t]] = registry[rt[t]][Owner[t]]
      <3>1. rt[t] \in Runtimes /\ Owner[t] \in Participants /\ Owner[t] # victim[k]
        BY <2>1, <2>3 DEF OneRuntime
      <3>. QED  BY <1>5, <2>1, <3>1 DEF KickDrop, ConnTypeOK
    <2>. QED  BY <2>2, <2>3 DEF Registered
  <1>6. CASE KickAbandon(k)  BY <1>6 DEF KickAbandon, Registered
  <1>. QED  BY <1>1, <1>2, <1>3, <1>4, <1>5, <1>6 DEF KickTask

LEMMA StutterKeepsInv == ConnInv /\ UNCHANGED connVars => ConnInv'
  BY DEF ConnInv, connVars, tableVars, hubVars, socketVars, kickVars, ConnTypeOK,
         OneRuntime, MarkedFirst, RegistryLive

THEOREM ConnInvHolds == ConnSpec => []ConnInv
  <1>1. ConnInv /\ [ConnNext]_connVars => ConnInv'
    BY SocketKeepsInv, KickKeepsInv, StutterKeepsInv DEF ConnNext
  <1>. QED  BY <1>1, InitInv, PTL DEF ConnSpec

\* Type correctness of Connections.
THEOREM ConnTypeCorrect == ConnSpec => []ConnTypeOK
  <1>1. ConnInv => ConnTypeOK  BY DEF ConnInv
  <1>. QED  BY <1>1, ConnInvHolds, PTL

\* Whatever the tabs, reloads and kicks, the registry of a runtime lists only
\* connections whose task holds that runtime and has yet to deregister.
THEOREM RegistryLiveHolds == ConnSpec => []RegistryLive
  <1>1. ConnInv => RegistryLive  BY DEF ConnInv
  <1>. QED  BY <1>1, ConnInvHolds, PTL

\* With one tab per participant everybody who has an open connection and is not
\* kicked gets the session's broadcasts, whatever handshakes, breaking
\* connections and kicks interleave.
THEOREM OpenIsHeldHolds ==
  ASSUME OneTab
  PROVE  ConnSpec => []OpenIsHeld
  <1>1. Registered /\ UNCHANGED connVars => Registered'
    BY DEF Registered, connVars, tableVars, hubVars, socketVars
  <1>2. ConnInv /\ Registered /\ [ConnNext]_connVars => Registered'
    BY <1>1, SocketKeepsRegistered, KickKeepsRegistered DEF ConnNext
  <1>3. ConnInv /\ Registered => OpenIsHeld
    <2> SUFFICES ASSUME ConnInv, Registered, NEW s \in Sockets,
                        pc[s] = "open", Owner[s] \notin kicked
                 PROVE  \E g \in Runtimes : g = runtime /\ registry[g][Owner[s]] # None
      BY DEF OpenIsHeld
    <2>1. rt[s] \in Runtimes /\ rt[s] = runtime  BY DEF ConnInv, OneRuntime
    <2>2. registry[rt[s]][Owner[s]] = s  BY DEF Registered
    <2>. QED  BY <2>1, <2>2
  <1>. QED  BY <1>2, <1>3, InitInv, ConnInvHolds, PTL DEF ConnSpec
=============================================================================
