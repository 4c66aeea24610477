---------------------------- MODULE RosterProofs ----------------------------
(***************************************************************************)
(* Proofs about Roster, for any participants, sockets, runtimes and        *)
(* concurrent kicks.                                                       *)
(***************************************************************************)
EXTENDS Roster, ConnectionsProofs

USE ConnectionsAssumption, RosterAssumption

\* Whoever is about to send a list has one.
ListInHand == \A r \in Reporters : report[r] = "say" => roster[r] # None

RosterInv == ConnInv /\ RosterTypeOK /\ ListInHand /\ RosterShown

----------------------------------------------------------------------------
(* The connections, as in ConnectionsProofs but for the runtime of a join *)

LEMMA RosterStepKinds ==
  ASSUME RosterNext
  PROVE  \/ \E s \in Sockets : Connect(s) \/ SocketTask(s) \/ ReaderEnds(s) \/ SenderEnds(s)
         \/ \E k \in Kicks : KickBegin(k) \/ KickTask(k)
         \/ \E p \in Participants : JoinTakeRuntime(p)
         \/ UNCHANGED connVars
  <1>1. ASSUME NEW s \in Sockets, SocketStep(s)
        PROVE  Connect(s) \/ SocketTask(s) \/ ReaderEnds(s) \/ SenderEnds(s) \/ UNCHANGED connVars
    BY <1>1 DEF SocketStep, SocketTask, Welcome, Enters, Leaves
  <1>2. ASSUME NEW k \in Kicks, KickStep(k) PROVE KickBegin(k) \/ KickTask(k)
    BY <1>2 DEF KickStep, KickTask, Kicked, KickGivenUp
  <1>3. ASSUME NEW p \in Participants, Join(p) PROVE UNCHANGED connVars
    BY <1>3 DEF Join
  <1>4. ASSUME NEW r \in Reporters, Reporting(r) PROVE UNCHANGED connVars
    BY <1>4 DEF Reporting, List, LookAround, Say, ReportFails
  <1>. QED  BY <1>1, <1>2, <1>3, <1>4 DEF RosterNext

LEMMA JoinKeepsConn ==
  ASSUME ConnInv, NEW p \in Participants, JoinTakeRuntime(p)
  PROVE  ConnInv' /\ (Registered => Registered')
  <1> USE DEF ConnInv, tableVars, socketVars, kickVars
  <1>1. PICK g \in Runtimes : RuntimeFor(g, Held)  BY DEF JoinTakeRuntime
  <1>2. /\ runtime' = g /\ (runtime # None => g = runtime /\ registry' = registry)
        /\ registry' \in [Runtimes -> [Participants -> Sockets \cup {None}]]
        /\ \A q \in Runtimes, o \in Participants :
             registry'[q][o] = registry[q][o] \/ registry'[q][o] = None
    BY <1>1, LookUpFacts, LookUpRegistry
  <1>3. UNCHANGED <<tableVars, socketVars, kickVars>>  BY DEF JoinTakeRuntime
  <1>4. ConnTypeOK'  BY <1>2, <1>3 DEF ConnTypeOK
  <1>5. OneRuntime' /\ MarkedFirst'  BY <1>2, <1>3 DEF OneRuntime, MarkedFirst
  <1>6. RegistryLive'  BY <1>2, <1>3 DEF RegistryLive
  <1>7. Registered => Registered'  BY <1>2, <1>3 DEF Registered, OneRuntime
  <1>. QED  BY <1>4, <1>5, <1>6, <1>7

LEMMA RosterKeepsConn == ConnInv /\ [RosterNext]_allVars => ConnInv'
  BY RosterStepKinds, SocketKeepsInv, KickKeepsInv, JoinKeepsConn, StutterKeepsInv
  DEF allVars

LEMMA RosterKeepsRegistered ==
  ASSUME OneTab, ConnInv, Registered, [RosterNext]_allVars
  PROVE  Registered'
  <1>1. UNCHANGED connVars => Registered'
    BY DEF Registered, connVars, tableVars, hubVars, socketVars
  <1>. QED
    BY <1>1, RosterStepKinds, SocketKeepsRegistered, KickKeepsRegistered, JoinKeepsConn
    DEF allVars

----------------------------------------------------------------------------
(* The lists *)

LEMMA InfoIsList == ASSUME NEW listed PROVE Info(listed) \in Lists
  BY DEF Info, Lists

LEMMA RosterInitInv == RosterInit => RosterInv
  <1> SUFFICES ASSUME RosterInit PROVE RosterInv
    OBVIOUS
  <1> USE DEF RosterInit
  <1>1. ConnInv  BY InitInv
  <1>2. RosterTypeOK  BY DEF ConnInit, RosterTypeOK, ReportSteps
  <1>3. ListInHand  BY DEF ListInHand
  <1>4. RosterShown  BY DEF ConnInit, RosterShown, Listening
  <1>. QED  BY <1>1, <1>2, <1>3, <1>4 DEF RosterInv

\* Creating the runtime changes no list and makes nobody listen.
LEMMA LookUpShowsSame ==
  ASSUME ConnInv, NEW g \in Runtimes, NEW inUse, RuntimeFor(g, inUse),
         UNCHANGED <<joined, kicked>>
  PROVE  /\ Current' = Current
         /\ \A s \in Sockets : Listening(s)' => Listening(s)
  <1>1. CASE runtime # None
    <2>1. runtime' = runtime /\ registry' = registry  BY <1>1, LookUpFacts
    <2>. QED  BY <2>1 DEF Current, Info, Listening
  <1>2. CASE runtime = None
    <2>1. runtime' = g /\ registry' = [registry EXCEPT ![g] = Empty]
      BY <1>2, LookUpFacts
    <2>2. \A p \in Participants : registry'[g][p] = None
      BY <2>1 DEF ConnInv, ConnTypeOK, Empty
    <2>. QED  BY <1>2, <2>1, <2>2 DEF Current, Info, Listening
  <1>. QED  BY <1>1, <1>2

LEMMA ReportingKeepsInv ==
  ASSUME RosterInv, NEW r \in Reporters, Reporting(r)
  PROVE  RosterTypeOK' /\ ListInHand' /\ RosterShown'
  <1> USE DEF RosterInv, ReportGoto, ReportReturn, connVars, tableVars, hubVars,
              socketVars, kickVars
  <1>1. CASE List(r)
    <2>1. RosterTypeOK'  BY <1>1 DEF List, RosterTypeOK, ReportSteps
    <2>2. ListInHand'  BY <1>1 DEF List, ListInHand, RosterTypeOK
    <2>3. RosterShown'  BY <1>1 DEF List, RosterShown, AllReported, RosterTypeOK
    <2>. QED  BY <2>1, <2>2, <2>3
  <1>2. CASE LookAround(r)
    <2>1. RosterTypeOK'  BY <1>2, InfoIsList DEF LookAround, RosterTypeOK, ReportSteps
    <2>2. ListInHand'  BY <1>2, InfoIsList DEF LookAround, ListInHand, RosterTypeOK
    <2>3. RosterShown'  BY <1>2 DEF LookAround, RosterShown, AllReported, RosterTypeOK
    <2>. QED  BY <2>1, <2>2, <2>3
  <1>3. CASE Say(r)
    <2>1. RosterTypeOK'  BY <1>3 DEF Say, RosterTypeOK, ReportSteps, ListInHand
    <2>2. ListInHand'  BY <1>3 DEF Say, ListInHand, RosterTypeOK
    <2>3. RosterShown'
      <3>1. Current' = Current  BY <1>3 DEF Say, Current, Info
      <3>2. \A s \in Sockets : Listening(s)' = Listening(s)  BY <1>3 DEF Say, Listening
      <3>3. \A s \in Sockets : Listening(s) => shown'[s] = roster[r]  BY <1>3 DEF Say
      <3>4. ~late' => roster[r] = Current  BY <1>3 DEF Say
      <3>. QED  BY <3>1, <3>2, <3>3, <3>4 DEF RosterShown
    <2>. QED  BY <2>1, <2>2, <2>3
  <1>4. CASE ReportFails(r)
    <2>1. RosterTypeOK'
      <3>1. UNCHANGED <<pc, joined, greeting, shown>>  BY <1>4 DEF ReportFails
      <3>2. /\ report' \in [Reporters -> ReportSteps]
            /\ rows' \in [Reporters -> SUBSET Participants]
            /\ roster' \in [Reporters -> Lists \cup {None}]
            /\ late' \in BOOLEAN
        BY <1>4 DEF ReportFails, RosterTypeOK, ReportSteps
      <3>3. \A s \in greeting : report'[s] # "idle"
        BY <1>4 DEF ReportFails, RosterTypeOK, Reporters
      <3>. QED  BY <3>1, <3>2, <3>3 DEF RosterTypeOK
    <2>2. ListInHand'  BY <1>4 DEF ReportFails, ListInHand, RosterTypeOK
    <2>3. RosterShown'  BY <1>4 DEF ReportFails, RosterShown, AllReported, RosterTypeOK
    <2>. QED  BY <2>1, <2>2, <2>3
  <1>. QED  BY <1>1, <1>2, <1>3, <1>4 DEF Reporting

LEMMA JoinKeepsInv ==
  ASSUME RosterInv, NEW p \in Participants, Join(p) \/ JoinTakeRuntime(p)
  PROVE  RosterTypeOK' /\ ListInHand' /\ RosterShown'
  <1> USE DEF RosterInv, ReportGoto, connVars, tableVars, hubVars, socketVars, kickVars,
              Reporters
  <1>1. CASE Join(p)
    <2>1. RosterTypeOK'  BY <1>1 DEF Join, RosterTypeOK, ReportSteps
    <2>2. ListInHand'  BY <1>1 DEF Join, ListInHand, RosterTypeOK
    <2>3. RosterShown'  BY <1>1 DEF Join, RosterShown, AllReported, RosterTypeOK
    <2>. QED  BY <2>1, <2>2, <2>3
  <1>2. CASE JoinTakeRuntime(p)
    <2>1. RosterTypeOK'  BY <1>2 DEF JoinTakeRuntime, RosterTypeOK, ReportSteps
    <2>2. ListInHand'  BY <1>2 DEF JoinTakeRuntime, ListInHand, RosterTypeOK
    <2>3. RosterShown'
      BY <1>2 DEF JoinTakeRuntime, RosterShown, AllReported, RosterTypeOK
    <2>. QED  BY <2>1, <2>2, <2>3
  <1>. QED  BY <1>1, <1>2

LEMMA SocketKeepsRoster ==
  ASSUME RosterInv, NEW s \in Sockets, SocketStep(s)
  PROVE  RosterTypeOK' /\ ListInHand' /\ RosterShown'
  <1> USE DEF RosterInv, ReportGoto, connVars, tableVars, hubVars, kickVars, Reporters,
              Goto
  <1>1. CASE Welcome(s)
    <2>1. RosterTypeOK'
      BY <1>1
      DEF Welcome, socketVars, ConnInv, ConnTypeOK, RosterTypeOK, ReportSteps,
          ListInHand
    <2>2. ListInHand'  BY <1>1 DEF Welcome, socketVars, ListInHand, RosterTypeOK
    <2>3. RosterShown'
      BY <1>1 DEF Welcome, socketVars, RosterShown, AllReported, RosterTypeOK
    <2>. QED  BY <2>1, <2>2, <2>3
  <1>2. CASE Enters(s)
    <2>1. RosterTypeOK'
      BY <1>2
      DEF Enters, Register, ConnInv, ConnTypeOK, RosterTypeOK, ReportSteps, ListInHand
    <2>2. ListInHand'  BY <1>2 DEF Enters, Register, ListInHand, RosterTypeOK
    <2>3. RosterShown'
      BY <1>2 DEF Enters, Register, RosterShown, AllReported, RosterTypeOK
    <2>. QED  BY <2>1, <2>2, <2>3
  <1>3. CASE Leaves(s)
    <2>1. RosterTypeOK'
      BY <1>3
      DEF Leaves, Deregister, ConnInv, ConnTypeOK, RosterTypeOK, ReportSteps, ListInHand
    <2>2. ListInHand'  BY <1>3 DEF Leaves, Deregister, ListInHand, RosterTypeOK
    <2>3. RosterShown'
      BY <1>3 DEF Leaves, Deregister, RosterShown, AllReported, RosterTypeOK
    <2>. QED  BY <2>1, <2>2, <2>3
  <1>4. CASE (Connect(s) \/ Validate(s)) /\ UNCHANGED rosterVars
    <2>1. RosterTypeOK'
      BY <1>4 DEF Connect, Validate, ConnInv, ConnTypeOK, RosterTypeOK, rosterVars
    <2>2. ListInHand'  BY <1>4 DEF ListInHand, rosterVars
    <2>3. RosterShown'
      BY <1>4
      DEF Connect, Validate, RosterShown, AllReported, Listening, Current, Info,
          rosterVars
    <2>. QED  BY <2>1, <2>2, <2>3
  <1>5. CASE TakeRuntime(s, Held) /\ UNCHANGED rosterVars
    <2>1. PICK g \in Runtimes : RuntimeFor(g, Held)  BY <1>5 DEF TakeRuntime
    <2>2. UNCHANGED <<joined, kicked, report, kpc, shown, late>>
      BY <1>5 DEF TakeRuntime, rosterVars
    <2>3. RosterTypeOK'
      BY <1>5 DEF TakeRuntime, ConnInv, ConnTypeOK, RosterTypeOK, rosterVars
    <2>4. ListInHand'  BY <1>5 DEF ListInHand, rosterVars
    <2>5. RosterShown'  BY <2>1, <2>2, LookUpShowsSame DEF RosterShown, AllReported
    <2>. QED  BY <2>3, <2>4, <2>5
  <1>6. CASE /\ ReaderEnds(s) \/ SenderEnds(s)
             /\ pc[s] = "open" => report[s] = "idle"
             /\ UNCHANGED rosterVars
    <2>1. RosterTypeOK'
      BY <1>6 DEF ReaderEnds, SenderEnds, ConnInv, ConnTypeOK, RosterTypeOK, rosterVars
    <2>2. ListInHand'  BY <1>6 DEF ListInHand, rosterVars
    <2>3. RosterShown'
      BY <1>6
      DEF ReaderEnds, SenderEnds, RosterShown, AllReported, Listening, Current, Info,
          rosterVars
    <2>. QED  BY <2>1, <2>2, <2>3
  <1>. QED  BY <1>1, <1>2, <1>3, <1>4, <1>5, <1>6 DEF SocketStep

LEMMA KickKeepsRoster ==
  ASSUME RosterInv, NEW k \in Kicks, KickStep(k)
  PROVE  RosterTypeOK' /\ ListInHand' /\ RosterShown'
  <1> USE DEF RosterInv, ReportGoto, KickGoto, KickReturn, tableVars, hubVars, socketVars,
              Reporters
  <1>1. CASE Kicked(k)
    <2>1. RosterTypeOK'  BY <1>1 DEF Kicked, KickDrop, RosterTypeOK, ReportSteps
    <2>2. ListInHand'  BY <1>1 DEF Kicked, ListInHand, RosterTypeOK
    <2>3. RosterShown'  BY <1>1 DEF Kicked, RosterShown, AllReported, RosterTypeOK
    <2>. QED  BY <2>1, <2>2, <2>3
  <1>2. CASE KickGivenUp(k)
    <2>1. RosterTypeOK' /\ ListInHand'
      BY <1>2 DEF KickGivenUp, KickAbandon, RosterTypeOK, ListInHand
    <2>2. CASE kpc[k] = "mark"
      <3>1. AllReported' /\ ~late' => AllReported /\ ~late
        BY <1>2, <2>2 DEF KickGivenUp, KickAbandon, AllReported, ConnInv, ConnTypeOK
      <3>2. Current' = Current /\ shown' = shown
            /\ \A s \in Sockets : Listening(s)' = Listening(s)
        BY <1>2 DEF KickGivenUp, KickAbandon, Current, Info, Listening
      <3>. QED  BY <2>1, <3>1, <3>2 DEF RosterShown
    <2>3. CASE kpc[k] # "mark"
      BY <1>2, <2>1, <2>3 DEF KickGivenUp, RosterShown
    <2>. QED  BY <2>2, <2>3
  <1>3. CASE KickBegin(k) /\ UNCHANGED rosterVars
    <2>1. RosterTypeOK' /\ ListInHand'
      BY <1>3 DEF KickBegin, RosterTypeOK, ListInHand, rosterVars
    <2>2. AllReported' => AllReported
      BY <1>3 DEF KickBegin, AllReported, rosterVars, ConnInv, ConnTypeOK
    <2>3. Current' = Current /\ shown' = shown /\ late' = late
          /\ \A s \in Sockets : Listening(s)' = Listening(s)
      BY <1>3 DEF KickBegin, Current, Info, Listening, rosterVars
    <2>. QED  BY <2>1, <2>2, <2>3 DEF RosterShown
  <1>4. CASE /\ KickMark(k) \/ KickTakeRuntime(k, Held) \/ KickTell(k)
             /\ UNCHANGED rosterVars
    <2>1. kpc'[k] \notin {"idle", "mark"} /\ pc' = pc
      BY <1>4 DEF KickMark, KickTakeRuntime, KickTell, ConnInv, ConnTypeOK
    <2>2. RosterTypeOK' /\ ListInHand'
      BY <1>4, <2>1 DEF RosterTypeOK, ListInHand, rosterVars
    <2>3. RosterShown'  BY <2>1 DEF RosterShown, AllReported
    <2>. QED  BY <2>2, <2>3
  <1>. QED  BY <1>1, <1>2, <1>3, <1>4 DEF KickStep

LEMMA StutterKeepsRoster ==
  ASSUME RosterInv, UNCHANGED allVars
  PROVE  RosterTypeOK' /\ ListInHand' /\ RosterShown'
  BY DEF RosterInv, RosterTypeOK, ListInHand, RosterShown, AllReported, Listening,
         Current,
         Info, allVars, rosterVars, connVars, tableVars, hubVars, socketVars, kickVars

LEMMA StepKeepsRoster == RosterInv /\ [RosterNext]_allVars => RosterInv'
  BY RosterKeepsConn, ReportingKeepsInv, JoinKeepsInv, SocketKeepsRoster, KickKeepsRoster,
     StutterKeepsRoster DEF RosterNext, RosterInv

----------------------------------------------------------------------------
(* The theorems *)

\* The inductive invariant, for any number of participants, tabs and kicks.
THEOREM RosterInvHolds == RosterSpec => []RosterInv
  BY RosterInitInv, StepKeepsRoster, PTL DEF RosterSpec

\* Every state of the reports and of the screens is well formed.
THEOREM RosterTypeCorrect == RosterSpec => []RosterTypeOK
  <1>1. RosterInv => RosterTypeOK  BY DEF RosterInv
  <1>. QED  BY <1>1, RosterInvHolds, PTL

\* When nothing is left to report, every connection the runtime lists was last sent
\* the players there are and who is connected, unless reports overtook each other or
\* failed, or a join or a kick was abandoned before its report
\* (broadcast_participants after join_session, kick, connection and its end).
THEOREM RosterIsShown == RosterSpec => []RosterShown
  <1>1. RosterInv => RosterShown  BY DEF RosterInv
  <1>. QED  BY <1>1, RosterInvHolds, PTL

\* Joins look the runtime up as well, and the registry stays live.
THEOREM RosterRegistryLive == RosterSpec => []RegistryLive
  <1>1. RosterInv => RegistryLive  BY DEF RosterInv, ConnInv
  <1>. QED  BY <1>1, RosterInvHolds, PTL

\* With one tab each, everybody with an open connection gets these lists.
THEOREM RosterReachesAll ==
  ASSUME OneTab
  PROVE  RosterSpec => []OpenIsHeld
  <1>1. RosterInit => Registered  BY InitInv DEF RosterInit
  <1>2. RosterInv /\ Registered /\ [RosterNext]_allVars => Registered'
    BY RosterKeepsRegistered DEF RosterInv
  <1>3. RosterInv /\ Registered => OpenIsHeld
    BY DEF RosterInv, ConnInv, OneRuntime, Registered, OpenIsHeld
  <1>. QED  BY <1>1, <1>2, <1>3, RosterInvHolds, PTL DEF RosterSpec
=============================================================================
