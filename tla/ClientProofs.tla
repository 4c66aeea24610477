---------------------------- MODULE ClientProofs ----------------------------
(***************************************************************************)
(* Proofs about Client, for any credentials and any number of sockets,     *)
(* pending forms and reloads.                                              *)
(***************************************************************************)
EXTENDS Client, TLAPS

USE ClientAssumption

\* A tab that is closing has forgotten its socket and its credentials, so the close
\* event has nothing more to forget.
NothingLeftToForget == wsClosing => ws = None /\ saved = None

\* With a patient user a reply to a form, or boot, finds no WebSocket left, and the
\* tab's own is the only one there is.
OneAtATime ==
  ~hasty =>
    /\ asking > 0 => booted /\ asking = 1
    /\ asking > 0 \/ ~booted => \A w \in Sockets : socket[w] = "none"
    /\ ws # None => \A w \in Sockets \ {ws} : socket[w] = "none"

\* A round is armed by the connection that is open, or is one that was lost.
ArmedOrDropped ==
  ~hasty /\ armed # "no" =>
    dropped \/ (armed = "here" /\ ws # None /\ socket[ws] = "open")

ClientInv ==
  /\ ClientTypeOK /\ NothingLeftToForget /\ SavedIsUsed
  /\ OneAtATime /\ PageIsLive /\ ArmedOrDropped

----------------------------------------------------------------------------
LEMMA InitInv == ClientInit => ClientInv
  <1> SUFFICES ASSUME ClientInit PROVE ClientInv
    OBVIOUS
  <1> USE DEF ClientInit
  <1>1. \A w \in Sockets : socket[w] = "none" /\ holds[w] = None  OBVIOUS
  <1>2. ClientTypeOK
    <2>1. asking \in 0 .. MaxAsks /\ loads \in 0 .. MaxLoads  OBVIOUS
    <2>2. socket \in [Sockets -> {"none", "connecting", "open", "closing"}]  OBVIOUS
    <2>3. holds \in [Sockets -> Tickets \cup {None}]  OBVIOUS
    <2>. QED  BY <1>1, <2>1, <2>2, <2>3 DEF ClientTypeOK
  <1>3. NothingLeftToForget /\ SavedIsUsed  BY DEF NothingLeftToForget, SavedIsUsed
  <1>4. OneAtATime /\ PageIsLive /\ ArmedOrDropped
    BY <1>1 DEF OneAtATime, PageIsLive, ArmedOrDropped
  <1>. QED  BY <1>2, <1>3, <1>4 DEF ClientInv

LEMMA SubmitKeepsInv ==
  ASSUME ClientInv, Submit
  PROVE  ClientInv'
  <1> USE DEF ClientInv, Submit, Pending, netVars
  <1>1. ClientTypeOK'  BY DEF ClientTypeOK
  <1>2. NothingLeftToForget'  BY DEF ClientTypeOK, NothingLeftToForget
  <1>3. SavedIsUsed'  BY DEF ClientTypeOK, NothingLeftToForget, SavedIsUsed
  <1>4. OneAtATime'
    <2>1. ~hasty' => ~hasty /\ ~(asking > 0) /\ booted /\ \A w \in Sockets : socket[w] = "none"
      OBVIOUS
    <2>2. ~(asking > 0) => asking' = 1  BY DEF ClientTypeOK
    <2>3. UNCHANGED <<booted, ws, socket>>  OBVIOUS
    <2>. QED
      <3> HIDE DEF Submit, ClientInv, Pending, netVars
      <3>. QED  BY <2>1, <2>2, <2>3 DEF OneAtATime
  <1>5. PageIsLive'  BY DEF ClientTypeOK, NothingLeftToForget, OneAtATime, PageIsLive
  <1>6. ArmedOrDropped'
    BY DEF ClientTypeOK, NothingLeftToForget, OneAtATime, PageIsLive, ArmedOrDropped
  <1>. QED  BY <1>1, <1>2, <1>3, <1>4, <1>5, <1>6

LEMMA LeaveKeepsInv ==
  ASSUME ClientInv, Leave
  PROVE  ClientInv'
  <1> USE DEF ClientInv, Leave, LeaveAndReset, ForgetSession
  <1>1. ClientTypeOK'  BY DEF ClientTypeOK
  <1>2. NothingLeftToForget'  BY DEF ClientTypeOK, NothingLeftToForget
  <1>3. SavedIsUsed'  BY DEF ClientTypeOK, NothingLeftToForget, SavedIsUsed
  <1>4. OneAtATime'  BY DEF ClientTypeOK, OneAtATime, PageIsLive
  <1>5. PageIsLive'  BY DEF ClientTypeOK, NothingLeftToForget, OneAtATime, PageIsLive
  <1>6. ArmedOrDropped'
    BY DEF ClientTypeOK, NothingLeftToForget, OneAtATime, PageIsLive, ArmedOrDropped
  <1>. QED  BY <1>1, <1>2, <1>3, <1>4, <1>5, <1>6

LEMMA HostCloseKeepsInv ==
  ASSUME ClientInv, HostClose
  PROVE  ClientInv'
  <1> USE DEF ClientInv, HostClose, netVars
  <1>1. ClientTypeOK'  BY DEF ClientTypeOK
  <1>2. NothingLeftToForget'  BY DEF ClientTypeOK, NothingLeftToForget
  <1>3. SavedIsUsed'  BY DEF ClientTypeOK, NothingLeftToForget, SavedIsUsed
  <1>4. OneAtATime'  BY DEF ClientTypeOK, OneAtATime, PageIsLive
  <1>5. PageIsLive'  BY DEF ClientTypeOK, NothingLeftToForget, OneAtATime, PageIsLive
  <1>6. ArmedOrDropped'
    BY DEF ClientTypeOK, NothingLeftToForget, OneAtATime, PageIsLive, ArmedOrDropped
  <1>. QED  BY <1>1, <1>2, <1>3, <1>4, <1>5, <1>6

LEMMA ReloadKeepsInv ==
  ASSUME ClientInv, Reload
  PROVE  ClientInv'
  <1> USE DEF ClientInv, Reload
  <1>1. ClientTypeOK'
    <2>1. loads' \in 0 .. MaxLoads /\ asking' \in 0 .. MaxAsks  BY DEF ClientTypeOK
    <2>2. \A w \in Sockets : socket'[w] = "none" /\ holds'[w] = None  OBVIOUS
    <2>. QED  BY <2>1, <2>2 DEF ClientTypeOK
  <1>2. NothingLeftToForget'  BY DEF ClientTypeOK, NothingLeftToForget
  <1>3. SavedIsUsed'  BY DEF ClientTypeOK, NothingLeftToForget, SavedIsUsed
  <1>4. OneAtATime'  BY DEF ClientTypeOK, OneAtATime, PageIsLive
  <1>5. PageIsLive'  BY DEF ClientTypeOK, NothingLeftToForget, OneAtATime, PageIsLive
  <1>6. ArmedOrDropped'
    BY DEF ClientTypeOK, NothingLeftToForget, OneAtATime, PageIsLive, ArmedOrDropped
  <1>. QED  BY <1>1, <1>2, <1>3, <1>4, <1>5, <1>6

LEMMA BootKeepsInv ==
  ASSUME ClientInv, Boot
  PROVE  ClientInv'
  <1> USE DEF ClientInv, Boot, Connect
  <1>1. ClientTypeOK'
    <2>1. ASSUME NEW w \in Sockets, socket[w] = "none", ws' = w, saved \in Tickets,
                 socket' = [socket EXCEPT ![w] = "connecting"],
                 holds' = [holds EXCEPT ![w] = saved]
          PROVE  ClientTypeOK'
      <3>1. w \notin checked /\ armed' \in {"no", "here", "before"} /\ wsClosing' \in BOOLEAN
        BY <2>1 DEF ClientTypeOK
      <3>2. \A x \in Sockets : holds'[x] = None <=> socket'[x] = "none"
        BY <2>1 DEF ClientTypeOK
      <3>. QED  BY <2>1, <3>1, <3>2 DEF ClientTypeOK
    <2>. QED  BY <2>1 DEF ClientTypeOK
  <1>2. NothingLeftToForget'  BY DEF ClientTypeOK, NothingLeftToForget
  <1>3. SavedIsUsed'  BY DEF ClientTypeOK, NothingLeftToForget, SavedIsUsed
  <1>4. OneAtATime'  BY DEF ClientTypeOK, OneAtATime, PageIsLive
  <1>5. PageIsLive'  BY DEF ClientTypeOK, NothingLeftToForget, OneAtATime, PageIsLive
  <1>6. ArmedOrDropped'
    BY DEF ClientTypeOK, NothingLeftToForget, OneAtATime, PageIsLive, ArmedOrDropped
  <1>. QED  BY <1>1, <1>2, <1>3, <1>4, <1>5, <1>6

LEMMA NotJoinedKeepsInv ==
  ASSUME ClientInv, NotJoined
  PROVE  ClientInv'
  <1> USE DEF ClientInv, NotJoined, netVars
  <1>1. ClientTypeOK'  BY DEF ClientTypeOK
  <1>2. NothingLeftToForget'  BY DEF ClientTypeOK, NothingLeftToForget
  <1>3. SavedIsUsed'  BY DEF ClientTypeOK, NothingLeftToForget, SavedIsUsed
  <1>4. OneAtATime'  BY DEF ClientTypeOK, OneAtATime, PageIsLive
  <1>5. PageIsLive'  BY DEF ClientTypeOK, NothingLeftToForget, OneAtATime, PageIsLive
  <1>6. ArmedOrDropped'
    BY DEF ClientTypeOK, NothingLeftToForget, OneAtATime, PageIsLive, ArmedOrDropped
  <1>. QED  BY <1>1, <1>2, <1>3, <1>4, <1>5, <1>6

LEMMA ClosingKeepsInv ==
  ASSUME ClientInv, Closing
  PROVE  ClientInv'
  <1> USE DEF ClientInv, Closing, LeaveAndReset, ForgetSession
  <1>1. ClientTypeOK'  BY DEF ClientTypeOK
  <1>2. NothingLeftToForget'  BY DEF ClientTypeOK, NothingLeftToForget
  <1>3. SavedIsUsed'  BY DEF ClientTypeOK, NothingLeftToForget, SavedIsUsed
  <1>4. OneAtATime'  BY DEF ClientTypeOK, OneAtATime, PageIsLive
  <1>5. PageIsLive'  BY DEF ClientTypeOK, NothingLeftToForget, OneAtATime, PageIsLive
  <1>6. ArmedOrDropped'
    BY DEF ClientTypeOK, NothingLeftToForget, OneAtATime, PageIsLive, ArmedOrDropped
  <1>. QED  BY <1>1, <1>2, <1>3, <1>4, <1>5, <1>6

LEMMA JoinedKeepsInv ==
  ASSUME ClientInv, NEW t \in Tickets, Joined(t)
  PROVE  ClientInv'
  <1> USE DEF ClientInv, Joined, Connect
  <1>1. ClientTypeOK'
    <2>1. ASSUME NEW w \in Sockets, socket[w] = "none", ws' = w, t \in Tickets,
                 socket' = [socket EXCEPT ![w] = "connecting"],
                 holds' = [holds EXCEPT ![w] = t]
          PROVE  ClientTypeOK'
      <3>1. w \notin checked /\ armed' \in {"no", "here", "before"} /\ wsClosing' \in BOOLEAN
        BY <2>1 DEF ClientTypeOK
      <3>2. \A x \in Sockets : holds'[x] = None <=> socket'[x] = "none"
        BY <2>1 DEF ClientTypeOK
      <3>. QED  BY <2>1, <3>1, <3>2 DEF ClientTypeOK
    <2>. QED  BY <2>1 DEF ClientTypeOK
  <1>2. NothingLeftToForget'  BY DEF ClientTypeOK, NothingLeftToForget
  <1>3. SavedIsUsed'  BY DEF ClientTypeOK, NothingLeftToForget, SavedIsUsed
  <1>4. OneAtATime'  BY DEF ClientTypeOK, OneAtATime, PageIsLive
  <1>5. PageIsLive'  BY DEF ClientTypeOK, NothingLeftToForget, OneAtATime, PageIsLive
  <1>6. ArmedOrDropped'
    BY DEF ClientTypeOK, NothingLeftToForget, OneAtATime, PageIsLive, ArmedOrDropped
  <1>. QED  BY <1>1, <1>2, <1>3, <1>4, <1>5, <1>6

LEMMA ExpireKeepsInv ==
  ASSUME ClientInv, NEW t \in Tickets, Expire(t)
  PROVE  ClientInv'
  <1> USE DEF ClientInv, Expire, tabVars
  <1>1. ClientTypeOK'  BY DEF ClientTypeOK
  <1>2. NothingLeftToForget'  BY DEF ClientTypeOK, NothingLeftToForget
  <1>3. SavedIsUsed'  BY DEF ClientTypeOK, NothingLeftToForget, SavedIsUsed
  <1>4. OneAtATime'  BY DEF ClientTypeOK, OneAtATime, PageIsLive
  <1>5. PageIsLive'  BY DEF ClientTypeOK, NothingLeftToForget, OneAtATime, PageIsLive
  <1>6. ArmedOrDropped'
    BY DEF ClientTypeOK, NothingLeftToForget, OneAtATime, PageIsLive, ArmedOrDropped
  <1>. QED  BY <1>1, <1>2, <1>3, <1>4, <1>5, <1>6

LEMMA OpenEventKeepsInv ==
  ASSUME ClientInv, NEW w \in Sockets, OpenEvent(w)
  PROVE  ClientInv'
  <1> USE DEF ClientInv, OpenEvent
  <1>1. ClientTypeOK'  BY DEF ClientTypeOK
  <1>2. NothingLeftToForget'  BY DEF ClientTypeOK, NothingLeftToForget
  <1>3. SavedIsUsed'  BY DEF ClientTypeOK, NothingLeftToForget, SavedIsUsed
  <1>4. OneAtATime'  BY DEF ClientTypeOK, OneAtATime, PageIsLive
  <1>5. PageIsLive'  BY DEF ClientTypeOK, NothingLeftToForget, OneAtATime, PageIsLive
  <1>6. ArmedOrDropped'
    BY DEF ClientTypeOK, NothingLeftToForget, OneAtATime, PageIsLive, ArmedOrDropped
  <1>. QED  BY <1>1, <1>2, <1>3, <1>4, <1>5, <1>6

LEMMA AllowAnswerKeepsInv ==
  ASSUME ClientInv, NEW w \in Sockets, AllowAnswer(w)
  PROVE  ClientInv'
  <1> USE DEF ClientInv, AllowAnswer, netVars
  <1>1. ClientTypeOK'  BY DEF ClientTypeOK
  <1>2. NothingLeftToForget'  BY DEF ClientTypeOK, NothingLeftToForget
  <1>3. SavedIsUsed'  BY DEF ClientTypeOK, NothingLeftToForget, SavedIsUsed
  <1>4. OneAtATime'  BY DEF ClientTypeOK, OneAtATime, PageIsLive
  <1>5. PageIsLive'  BY DEF ClientTypeOK, NothingLeftToForget, OneAtATime, PageIsLive
  <1>6. ArmedOrDropped'
    BY DEF ClientTypeOK, NothingLeftToForget, OneAtATime, PageIsLive, ArmedOrDropped
  <1>. QED  BY <1>1, <1>2, <1>3, <1>4, <1>5, <1>6

LEMMA StopAnswerKeepsInv ==
  ASSUME ClientInv, NEW w \in Sockets, StopAnswer(w)
  PROVE  ClientInv'
  <1> USE DEF ClientInv, StopAnswer, netVars
  <1>1. ClientTypeOK'  BY DEF ClientTypeOK
  <1>2. NothingLeftToForget'  BY DEF ClientTypeOK, NothingLeftToForget
  <1>3. SavedIsUsed'  BY DEF ClientTypeOK, NothingLeftToForget, SavedIsUsed
  <1>4. OneAtATime'  BY DEF ClientTypeOK, OneAtATime, PageIsLive
  <1>5. PageIsLive'  BY DEF ClientTypeOK, NothingLeftToForget, OneAtATime, PageIsLive
  <1>6. ArmedOrDropped'
    BY DEF ClientTypeOK, NothingLeftToForget, OneAtATime, PageIsLive, ArmedOrDropped
  <1>. QED  BY <1>1, <1>2, <1>3, <1>4, <1>5, <1>6

LEMMA PartedKeepsInv ==
  ASSUME ClientInv, NEW w \in Sockets, Parted(w)
  PROVE  ClientInv'
  <1> USE DEF ClientInv, Parted, LeaveAndReset, ForgetSession
  <1>1. ClientTypeOK'  BY DEF ClientTypeOK
  <1>2. NothingLeftToForget'  BY DEF ClientTypeOK, NothingLeftToForget
  <1>3. SavedIsUsed'  BY DEF ClientTypeOK, NothingLeftToForget, SavedIsUsed
  <1>4. OneAtATime'  BY DEF ClientTypeOK, OneAtATime, PageIsLive
  <1>5. PageIsLive'  BY DEF ClientTypeOK, NothingLeftToForget, OneAtATime, PageIsLive
  <1>6. ArmedOrDropped'
    BY DEF ClientTypeOK, NothingLeftToForget, OneAtATime, PageIsLive, ArmedOrDropped
  <1>. QED  BY <1>1, <1>2, <1>3, <1>4, <1>5, <1>6

LEMMA CloseEventKeepsInv ==
  ASSUME ClientInv, NEW w \in Sockets, CloseEvent(w)
  PROVE  ClientInv'
  <1> USE DEF ClientInv, CloseEvent, SocketGone, Disconnected, untouched
  <1>1. ClientTypeOK'  BY DEF ClientTypeOK
  <1>2. NothingLeftToForget'  BY DEF ClientTypeOK, NothingLeftToForget
  <1>3. SavedIsUsed'  BY DEF ClientTypeOK, NothingLeftToForget, SavedIsUsed
  <1>4. OneAtATime'  BY DEF ClientTypeOK, OneAtATime, PageIsLive
  <1>5. PageIsLive'  BY DEF ClientTypeOK, NothingLeftToForget, OneAtATime, PageIsLive
  <1>6. ArmedOrDropped'
    BY DEF ClientTypeOK, NothingLeftToForget, OneAtATime, PageIsLive, ArmedOrDropped
  <1>. QED  BY <1>1, <1>2, <1>3, <1>4, <1>5, <1>6

LEMMA AcceptKeepsInv ==
  ASSUME ClientInv, NEW w \in Sockets, Accept(w)
  PROVE  ClientInv'
  <1> USE DEF ClientInv, Accept, tabVars
  <1>1. ClientTypeOK'  BY DEF ClientTypeOK
  <1>2. NothingLeftToForget'  BY DEF ClientTypeOK, NothingLeftToForget
  <1>3. SavedIsUsed'  BY DEF ClientTypeOK, NothingLeftToForget, SavedIsUsed
  <1>4. OneAtATime'  BY DEF ClientTypeOK, OneAtATime, PageIsLive
  <1>5. PageIsLive'  BY DEF ClientTypeOK, NothingLeftToForget, OneAtATime, PageIsLive
  <1>6. ArmedOrDropped'
    BY DEF ClientTypeOK, NothingLeftToForget, OneAtATime, PageIsLive, ArmedOrDropped
  <1>. QED  BY <1>1, <1>2, <1>3, <1>4, <1>5, <1>6

LEMMA StutterKeepsInv ==
  ASSUME ClientInv, UNCHANGED clientVars
  PROVE  ClientInv'
  BY DEF ClientInv, ClientTypeOK, NothingLeftToForget, SavedIsUsed, OneAtATime,
         PageIsLive, ArmedOrDropped, clientVars, tabVars, netVars

LEMMA StepKeepsInv ==
  ASSUME ClientInv, [ClientNext]_clientVars
  PROVE  ClientInv'
  <1>1. ASSUME NEW w \in Sockets, SocketEvent(w) PROVE ClientInv'
    BY <1>1, OpenEventKeepsInv, AllowAnswerKeepsInv, StopAnswerKeepsInv, PartedKeepsInv,
       CloseEventKeepsInv, AcceptKeepsInv DEF SocketEvent
  <1>. QED
    BY <1>1, SubmitKeepsInv, LeaveKeepsInv, HostCloseKeepsInv, ReloadKeepsInv,
       BootKeepsInv,
       NotJoinedKeepsInv, ClosingKeepsInv, JoinedKeepsInv, ExpireKeepsInv, StutterKeepsInv
    DEF ClientNext

----------------------------------------------------------------------------
(* The theorems *)

\* The inductive invariant, for any number of credentials and sockets.
THEOREM ClientInvHolds == ClientSpec => []ClientInv
  BY InitInv, StepKeepsInv, PTL DEF ClientSpec

\* Every state of the tab and its sockets is well formed.
THEOREM ClientTypeCorrect == ClientSpec => []ClientTypeOK
  <1>1. ClientInv => ClientTypeOK  BY DEF ClientInv
  <1>. QED  BY <1>1, ClientInvHolds, PTL

\* The session page is shown exactly while the one connection there is is open,
\* whatever a patient user, the server and the network do (the open and close
\* handlers of connect, leaveAndReset).
THEOREM PageStaysLive == ClientSpec => []PageIsLive
  <1>1. ClientInv => PageIsLive  BY DEF ClientInv
  <1>. QED  BY <1>1, ClientInvHolds, PTL

\* sessionStorage holds credentials only while a connection that uses them is not
\* over, even if the user submits forms while older ones are under way.
THEOREM SavedStaysUsed == ClientSpec => []SavedIsUsed
  <1>1. ClientInv => SavedIsUsed  BY DEF ClientInv
  <1>. QED  BY <1>1, ClientInvHolds, PTL

\* Only a lost connection can leave a round armed on the page of the next session.
THEOREM RoundStaysBehind == ClientSpec => []RoundLeftBehind
  <1>1. ClientInv => RoundLeftBehind  BY DEF ClientInv, ArmedOrDropped, RoundLeftBehind
  <1>. QED  BY <1>1, ClientInvHolds, PTL
=============================================================================
