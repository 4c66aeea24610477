--------------------------- MODULE SettingsProofs ---------------------------
(***************************************************************************)
(* Proofs about Settings, for any players, concurrent requests, codes and  *)
(* number of draws.                                                        *)
(***************************************************************************)
EXTENDS Settings, TLAPS

USE SettingsAssumption

Rows == [state : {"absent", "open", "closed", "gone"}, settings : Setting \cup {None}]

\* A request has in hand what its next step uses, and only the request that
\* creates the session runs while there is none.
RequestsReady ==
  /\ row \in Rows
  /\ \A h \in Requests :
       /\ rpc[h] = "draw" => /\ op[h] \in Ops /\ op[h].kind \in {"create", "code"}
                             /\ op[h].kind = "create" <=> row.state = "absent"
       /\ rpc[h] = "write" => op[h] \in Ops
       /\ rpc[h] \in {"write", "fetch", "say"} => row.state # "absent"
       /\ rpc[h] = "say" => got[h] # None
  /\ row.state = "absent" =>
       \A h, k \in Requests : rpc[h] # "idle" /\ rpc[k] # "idle" => h = k

\* So does a player, and nobody is past the lookup before there is a session.
PlayersReady ==
  /\ \A b \in Players :
       /\ pc[b] \in {"lookup", "insert"} => typed[b] \in Codes
       /\ pc[b] \in {"register", "welcome"} => snap[b] # None
  /\ row.state = "absent" =>
       members = {} /\ \A b \in Players : pc[b] \in {"away", "lookup"}

\* While a player is looked up, every code that admits has been noted; once he is
\* found, his own has.
AdmissionNoted ==
  \A b \in Players :
    /\ pc[b] = "lookup" => Admitting(row) \subseteq admits[b]
    /\ pc[b] = "insert" => typed[b] \in admits[b]

Writing == \E h \in Requests : rpc[h] \in {"fetch", "say"}

\* A request that has run alone says what the row holds; unless requests were
\* muddled every request under way has run alone, and the screens that are not
\* behind show the row except between a write and the message that follows it.
ScreensFollow ==
  /\ \A h \in solo : rpc[h] # "idle" /\ \A k \in Requests \ {h} : rpc[k] = "idle"
  /\ \A h \in solo : rpc[h] = "say" /\ row.state # "gone" => got[h] = row.settings
  /\ ~muddled => \A h \in Requests : rpc[h] # "idle" => h \in solo
  /\ ~muddled /\ row.state # "gone" /\ ~Writing =>
       \A b \in Registered \ behind : pc[b] = "on" => shown[b] = row.settings

SettingsInv ==
  SettingsTypeOK /\ RequestsReady /\ PlayersReady /\ AdmissionNoted /\ ScreensFollow

----------------------------------------------------------------------------
LEMMA SettingFacts ==
  /\ \A x \in Setting : x # None /\ x.code \in Codes
  /\ \A x \in Setting, code \in Codes : [x EXCEPT !.code = code] \in Setting
  /\ \A x \in Setting, on \in BOOLEAN :
       [x EXCEPT !.joins = on] \in Setting /\ [x EXCEPT !.answers = on] \in Setting
  <1>1. \A x \in Setting : x # None  OBVIOUS
  <1>2. \A x \in Setting : x.code \in Codes  BY DEF Setting
  <1>3. ASSUME NEW x \in Setting, NEW code \in Codes
        PROVE  [x EXCEPT !.code = code] \in Setting
    BY DEF Setting
  <1>4. ASSUME NEW x \in Setting, NEW on \in BOOLEAN
        PROVE  [x EXCEPT !.joins = on] \in Setting /\ [x EXCEPT !.answers = on] \in Setting
    BY DEF Setting
  <1>. QED  BY <1>1, <1>2, <1>3, <1>4

LEMMA InitInv == SettingsInit => SettingsInv
  <1> SUFFICES ASSUME SettingsInit PROVE SettingsInv
    OBVIOUS
  <1> USE DEF SettingsInit, RequestSteps, PlayerSteps, Registered
  <1>0. row.state = "absent" /\ row.settings = None /\ row \in Rows  BY DEF Rows
  <1>1. SettingsTypeOK
    <2>1. tries \in [Requests -> 0 .. MaxAttempts - 1]  OBVIOUS
    <2>2. admits \in [Players -> SUBSET Codes]  OBVIOUS
    <2>. QED  BY <1>0, <2>1, <2>2 DEF SettingsTypeOK
  <1>2. RequestsReady  BY <1>0 DEF RequestsReady
  <1>3. PlayersReady  BY DEF PlayersReady
  <1>4. AdmissionNoted  BY DEF AdmissionNoted
  <1>5. ScreensFollow  BY DEF ScreensFollow
  <1>. QED  BY <1>1, <1>2, <1>3, <1>4, <1>5 DEF SettingsInv

\* What a statement that changes the row leaves behind.
LEMMA SetRowFacts ==
  ASSUME SettingsTypeOK, NEW r \in Rows, r.state = "open" => r.settings # None, SetRow(r)
  PROVE  /\ row' = r
         /\ admits' \in [Players -> SUBSET Codes]
         /\ AdmissionNoted /\ UNCHANGED <<pc, typed>> => AdmissionNoted'
  <1>1. row' = r  BY DEF SetRow
  <1>2. Admitting(r) \subseteq Codes  BY DEF Admitting, Rows, Setting
  <1>3. admits' = [b \in Players |-> IF pc[b] \in {"lookup", "insert"}
                                     THEN admits[b] \cup Admitting(r) ELSE {}]
    BY DEF SetRow
  <1>4. admits' \in [Players -> SUBSET Codes]  BY <1>2, <1>3 DEF SettingsTypeOK
  <1>5. Admitting(row)' = Admitting(r)  BY <1>1 DEF Admitting
  <1>6. AdmissionNoted /\ UNCHANGED <<pc, typed>> => AdmissionNoted'
    BY <1>3, <1>5 DEF AdmissionNoted
  <1>. QED  BY <1>1, <1>4, <1>6

LEMMA BeginKeepsInv ==
  ASSUME SettingsInv, NEW h \in Requests, NEW o \in Ops, RequestBegin(h, o)
  PROVE  SettingsInv'
  <1> USE DEF SettingsInv, RequestBegin, RequestGoto, RequestFetch, playerVars,
              RequestSteps
  <1>1. SettingsTypeOK'  BY DEF SettingsTypeOK, Registered, Ops
  <1>2. RequestsReady'  BY DEF SettingsTypeOK, RequestsReady, Beside, Ops
  <1>3. PlayersReady'  BY DEF PlayersReady
  <1>4. AdmissionNoted'  BY DEF AdmissionNoted, Admitting
  <1>5. ScreensFollow'
    <2>1. solo' \in {{}, {h}} /\ (h \in solo' => \A k \in Requests \ {h} : rpc[k] = "idle")
      BY DEF Beside
    <2>2. \A k \in Requests \ {h} : rpc'[k] = rpc[k]  BY DEF SettingsTypeOK
    <2>3. rpc'[h] \in {"draw", "write", "fetch"}  BY DEF SettingsTypeOK
    <2>4. ~muddled' => ~muddled /\ solo' = {h}  BY DEF Beside
    <2>5. Writing => Writing'  BY <2>2, <2>3 DEF Writing
    <2>. QED
      BY <2>1, <2>2, <2>3, <2>4, <2>5
      DEF SettingsTypeOK, ScreensFollow, Writing, Registered
  <1>. QED  BY <1>1, <1>2, <1>3, <1>4, <1>5

LEMMA CreateKeepsInv ==
  ASSUME SettingsInv, NEW h \in Requests, NEW code \in Codes, CreateDraw(h, code)
  PROVE  SettingsInv'
  <1> DEFINE r == [state |-> "open", settings |-> [code |-> code, joins |-> TRUE, answers |-> FALSE]]
  <1>0. r \in Rows /\ r.settings # None /\ r.state = "open"  
    <2>1. r.settings \in Setting  BY DEF Setting
    <2>. QED  BY <2>1, SettingFacts DEF Rows
  <1>row. /\ row' = r /\ admits' \in [Players -> SUBSET Codes]
          /\ AdmissionNoted /\ UNCHANGED <<pc, typed>> => AdmissionNoted'
    BY <1>0, SetRowFacts DEF CreateDraw, SettingsInv
  <1> HIDE DEF r
  <1> USE DEF SettingsInv, CreateDraw, RequestReturn, playerVars, RequestSteps
  <1>1. SettingsTypeOK'
    <2>1. row'.state \in {"absent", "open", "closed", "gone"} /\ row'.settings \in Setting \cup {None}
      BY <1>0, <1>row DEF Rows
    <2>. QED  BY <1>0, <1>row, <2>1 DEF SettingsTypeOK, Registered
  <1>2. RequestsReady'  BY <1>0, <1>row DEF SettingsTypeOK, RequestsReady, Rows
  <1>3. PlayersReady'  BY <1>0, <1>row DEF SettingsTypeOK, PlayersReady
  <1>4. AdmissionNoted'  BY <1>0, <1>row DEF SettingsTypeOK, AdmissionNoted, Admitting
  <1>5. ScreensFollow'
    <2>1. row.state = "absent" /\ \A k \in Requests \ {h} : rpc[k] = "idle"
      BY DEF RequestsReady
    <2>2. \A k \in Requests : rpc'[k] = "idle"  BY <2>1 DEF SettingsTypeOK
    <2>3. solo' = {}  BY <2>1 DEF ScreensFollow
    <2>4. \A b \in Players : pc'[b] # "on"  BY <2>1 DEF PlayersReady
    <2>. QED  BY <2>2, <2>3, <2>4 DEF ScreensFollow, Registered
  <1>. QED  BY <1>1, <1>2, <1>3, <1>4, <1>5

LEMMA CodeKeepsInv ==
  ASSUME SettingsInv, NEW h \in Requests, NEW code \in Codes, CodeDraw(h, code)
  PROVE  SettingsInv'
  <1> DEFINE r == [row EXCEPT !.settings.code = code]
  <1>0. r \in Rows /\ r.settings # None /\ r.state = row.state
    <2>1. row \in Rows /\ row.settings \in Setting
      BY DEF SettingsInv, RequestsReady, SettingsTypeOK, CodeDraw
    <2>2. [row.settings EXCEPT !.code = code] \in Setting  BY <2>1, SettingFacts
    <2>. QED  BY <2>1, <2>2, SettingFacts DEF Rows
  <1>row. /\ row' = r /\ admits' \in [Players -> SUBSET Codes]
          /\ AdmissionNoted /\ UNCHANGED <<pc, typed>> => AdmissionNoted'
    BY <1>0, SetRowFacts DEF CodeDraw, SettingsInv
  <1> HIDE DEF r
  <1> USE DEF SettingsInv, CodeDraw, RequestGoto, RequestFetch, playerVars, RequestSteps
  <1>1. SettingsTypeOK'
    <2>1. row'.state \in {"absent", "open", "closed", "gone"} /\ row'.settings \in Setting \cup {None}
      BY <1>0, <1>row DEF Rows
    <2>2. tries' \in [Requests -> 0 .. MaxAttempts - 1]  BY DEF SettingsTypeOK
    <2>3. row.state # "absent"  BY DEF RequestsReady
    <2>. QED  BY <1>0, <1>row, <2>1, <2>2, <2>3 DEF SettingsTypeOK, Registered
  <1>2. RequestsReady'  BY <1>0, <1>row DEF SettingsTypeOK, RequestsReady, Rows
  <1>3. PlayersReady'  BY <1>0, <1>row DEF SettingsTypeOK, PlayersReady
  <1>4. AdmissionNoted'  BY <1>0, <1>row DEF SettingsTypeOK, AdmissionNoted, Admitting
  <1>5. ScreensFollow'
    BY <1>0, <1>row DEF SettingsTypeOK, ScreensFollow, Writing, Registered
  <1>. QED  BY <1>1, <1>2, <1>3, <1>4, <1>5

LEMMA CollideKeepsInv ==
  ASSUME SettingsInv, NEW h \in Requests, NEW code \in Codes, DrawCollides(h, code)
  PROVE  SettingsInv'
  <1> USE DEF SettingsInv, DrawCollides, RequestReturn, playerVars, RequestSteps
  <1>1. SettingsTypeOK'  BY DEF SettingsTypeOK, Registered
  <1>2. RequestsReady'  BY DEF SettingsTypeOK, RequestsReady
  <1>3. PlayersReady'  BY DEF SettingsTypeOK, PlayersReady
  <1>4. AdmissionNoted'  BY DEF SettingsTypeOK, AdmissionNoted, Admitting
  <1>5. ScreensFollow'  BY DEF SettingsTypeOK, ScreensFollow, Writing, Registered
  <1>. QED  BY <1>1, <1>2, <1>3, <1>4, <1>5

LEMMA NobodyKeepsInv ==
  ASSUME SettingsInv, NEW h \in Requests, DrawForNobody(h)
  PROVE  SettingsInv'
  <1> USE DEF SettingsInv, DrawForNobody, RequestReturn, playerVars, RequestSteps
  <1>1. SettingsTypeOK'  BY DEF SettingsTypeOK, Registered
  <1>2. RequestsReady'  BY DEF SettingsTypeOK, RequestsReady
  <1>3. PlayersReady'  BY DEF SettingsTypeOK, PlayersReady
  <1>4. AdmissionNoted'  BY DEF SettingsTypeOK, AdmissionNoted, Admitting
  <1>5. ScreensFollow'  BY DEF SettingsTypeOK, ScreensFollow, Writing, Registered
  <1>. QED  BY <1>1, <1>2, <1>3, <1>4, <1>5

LEMMA WriteKeepsInv ==
  ASSUME SettingsInv, NEW h \in Requests, Write(h)
  PROVE  SettingsInv'
  <1> DEFINE r == IF row.state = "gone" THEN row
                  ELSE IF op[h].kind = "joins" THEN [row EXCEPT !.settings.joins = op[h].on]
                  ELSE [row EXCEPT !.settings.answers = op[h].on]
  <1>0. r \in Rows /\ (r.settings = None <=> row.state = "gone") /\ r.state = row.state
    <2>1. row \in Rows /\ op[h].on \in BOOLEAN /\ row.state # "absent"
      <3>1. ASSUME NEW o \in Ops PROVE o.on \in BOOLEAN
        <4>1. CASE \E kind \in {"joins", "answers"}, on \in BOOLEAN : o = [kind |-> kind, on |-> on]
          BY <4>1
        <4>2. CASE \E kind \in {"create", "code", "start"} : o = [kind |-> kind, on |-> TRUE]
          BY <4>2
        <4>. QED  BY <4>1, <4>2 DEF Ops
      <3>. QED  BY <3>1 DEF SettingsInv, RequestsReady, Write
    <2>2. CASE row.state = "gone"  BY <2>1, <2>2 DEF SettingsInv, SettingsTypeOK
    <2>3. CASE row.state # "gone"
      <3>1. row.settings \in Setting  BY <2>1, <2>3 DEF SettingsInv, SettingsTypeOK
      <3>2. /\ [row.settings EXCEPT !.joins = op[h].on] \in Setting
            /\ [row.settings EXCEPT !.answers = op[h].on] \in Setting
        BY <2>1, <3>1, SettingFacts
      <3>. QED  BY <2>1, <2>3, <3>1, <3>2, SettingFacts DEF Rows
    <2>. QED  BY <2>2, <2>3
  <1>row. /\ row' = r /\ admits' \in [Players -> SUBSET Codes]
          /\ AdmissionNoted /\ UNCHANGED <<pc, typed>> => AdmissionNoted'
    BY <1>0, SetRowFacts DEF Write, SettingsInv
  <1> HIDE DEF r
  <1> USE DEF SettingsInv, Write, RequestGoto, RequestFetch, playerVars, RequestSteps
  <1>1. SettingsTypeOK'
    <2>1. row'.state \in {"absent", "open", "closed", "gone"} /\ row'.settings \in Setting \cup {None}
      BY <1>0, <1>row DEF Rows
    <2>2. tries' \in [Requests -> 0 .. MaxAttempts - 1]  BY DEF SettingsTypeOK
    <2>3. row.state # "absent"  BY DEF RequestsReady
    <2>. QED  BY <1>0, <1>row, <2>1, <2>2, <2>3 DEF SettingsTypeOK, Registered
  <1>2. RequestsReady'  BY <1>0, <1>row DEF SettingsTypeOK, RequestsReady, Rows
  <1>3. PlayersReady'  BY <1>0, <1>row DEF SettingsTypeOK, PlayersReady
  <1>4. AdmissionNoted'  BY <1>0, <1>row DEF SettingsTypeOK, AdmissionNoted, Admitting
  <1>5. ScreensFollow'
    BY <1>0, <1>row DEF SettingsTypeOK, ScreensFollow, Writing, Registered
  <1>. QED  BY <1>1, <1>2, <1>3, <1>4, <1>5

LEMMA FetchKeepsInv ==
  ASSUME SettingsInv, NEW h \in Requests, Fetch(h)
  PROVE  SettingsInv'
  <1> USE DEF SettingsInv, Fetch, RequestGoto, RequestReturn, playerVars, RequestSteps
  <1>1. SettingsTypeOK'  BY DEF SettingsTypeOK, Registered
  <1>2. RequestsReady'  BY DEF SettingsTypeOK, RequestsReady
  <1>3. PlayersReady'  BY DEF SettingsTypeOK, PlayersReady
  <1>4. AdmissionNoted'  BY DEF SettingsTypeOK, AdmissionNoted, Admitting
  <1>5. ScreensFollow'  BY DEF SettingsTypeOK, ScreensFollow, Writing, Registered
  <1>. QED  BY <1>1, <1>2, <1>3, <1>4, <1>5

LEMMA SayKeepsInv ==
  ASSUME SettingsInv, NEW h \in Requests, Say(h)
  PROVE  SettingsInv'
  <1> USE DEF SettingsInv, Say, RequestReturn, RequestSteps
  <1>0. got[h] \in Setting  BY DEF SettingsTypeOK, RequestsReady
  <1>1. SettingsTypeOK'  BY <1>0 DEF SettingsTypeOK, Registered
  <1>2. RequestsReady'  BY DEF SettingsTypeOK, RequestsReady
  <1>3. PlayersReady'  BY DEF SettingsTypeOK, PlayersReady
  <1>4. AdmissionNoted'  BY DEF SettingsTypeOK, AdmissionNoted, Admitting
  <1>5. ScreensFollow'  BY DEF SettingsTypeOK, ScreensFollow, Writing, Registered
  <1>. QED  BY <1>1, <1>2, <1>3, <1>4, <1>5

LEMMA AbandonKeepsInv ==
  ASSUME SettingsInv, NEW h \in Requests, Abandon(h)
  PROVE  SettingsInv'
  <1> USE DEF SettingsInv, Abandon, RequestReturn, playerVars, RequestSteps
  <1>1. SettingsTypeOK'  BY DEF SettingsTypeOK, Registered
  <1>2. RequestsReady'  BY DEF SettingsTypeOK, RequestsReady
  <1>3. PlayersReady'  BY DEF SettingsTypeOK, PlayersReady
  <1>4. AdmissionNoted'  BY DEF SettingsTypeOK, AdmissionNoted, Admitting
  <1>5. ScreensFollow'  BY DEF SettingsTypeOK, ScreensFollow, Writing, Registered
  <1>. QED  BY <1>1, <1>2, <1>3, <1>4, <1>5

LEMMA AskKeepsInv ==
  ASSUME SettingsInv, NEW b \in Players, NEW code \in Codes, Ask(b, code)
  PROVE  SettingsInv'
  <1> USE DEF SettingsInv, Ask, PlayerGoto, JoinReturn, requestVars, history, PlayerSteps
  <1>1. SettingsTypeOK'
    <2>1. Admitting(row) \subseteq Codes
      BY SettingFacts DEF SettingsTypeOK, Admitting
    <2>. QED  BY <2>1 DEF SettingsTypeOK, Registered
  <1>2. RequestsReady'  BY DEF SettingsTypeOK, RequestsReady
  <1>3. PlayersReady'  BY DEF SettingsTypeOK, PlayersReady
  <1>4. AdmissionNoted'  BY DEF SettingsTypeOK, AdmissionNoted, Admitting
  <1>5. ScreensFollow'  BY DEF SettingsTypeOK, ScreensFollow, Writing, Registered
  <1>. QED  BY <1>1, <1>2, <1>3, <1>4, <1>5

LEMMA LookupKeepsInv ==
  ASSUME SettingsInv, NEW b \in Players, Lookup(b)
  PROVE  SettingsInv'
  <1> USE DEF SettingsInv, Lookup, PlayerGoto, JoinReturn, requestVars, history,
              PlayerSteps
  <1>1. SettingsTypeOK'  BY DEF SettingsTypeOK, Registered
  <1>2. RequestsReady'  BY DEF SettingsTypeOK, RequestsReady
  <1>3. PlayersReady'
    <2>1. row.state = "absent" => Admitting(row) = {}  BY DEF Admitting
    <2>. QED  BY <2>1 DEF SettingsTypeOK, PlayersReady
  <1>4. AdmissionNoted'  BY DEF SettingsTypeOK, AdmissionNoted, Admitting
  <1>5. ScreensFollow'  BY DEF SettingsTypeOK, ScreensFollow, Writing, Registered
  <1>. QED  BY <1>1, <1>2, <1>3, <1>4, <1>5

LEMMA InsertKeepsInv ==
  ASSUME SettingsInv, NEW b \in Players, Insert(b)
  PROVE  SettingsInv'
  <1> USE DEF SettingsInv, Insert, PlayerGoto, JoinReturn, requestVars, history,
              PlayerSteps
  <1>1. SettingsTypeOK'  BY DEF SettingsTypeOK, Registered
  <1>2. RequestsReady'  BY DEF SettingsTypeOK, RequestsReady
  <1>3. PlayersReady'  BY DEF SettingsTypeOK, PlayersReady
  <1>4. AdmissionNoted'  BY DEF SettingsTypeOK, AdmissionNoted, Admitting
  <1>5. ScreensFollow'  BY DEF SettingsTypeOK, ScreensFollow, Writing, Registered
  <1>. QED  BY <1>1, <1>2, <1>3, <1>4, <1>5

LEMMA ReadRowKeepsInv ==
  ASSUME SettingsInv, NEW b \in Players, ReadRow(b)
  PROVE  SettingsInv'
  <1> USE DEF SettingsInv, ReadRow, PlayerGoto, JoinReturn, requestVars, history,
              PlayerSteps
  <1>1. SettingsTypeOK'  BY DEF SettingsTypeOK, Registered
  <1>2. RequestsReady'  BY DEF SettingsTypeOK, RequestsReady
  <1>3. PlayersReady'  BY DEF SettingsTypeOK, PlayersReady
  <1>4. AdmissionNoted'  BY DEF SettingsTypeOK, AdmissionNoted, Admitting
  <1>5. ScreensFollow'  BY DEF SettingsTypeOK, ScreensFollow, Writing, Registered
  <1>. QED  BY <1>1, <1>2, <1>3, <1>4, <1>5

LEMMA RegisterKeepsInv ==
  ASSUME SettingsInv, NEW b \in Players, Register(b)
  PROVE  SettingsInv'
  <1> USE DEF SettingsInv, Register, PlayerGoto, JoinReturn, requestVars, history,
              PlayerSteps
  <1>1. SettingsTypeOK'  BY DEF SettingsTypeOK, Registered
  <1>2. RequestsReady'  BY DEF SettingsTypeOK, RequestsReady
  <1>3. PlayersReady'  BY DEF SettingsTypeOK, PlayersReady
  <1>4. AdmissionNoted'  BY DEF SettingsTypeOK, AdmissionNoted, Admitting
  <1>5. ScreensFollow'  BY DEF SettingsTypeOK, ScreensFollow, Writing, Registered
  <1>. QED  BY <1>1, <1>2, <1>3, <1>4, <1>5

LEMMA WelcomeKeepsInv ==
  ASSUME SettingsInv, NEW b \in Players, Welcome(b)
  PROVE  SettingsInv'
  <1> USE DEF SettingsInv, Welcome, PlayerGoto, JoinReturn, requestVars, history,
              PlayerSteps
  <1>0. snap[b] \in Setting  BY DEF SettingsTypeOK, PlayersReady
  <1>1. SettingsTypeOK'
    <2>1. \A c \in Players : (pc'[c] = "on" => shown'[c] # None)
                              /\ (c \notin Registered' => shown'[c] = None)
      BY <1>0, SettingFacts DEF SettingsTypeOK, Registered
    <2>. QED  BY <1>0, <2>1 DEF SettingsTypeOK
  <1>2. RequestsReady'  BY DEF SettingsTypeOK, RequestsReady
  <1>3. PlayersReady'  BY DEF SettingsTypeOK, PlayersReady
  <1>4. AdmissionNoted'  BY DEF SettingsTypeOK, AdmissionNoted, Admitting
  <1>5. ScreensFollow'  BY DEF SettingsTypeOK, ScreensFollow, Writing, Registered
  <1>. QED  BY <1>1, <1>2, <1>3, <1>4, <1>5

LEMMA LeaveKeepsInv ==
  ASSUME SettingsInv, NEW b \in Players, Leave(b)
  PROVE  SettingsInv'
  <1> USE DEF SettingsInv, Leave, PlayerGoto, JoinReturn, requestVars, history,
              PlayerSteps
  <1>1. SettingsTypeOK'  BY DEF SettingsTypeOK, Registered
  <1>2. RequestsReady'  BY DEF SettingsTypeOK, RequestsReady
  <1>3. PlayersReady'  BY DEF SettingsTypeOK, PlayersReady
  <1>4. AdmissionNoted'  BY DEF SettingsTypeOK, AdmissionNoted, Admitting
  <1>5. ScreensFollow'  BY DEF SettingsTypeOK, ScreensFollow, Writing, Registered
  <1>. QED  BY <1>1, <1>2, <1>3, <1>4, <1>5

LEMMA OtherKeepsInv ==
  ASSUME SettingsInv, NEW code \in Codes, OtherSession(code)
  PROVE  SettingsInv'
  <1> USE DEF SettingsInv, OtherSession, requestVars, playerVars, history
  <1>1. SettingsTypeOK'  BY DEF SettingsTypeOK, Registered
  <1>2. RequestsReady'  BY DEF SettingsTypeOK, RequestsReady
  <1>3. PlayersReady'  BY DEF SettingsTypeOK, PlayersReady
  <1>4. AdmissionNoted'  BY DEF SettingsTypeOK, AdmissionNoted, Admitting
  <1>5. ScreensFollow'  BY DEF SettingsTypeOK, ScreensFollow, Writing, Registered
  <1>. QED  BY <1>1, <1>2, <1>3, <1>4, <1>5

LEMMA EndKeepsInv ==
  ASSUME SettingsInv, End
  PROVE  SettingsInv'
  <1> USE DEF SettingsInv, requestVars, playerVars
  <1>1. PICK r \in Rows :
          /\ SetRow(r) /\ row.state \in {"open", "closed"} /\ members' \in {members, {}}
          /\ \/ r.state = "closed" /\ r.settings = row.settings /\ r.settings # None
             \/ r.state = "gone" /\ r.settings = None
    <2>1. CASE row.state = "open"
      <3> DEFINE r == [row EXCEPT !.state = "closed"]
      <3>1. r \in Rows /\ r.state = "closed" /\ r.settings = row.settings
        BY DEF RequestsReady, Rows
      <3>. QED  BY <2>1, <3>1 DEF End, SettingsTypeOK
    <2>2. CASE row.state = "closed"
      <3> DEFINE r == [state |-> "gone", settings |-> None]
      <3>1. r \in Rows /\ r.state = "gone" /\ r.settings = None  BY DEF Rows
      <3>. QED  BY <2>2, <3>1 DEF End
    <2>. QED  BY <2>1, <2>2 DEF End
  <1>2. /\ row' = r /\ admits' \in [Players -> SUBSET Codes]
        /\ AdmissionNoted /\ UNCHANGED <<pc, typed>> => AdmissionNoted'
    BY <1>1, SetRowFacts
  <1>3. UNCHANGED <<taken, requestVars, playerVars, solo, muddled, behind>>  BY DEF End
  <1>4. SettingsTypeOK'  BY <1>1, <1>2, <1>3 DEF Rows, SettingsTypeOK, Registered
  <1>5. RequestsReady'  BY <1>1, <1>2, <1>3 DEF RequestsReady
  <1>6. PlayersReady'  BY <1>1, <1>2, <1>3 DEF PlayersReady
  <1>7. AdmissionNoted'  BY <1>2, <1>3
  <1>8. ScreensFollow'  BY <1>1, <1>2, <1>3 DEF ScreensFollow, Writing, Registered
  <1>. QED  BY <1>4, <1>5, <1>6, <1>7, <1>8

LEMMA StutterKeepsInv ==
  ASSUME SettingsInv, UNCHANGED settingsVars
  PROVE  SettingsInv'
  BY DEF SettingsInv, SettingsTypeOK, RequestsReady, PlayersReady, AdmissionNoted,
         ScreensFollow, Writing, Registered, Admitting, settingsVars, requestVars,
         playerVars, history

LEMMA StepKeepsInv ==
  ASSUME SettingsInv, [SettingsNext]_settingsVars
  PROVE  SettingsInv'
  <1>1. ASSUME NEW h \in Requests, RequestStep(h) PROVE SettingsInv'
    BY <1>1, CreateKeepsInv, CodeKeepsInv, CollideKeepsInv, NobodyKeepsInv, WriteKeepsInv,
       FetchKeepsInv, SayKeepsInv, AbandonKeepsInv DEF RequestStep
  <1>2. ASSUME NEW b \in Players, PlayerStep(b) PROVE SettingsInv'
    BY <1>2, AskKeepsInv, LookupKeepsInv, InsertKeepsInv, ReadRowKeepsInv,
       RegisterKeepsInv, WelcomeKeepsInv, LeaveKeepsInv DEF PlayerStep
  <1>. QED
    BY <1>1, <1>2, BeginKeepsInv, OtherKeepsInv, EndKeepsInv, StutterKeepsInv
    DEF SettingsNext

----------------------------------------------------------------------------
(* The theorems *)

\* The inductive invariant, for any number of players, requests and codes.
THEOREM SettingsInvHolds == SettingsSpec => []SettingsInv
  BY InitInv, StepKeepsInv, PTL DEF SettingsSpec

\* Every state of the settings, the requests and the joins is well formed.
THEOREM SettingsTypeCorrect == SettingsSpec => []SettingsTypeOK
  <1>1. SettingsInv => SettingsTypeOK  BY DEF SettingsInv
  <1>. QED  BY <1>1, SettingsInvHolds, PTL

\* Once a request that ran alone has said what it wrote, every screen shows the
\* settings of the row, but for those whose Welcome was out of date
\* (broadcast_session_state, the handshake).
THEOREM SettingsAreShown == SettingsSpec => []SettingsShown
  <1>1. SettingsInv => SettingsShown
    BY DEF SettingsInv, ScreensFollow, SettingsShown, Settled, Writing
  <1>. QED  BY <1>1, SettingsInvHolds, PTL

\* Whoever join_session adds gave a code that admitted him at some moment since he
\* asked, however many requests and joins are under way.
THEOREM JoinsAreAllowed == SettingsSpec => JoinWasAllowed
  <1>1. SettingsInv /\ [SettingsNext]_settingsVars =>
          [\A b \in Players :
             b \in members' /\ b \notin members => typed[b] \in admits[b]]_settingsVars
    <2> SUFFICES ASSUME SettingsInv, SettingsNext, NEW b \in Players,
                        b \in members', b \notin members
                 PROVE  typed[b] \in admits[b]
      BY DEF settingsVars
    <2>1. Insert(b)
      <3>1. ASSUME NEW h \in Requests,
                   RequestStep(h) \/ \E o \in Ops : RequestBegin(h, o)
            PROVE  members' = members
        BY <3>1 DEF RequestStep, RequestBegin, CreateDraw, CodeDraw, DrawCollides,
                    DrawForNobody, Write, Fetch, Say, Abandon
      <3>2. ASSUME NEW c \in Players, PlayerStep(c), ~Insert(c) PROVE members' = members
        BY <3>2 DEF PlayerStep, Ask, Lookup, ReadRow, Register, Welcome, Leave
      <3>3. ASSUME NEW c \in Players, Insert(c) PROVE c = b
        BY <3>3 DEF Insert
      <3>4. ASSUME NEW code \in Codes, OtherSession(code) PROVE members' = members
        BY <3>4 DEF OtherSession
      <3>5. End => members' \subseteq members  BY DEF End
      <3>. QED  BY <3>1, <3>2, <3>3, <3>4, <3>5 DEF SettingsNext
    <2>. QED  BY <2>1 DEF Insert, SettingsInv, AdmissionNoted
  <1>. QED  BY <1>1, SettingsInvHolds, PTL DEF SettingsSpec, JoinWasAllowed
=============================================================================
