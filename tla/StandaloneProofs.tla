-------------------------- MODULE StandaloneProofs --------------------------
(***************************************************************************)
(* Who passes the host, what "saved" means and what sending keeps, for any *)
(* number of requests, drafts, texts, autosaves and calls of the tool.     *)
(***************************************************************************)
EXTENDS Standalone, TLAPS

-----------------------------------------------------------------------------
(* The host.  Its gate is there whenever anybody can reach it, its secrets *)
(* until it is disposed, and only the owner is forwarded.                  *)

HostInv ==
  /\ HostTypeOK
  /\ ~disposed => secrets = "set"
  /\ Reachable => upgrades = "gate"
  /\ server = "gated" => upgrades = "gate"
  /\ \A r \in Requests : request[r].phase = "forwarded" => request[r].token = "owner"

LEMMA NoRequestIs == NoRequest \in Request /\ NoRequest.phase = "none"
BY DEF NoRequest, Request, Tokens

(* A request of its own step.                                              *)
LEMMA RequestMoves ==
  ASSUME HostInv, NEW r \in Requests, NEW x \in Request, request' = [request EXCEPT ![r] = x],
         x.phase = "forwarded" => x.token = "owner",
         UNCHANGED <<server, disposed, secrets, upgrades>>
  PROVE  HostInv'
<1>1. request' \in [Requests -> Request]
  BY DEF HostInv, HostTypeOK
<1>2. \A q \in Requests : request'[q].phase = "forwarded" => request'[q].token = "owner"
  BY DEF HostInv, HostTypeOK
<1> QED BY <1>1, <1>2 DEF HostInv, HostTypeOK, Reachable

LEMMA HostStep == HostInv /\ [HostNext]_hostVars => HostInv'
<1> SUFFICES ASSUME HostInv, [HostNext]_hostVars PROVE HostInv'
  OBVIOUS
<1>1. CASE ConfigureServer \/ InstallUpgradeGate \/ Listen \/ BeginClose
  BY <1>1 DEF ConfigureServer, InstallUpgradeGate, Listen, BeginClose, HostInv, HostTypeOK, Reachable
<1>2. CASE Dispose \/ Closed
  BY <1>2 DEF Dispose, Closed, Deactivated, HostInv, HostTypeOK, Reachable
<1>3. ASSUME NEW r \in Requests, NEW token \in Tokens, HttpRequest(r, token) PROVE HostInv'
  <2> DEFINE x == [kind |-> "http", token |-> token, proof |-> TrustedProof, phase |-> "forwarded"]
  <2>1. x \in Request /\ x.token = token
    BY DEF Request, TrustedProof
  <2>2. token = "owner"
    BY <1>3 DEF HttpRequest, Admits, ExpectedToken, HostInv
  <2>3. request' = [request EXCEPT ![r] = x] /\ UNCHANGED <<server, disposed, secrets, upgrades>>
    BY <1>3 DEF HttpRequest
  <2> HIDE DEF x
  <2> QED BY <2>1, <2>2, <2>3, RequestMoves
<1>4. ASSUME NEW r \in Requests, NEW token \in Tokens, Upgrade(r, token) PROVE HostInv'
  <2> DEFINE x == [kind |-> "upgrade", token |-> token,
                   proof |-> IF upgrades = "gate" THEN TrustedProof ELSE "none", phase |-> "delegated"]
  <2>1. x \in Request /\ x.phase = "delegated"
    BY DEF Request, TrustedProof
  <2>2. request' = [request EXCEPT ![r] = x] /\ UNCHANGED <<server, disposed, secrets, upgrades>>
    BY <1>4 DEF Upgrade
  <2> HIDE DEF x
  <2> QED BY <2>1, <2>2, RequestMoves
<1>5. ASSUME NEW r \in Requests, BridgeResolves(r) PROVE HostInv'
  <2> DEFINE x == IF Recognised(r) THEN [request[r] EXCEPT !.phase = "served"] ELSE NoRequest
  <2>1. x \in Request /\ x.phase # "forwarded"
    BY NoRequestIs DEF HostInv, HostTypeOK, Request
  <2>2. request' = [request EXCEPT ![r] = x] /\ UNCHANGED <<server, disposed, secrets, upgrades>>
    BY <1>5 DEF BridgeResolves
  <2> HIDE DEF x
  <2> QED BY <2>1, <2>2, RequestMoves
<1>6. ASSUME NEW r \in Requests, RequestEnds(r) PROVE HostInv'
  BY <1>6, NoRequestIs, RequestMoves DEF RequestEnds
<1>7. CASE UNCHANGED hostVars
  BY <1>7 DEF hostVars, HostInv, HostTypeOK, Reachable
<1> QED BY <1>1, <1>2, <1>3, <1>4, <1>5, <1>6, <1>7 DEF HostNext

LEMMA HostStarts == HostInit => HostInv
BY NoRequestIs DEF HostInit, HostInv, HostTypeOK, Reachable

LEMMA HostOrNot == [Next]_vars => [HostNext]_hostVars
BY DEF Next, vars

(* What passes is the owner's, and the host is active.                     *)
LEMMA OnlyTheOwnerSteps ==
  ASSUME HostInv, [HostNext]_hostVars, NEW r \in Requests, LetThrough(r)', ~LetThrough(r)
  PROVE  request'[r].token = "owner" /\ ~disposed
<1>1. \A q \in Requests : request[q] \in Request
  BY DEF HostInv, HostTypeOK
<1>2. CASE request' = request
  BY <1>2 DEF LetThrough
<1>3. ASSUME NEW q \in Requests, NEW token \in Tokens, HttpRequest(q, token) PROVE FALSE
  BY <1>3 DEF HttpRequest, LetThrough, HostInv, HostTypeOK
<1>4. ASSUME NEW q \in Requests, RequestEnds(q) PROVE FALSE
  BY <1>4, NoRequestIs DEF RequestEnds, LetThrough, HostInv, HostTypeOK
<1>5. ASSUME NEW q \in Requests, NEW token \in Tokens, Upgrade(q, token)
      PROVE  request'[r].token = "owner" /\ ~disposed
  <2>1. q = r
    BY <1>5 DEF Upgrade, LetThrough, HostInv, HostTypeOK
  <2>2. ~disposed /\ token = "owner"
    BY <1>5 DEF Upgrade, Admits, ExpectedToken, HostInv
  <2>3. request'[r].token = token
    BY <1>5, <2>1 DEF Upgrade, HostInv, HostTypeOK
  <2> QED BY <2>2, <2>3
<1>6. ASSUME NEW q \in Requests, BridgeResolves(q)
      PROVE  request'[r].token = "owner" /\ ~disposed
  <2>1. q = r
    BY <1>6 DEF BridgeResolves, LetThrough, HostInv, HostTypeOK
  <2>2. request[r].phase = "forwarded" /\ request[r].token = "owner"
    BY <1>6, <2>1 DEF BridgeResolves, HostInv
  <2>3. Recognised(r)
    BY <1>6, <2>1, NoRequestIs DEF BridgeResolves, LetThrough, HostInv, HostTypeOK
  <2>4. request'[r] = [request[r] EXCEPT !.phase = "served"]
    BY <1>6, <2>1, <2>3 DEF BridgeResolves, HostInv, HostTypeOK
  <2> QED BY <1>1, <2>2, <2>3, <2>4 DEF Recognised, Request
<1> QED BY <1>2, <1>3, <1>4, <1>5, <1>6
     DEF HostNext, hostVars, ConfigureServer, InstallUpgradeGate, Listen, BeginClose, Dispose, Closed

-----------------------------------------------------------------------------
(* Draft files: types, and what an editor and an autosave are.             *)

Editor == [path : Paths \cup {None}, payload : Texts \cup {None},
           last : Texts \cup {None}, timer : BOOLEAN, state : {"idle", "saved", "error"}]
Save == [step : {"none", "posted", "routed", "opened", "answered"},
         path : Paths \cup {None}, content : Content \cup {None},
         fd : Paths \cup {None}, ok : BOOLEAN, heard : BOOLEAN]
Agent == [step : {"none", "ready", "read", "opened", "written"},
          action : {"update_draft", "mock_send"} \cup {None}, path : Paths \cup {None},
          content : File \cup {None}, fd : Paths \cup {None}]

(* Without a timer the editor has posted what it shows.                    *)
EditorFact(d) ==
  /\ d \in Editor
  /\ d.path = None => ~d.timer /\ d.state = "idle"
  /\ d.path # None => d.payload \in Texts
  /\ d.path # None /\ ~d.timer => d.payload = d.last

SaveFact(x, open) ==
  /\ x \in Save
  /\ x = NoSave \/ (x.step # "none" /\ x.path \in Paths /\ x.content \in Content)
  /\ x.heard => open

AgentFact(x) ==
  /\ x \in Agent
  /\ x = NoCall \/ (x.step # "none" /\ x.path \in Paths /\ x.action \in {"update_draft", "mock_send"})
  /\ x.step = "ready" /\ x.action = "update_draft" => x.content \in File
  /\ x.step \in {"read", "opened", "written"} => x.content \in File

FileInv ==
  /\ file \in [Paths -> File \cup {None}]
  /\ EditorFact(editor)
  /\ save \in [Saves -> Save] /\ \A s \in Saves : SaveFact(save[s], editor.path # None)
  /\ AgentFact(agent)
  /\ calls \in 0 .. MaxCalls /\ crossed \in BOOLEAN /\ newest \in Saves \cup {None}
  /\ sending \in Content \cup {None}

LEMMA NothingIs ==
  /\ NoSave \in Save /\ ~NoSave.heard /\ ~NoSave.ok /\ NoSave.fd = None /\ NoSave.step = "none"
  /\ [NoSave EXCEPT !.heard = FALSE] = NoSave
  /\ NoCall \in Agent /\ NoCall.step = "none"
  /\ EditorFact(NoEditor) /\ NoEditor.path = None /\ NoEditor.state = "idle"
<1>1. NoSave \in Save /\ ~NoSave.heard /\ ~NoSave.ok /\ NoSave.fd = None /\ NoSave.step = "none"
  BY DEF NoSave, Save
<1>2. \A x \in Save : ~x.heard => [x EXCEPT !.heard = FALSE] = x
  BY DEF Save
<1>3. NoCall \in Agent /\ NoCall.step = "none"
  BY DEF NoCall, Agent
<1>4. EditorFact(NoEditor) /\ NoEditor.path = None /\ NoEditor.state = "idle"
  BY DEF NoEditor, EditorFact, Editor
<1> QED BY <1>1, <1>2, <1>3, <1>4

LEMMA FilesAre ==
  /\ Empty \in File /\ Torn \in File /\ Content \subseteq File
  /\ \A t \in Texts : Serialized(t) \in Content
  /\ \A d \in Drafts : d \in Paths /\ Sent[d] \in Paths /\ Sent[d] # d
  /\ \A p \in Paths : p # None
BY SentIsApart, DraftsAreTyped DEF File, Content, Serialized, Paths, Sent

(* writeFile in two calls of the file system.                              *)
LEMMA FileWritten ==
  ASSUME FileInv, NEW c \in File, NEW fd \in Paths \cup {None}, Fill(fd, c)
  PROVE  file' \in [Paths -> File \cup {None}]
BY FilesAre DEF Fill, FileInv

LEMMA FileTruncated ==
  ASSUME FileInv, NEW p \in Paths, Truncate(p)
  PROVE  file' \in [Paths -> File \cup {None}] /\ file'[p] = Empty /\ \A q \in Paths \ {p} : file'[q] = file[q]
BY FilesAre DEF Truncate, FileInv

(* Autosaves that follow a file keep all but their descriptor.             *)
LEMMA Followed ==
  ASSUME FileInv, NEW moved \in [Paths -> Paths \cup {None}], Follow(moved), editor' = editor
  PROVE  save' \in [Saves -> Save] /\ \A s \in Saves : SaveFact(save'[s], editor'.path # None)
<1> SUFFICES ASSUME NEW s \in Saves
             PROVE  save'[s] \in Save /\ SaveFact(save'[s], editor'.path # None)
  BY DEF Follow
<1>1. SaveFact(save[s], editor.path # None) /\ save[s] \in Save
  BY DEF FileInv
<1>2. CASE save[s].fd = None
  BY <1>1, <1>2 DEF Follow
<1>3. CASE save[s].fd # None
  <2>1. save[s] # NoSave /\ moved[save[s].fd] \in Paths \cup {None}
    BY <1>1, <1>3, NothingIs DEF Save
  <2>2. save'[s] = [save[s] EXCEPT !.fd = moved[save[s].fd]]
    BY <1>3 DEF Follow
  <2> QED BY <1>1, <2>1, <2>2 DEF SaveFact, Save
<1> QED BY <1>2, <1>3

LEMMA GoneIs == \A p \in Paths : Gone(p) \in [Paths -> Paths \cup {None}]
BY DEF Gone

(* One autosave of its own step.                                           *)
LEMMA SaveMoves ==
  ASSUME FileInv, NEW s \in Saves, NEW x, SaveFact(x, editor'.path # None), save' = [save EXCEPT ![s] = x],
         editor'.path = editor.path
  PROVE  /\ save' \in [Saves -> Save] /\ \A u \in Saves : SaveFact(save'[u], editor'.path # None)
         /\ save'[s] = x /\ \A u \in Saves \ {s} : save'[u] = save[u]
BY DEF FileInv, SaveFact

EditorStep ==
  \/ \E p \in Paths : OpenEditor(p)
  \/ \E t \in Texts : Edit(t)
  \/ CloseEditor
SaveStep ==
  \E s \in Saves :
    \/ TimerFires(s) \/ SaveArrives(s, TRUE) \/ SaveArrives(s, FALSE) \/ SaveOpens(s)
    \/ SaveWrites(s) \/ SaveFails(s) \/ ConnectionLost(s) \/ SaveAnswered(s)
ToolStep ==
  \/ \E p \in Paths : DeleteDraft(p) \/ MockSend(p)
  \/ \E p \in Paths, q \in Paths : MoveDraft(p, q)
  \/ \E p \in Paths, t \in Texts : UpdateDraft(p, t)
  \/ SendReads \/ CallOpens \/ CallWrites \/ RemoveSent \/ CallFails

LEMMA DraftsOrNot == [Next]_vars => EditorStep \/ SaveStep \/ ToolStep \/ UNCHANGED draftVars
<1> SUFFICES ASSUME [Next]_vars, ~ UNCHANGED draftVars PROVE EditorStep \/ SaveStep \/ ToolStep
  OBVIOUS
<1>1. ASSUME NEW s \in Saves, SaveArrives(s, Passes) PROVE SaveStep
  <2>1. SaveArrives(s, TRUE) \/ SaveArrives(s, FALSE)
    BY <1>1 DEF SaveArrives
  <2> QED BY <2>1 DEF SaveStep
<1>2. ASSUME DraftNext PROVE EditorStep \/ SaveStep \/ ToolStep
  BY <1>2 DEF DraftNext, EditorStep, SaveStep, ToolStep
<1>3. ASSUME NEW p \in Paths, OpenEditor(p) PROVE EditorStep
  BY <1>3 DEF EditorStep
<1> QED BY <1>1, <1>2, <1>3 DEF Next, vars

LEMMA EditorKeepsTypes == FileInv /\ EditorStep => FileInv'
<1> SUFFICES ASSUME FileInv, EditorStep PROVE FileInv'
  OBVIOUS
<1>1. ASSUME NEW p \in Paths, OpenEditor(p) PROVE FileInv'
  <2>1. EditorFact(editor')
    BY <1>1, DraftsAreTyped, FilesAre DEF OpenEditor, EditorFact, Editor, Content
  <2>2. \A s \in Saves : SaveFact(save[s], editor'.path # None)
    BY <1>1, FilesAre DEF OpenEditor, FileInv, SaveFact
  <2> QED BY <1>1, <2>1, <2>2 DEF OpenEditor, FileInv
<1>2. ASSUME NEW t \in Texts, Edit(t) PROVE FileInv'
  <2>1. editor' = [[editor EXCEPT !.payload = t] EXCEPT !.timer = (t # editor.last)]
    BY <1>2 DEF Edit
  <2>2. EditorFact(editor') /\ editor'.path = editor.path
    BY <1>2, <2>1 DEF Edit, FileInv, EditorFact, Editor
  <2> QED BY <1>2, <2>2 DEF Edit, FileInv
<1>3. CASE CloseEditor
  <2> SUFFICES ASSUME NEW s \in Saves PROVE save'[s] \in Save /\ SaveFact(save'[s], editor'.path # None)
    BY <1>3, NothingIs DEF CloseEditor, FileInv
  <2>1. SaveFact(save[s], editor.path # None) /\ save'[s] = [save[s] EXCEPT !.heard = FALSE]
    BY <1>3 DEF CloseEditor, FileInv
  <2> QED BY <2>1, NothingIs DEF SaveFact, Save
<1> QED BY <1>1, <1>2, <1>3 DEF EditorStep

(* What an autosave becomes in its own step, and which file it touches.    *)
SaveTurns(s, x) ==
  /\ save' = [save EXCEPT ![s] = x]
  /\ SaveFact(x, editor'.path # None)
  /\ editor'.path = editor.path /\ EditorFact(editor')
  /\ UNCHANGED <<agent, calls>>

LEMMA Posting ==
  ASSUME FileInv, NEW s \in Saves, TimerFires(s)
  PROVE  /\ SaveTurns(s, save'[s])
         /\ editor.path \in Paths /\ editor.payload \in Texts
         /\ save'[s].step = "posted" /\ save'[s].path = editor.path /\ ~save'[s].ok
         /\ save'[s].heard /\ save'[s].content = Serialized(editor.payload) /\ save'[s] # NoSave
         /\ editor'.last = editor.payload
<1> DEFINE x == [step |-> "posted", path |-> editor.path, fd |-> None,
                 content |-> Serialized(editor.payload), ok |-> FALSE, heard |-> TRUE]
<1>1. editor.path \in Paths /\ editor.payload \in Texts
  BY DEF TimerFires, FileInv, EditorFact, Editor
<1>2. /\ x \in Save /\ x.step = "posted" /\ x.path = editor.path /\ ~x.ok /\ x.heard
      /\ x.content = Serialized(editor.payload) /\ x.content \in Content
  BY <1>1, FilesAre DEF Save
<1>3. save' = [save EXCEPT ![s] = x] /\ UNCHANGED <<agent, calls>>
  BY DEF TimerFires
<1> HIDE DEF x
<1>4. save'[s] = x /\ x # NoSave
  BY <1>2, <1>3, NothingIs DEF FileInv
<1>5. editor' = [[editor EXCEPT !.last = editor.payload] EXCEPT !.timer = FALSE]
  BY DEF TimerFires
<1>6. EditorFact(editor') /\ editor'.path = editor.path /\ editor'.last = editor.payload
  BY <1>1, <1>5, FilesAre DEF FileInv, EditorFact, Editor
<1>7. SaveFact(x, editor'.path # None)
  BY <1>1, <1>2, <1>6, FilesAre DEF SaveFact
<1> QED BY <1>1, <1>2, <1>3, <1>4, <1>6, <1>7 DEF SaveTurns

LEMMA Arriving ==
  ASSUME FileInv, NEW s \in Saves, NEW b \in BOOLEAN, SaveArrives(s, b)
  PROVE  /\ SaveTurns(s, save'[s]) /\ save[s] # NoSave /\ save'[s] # NoSave
         /\ save[s].step = "posted" /\ save'[s].step \in {"routed", "answered"}
         /\ \E x \in {"routed", "answered"} : save'[s] = [save[s] EXCEPT !.step = x]
<1> DEFINE to == IF b THEN "routed" ELSE "answered"
           x == [save[s] EXCEPT !.step = to]
<1>1. SaveFact(save[s], editor.path # None) /\ save[s].step = "posted" /\ save[s] # NoSave
  BY NothingIs DEF SaveArrives, FileInv
<1>2. to \in {"routed", "answered"}
  OBVIOUS
<1>3. save' = [save EXCEPT ![s] = x] /\ UNCHANGED <<agent, calls, editor>>
  BY DEF SaveArrives
<1> HIDE DEF to
<1>4. SaveFact(x, editor.path # None) /\ x.step = to
  BY <1>1, <1>2 DEF SaveFact, Save
<1>5. save'[s] = x /\ x # NoSave
  BY <1>2, <1>3, <1>4, NothingIs DEF FileInv
<1> QED BY <1>1, <1>2, <1>3, <1>4, <1>5 DEF SaveTurns, FileInv

LEMMA Opening ==
  ASSUME FileInv, NEW s \in Saves, SaveOpens(s)
  PROVE  /\ SaveTurns(s, save'[s]) /\ save[s] # NoSave /\ save'[s] # NoSave
         /\ save[s].step = "routed" /\ save[s].path \in Paths
         /\ save'[s] = [[save[s] EXCEPT !.step = "opened"] EXCEPT !.fd = save[s].path]
<1> DEFINE x == [[save[s] EXCEPT !.step = "opened"] EXCEPT !.fd = save[s].path]
<1>1. SaveFact(save[s], editor.path # None) /\ save[s].step = "routed" /\ save[s] # NoSave
  BY NothingIs DEF SaveOpens, FileInv
<1>2. save' = [save EXCEPT ![s] = x] /\ UNCHANGED <<agent, calls, editor>>
  BY DEF SaveOpens
<1>3. SaveFact(x, editor.path # None) /\ x.step = "opened"
  BY <1>1 DEF SaveFact, Save
<1> HIDE DEF x
<1>4. save'[s] = x /\ x # NoSave
  BY <1>2, <1>3, NothingIs DEF FileInv
<1> QED BY <1>1, <1>2, <1>3, <1>4 DEF SaveTurns, SaveFact, FileInv, x

LEMMA Writing ==
  ASSUME FileInv, NEW s \in Saves, SaveWrites(s)
  PROVE  /\ SaveTurns(s, save'[s]) /\ save[s] # NoSave /\ save'[s] # NoSave
         /\ save[s].step = "opened" /\ save'[s].step = "answered"
         /\ save'[s].path = save[s].path /\ save'[s].content = save[s].content
         /\ save'[s].heard = save[s].heard /\ save[s].content \in File
<1> DEFINE x == [[[save[s] EXCEPT !.step = "answered"] EXCEPT !.fd = None] EXCEPT !.ok = TRUE]
<1>1. SaveFact(save[s], editor.path # None) /\ save[s].step = "opened" /\ save[s] # NoSave
  BY NothingIs DEF SaveWrites, FileInv
<1>2. save' = [save EXCEPT ![s] = x] /\ UNCHANGED <<agent, calls, editor>>
  BY DEF SaveWrites
<1>3. /\ x \in Save /\ x.step = "answered" /\ x.path = save[s].path
      /\ x.content = save[s].content /\ x.heard = save[s].heard
  BY <1>1 DEF SaveFact, Save
<1> HIDE DEF x
<1>4. save'[s] = x /\ x # NoSave
  BY <1>2, <1>3, NothingIs DEF FileInv
<1>5. SaveFact(x, editor.path # None)
  BY <1>1, <1>3 DEF SaveFact
<1> QED BY <1>1, <1>2, <1>3, <1>4, <1>5, FilesAre DEF SaveTurns, SaveFact, FileInv

LEMMA Failing ==
  ASSUME FileInv, NEW s \in Saves, SaveFails(s)
  PROVE  /\ SaveTurns(s, save'[s]) /\ save[s] # NoSave /\ save'[s] # NoSave
         /\ save[s].step \in {"routed", "opened"} /\ save'[s].step = "answered"
         /\ save'[s].path = save[s].path /\ save'[s].content = save[s].content
         /\ save'[s].heard = save[s].heard /\ save'[s].ok = save[s].ok
<1> DEFINE x == [[save[s] EXCEPT !.step = "answered"] EXCEPT !.fd = None]
<1>1. SaveFact(save[s], editor.path # None) /\ save[s].step \in {"routed", "opened"} /\ save[s] # NoSave
  BY NothingIs DEF SaveFails, FileInv
<1>2. save' = [save EXCEPT ![s] = x] /\ UNCHANGED <<agent, calls, editor>>
  BY DEF SaveFails
<1>3. /\ x \in Save /\ x.step = "answered" /\ x.path = save[s].path
      /\ x.content = save[s].content /\ x.heard = save[s].heard /\ x.ok = save[s].ok
  BY <1>1 DEF SaveFact, Save
<1> HIDE DEF x
<1>4. save'[s] = x /\ x # NoSave
  BY <1>2, <1>3, NothingIs DEF FileInv
<1>5. SaveFact(x, editor.path # None)
  BY <1>1, <1>3 DEF SaveFact
<1> QED BY <1>1, <1>2, <1>3, <1>4, <1>5 DEF SaveTurns, FileInv

LEMMA Losing ==
  ASSUME FileInv, NEW s \in Saves, ConnectionLost(s)
  PROVE  /\ SaveTurns(s, save'[s]) /\ save[s] # NoSave
         /\ save'[s] = [save[s] EXCEPT !.heard = FALSE] /\ editor' = [editor EXCEPT !.state = "error"]
<1> DEFINE x == [save[s] EXCEPT !.heard = FALSE]
<1>1. SaveFact(save[s], editor.path # None) /\ save[s].heard /\ save[s] # NoSave
  BY NothingIs DEF ConnectionLost, FileInv
<1>2. save' = [save EXCEPT ![s] = x] /\ UNCHANGED <<agent, calls>> /\ editor' = [editor EXCEPT !.state = "error"]
  BY DEF ConnectionLost
<1>3. EditorFact(editor') /\ editor'.path = editor.path
  BY <1>1, <1>2 DEF SaveFact, FileInv, EditorFact, Editor
<1>4. SaveFact(x, editor'.path # None)
  BY <1>1, <1>3, NothingIs DEF SaveFact, Save
<1> QED BY <1>1, <1>2, <1>3, <1>4 DEF SaveTurns, FileInv

LEMMA Answering ==
  ASSUME FileInv, NEW s \in Saves, SaveAnswered(s)
  PROVE  /\ SaveTurns(s, NoSave) /\ save[s] # NoSave /\ save[s].step = "answered"
         /\ editor' = IF save[s].heard THEN [editor EXCEPT !.state = StateOf(s)] ELSE editor
<1>1. SaveFact(save[s], editor.path # None) /\ save[s] # NoSave
  BY NothingIs DEF SaveAnswered, FileInv
<1>2. EditorFact(editor') /\ editor'.path = editor.path
  BY <1>1 DEF SaveAnswered, SaveFact, FileInv, EditorFact, Editor, StateOf
<1>3. SaveFact(NoSave, editor'.path # None)
  BY NothingIs DEF SaveFact
<1> QED BY <1>1, <1>2, <1>3 DEF SaveTurns, SaveAnswered

LEMMA SavesKeepTypes == FileInv /\ SaveStep => FileInv'
<1> SUFFICES ASSUME FileInv, NEW s \in Saves,
                    \/ TimerFires(s) \/ SaveArrives(s, TRUE) \/ SaveArrives(s, FALSE) \/ SaveOpens(s)
                    \/ SaveWrites(s) \/ SaveFails(s) \/ ConnectionLost(s) \/ SaveAnswered(s)
             PROVE  FileInv'
  BY DEF SaveStep
<1>1. \E x : SaveTurns(s, x)
  BY Posting, Arriving, Opening, Writing, Failing, Losing, Answering
<1>2. save' \in [Saves -> Save] /\ \A u \in Saves : SaveFact(save'[u], editor'.path # None)
  BY <1>1, SaveMoves DEF SaveTurns
<1>3. file' \in [Paths -> File \cup {None}]
  <2>1. CASE SaveOpens(s)
    BY <2>1, Opening, FileTruncated DEF SaveOpens
  <2>2. CASE SaveWrites(s)
    <3>1. save[s].fd \in Paths \cup {None}
      BY DEF FileInv, Save
    <3> QED BY <2>2, <3>1, Writing, FileWritten DEF SaveWrites
  <2> QED BY <2>1, <2>2
       DEF FileInv, TimerFires, SaveArrives, SaveFails, ConnectionLost, SaveAnswered
<1>4. EditorFact(editor') /\ AgentFact(agent') /\ calls' \in 0 .. MaxCalls
  BY <1>1 DEF SaveTurns, FileInv
<1>5. crossed' \in BOOLEAN /\ newest' \in Saves \cup {None} /\ sending' \in Content \cup {None}
  BY DEF FileInv, TimerFires, SaveArrives, SaveOpens, SaveWrites, SaveFails, ConnectionLost, SaveAnswered
<1> QED BY <1>2, <1>3, <1>4, <1>5 DEF FileInv

LEMMA ToolKeepsTypes == FileInv /\ ToolStep => FileInv'
<1> SUFFICES ASSUME FileInv, ToolStep PROVE FileInv'
  OBVIOUS
<1>1. AgentFact(NoCall)
  BY NothingIs DEF AgentFact
<1>2. ASSUME NEW p \in Paths, DeleteDraft(p) PROVE FileInv'
  <2>1. file' \in [Paths -> File \cup {None}] /\ Begun
    BY <1>2 DEF DeleteDraft, FileInv
  <2> QED BY <1>2, <2>1, Followed, GoneIs, DraftsAreTyped DEF DeleteDraft, Begun, FileInv
<1>3. ASSUME NEW p \in Paths, NEW q \in Paths, MoveDraft(p, q) PROVE FileInv'
  <2>1. file' \in [Paths -> File \cup {None}] /\ Begun
    BY <1>3 DEF MoveDraft, FileInv
  <2> DEFINE moved == [Gone(q) EXCEPT ![p] = q]
  <2>2. moved \in [Paths -> Paths \cup {None}]
    BY GoneIs
  <2>3. Follow(moved) /\ UNCHANGED <<editor, agent>>
    BY <1>3 DEF MoveDraft
  <2> HIDE DEF moved
  <2>4. save' \in [Saves -> Save] /\ \A s \in Saves : SaveFact(save'[s], editor'.path # None)
    BY <2>2, <2>3, Followed
  <2> QED BY <2>1, <2>3, <2>4, DraftsAreTyped DEF Begun, FileInv
<1>4. ASSUME NEW p \in Paths, NEW action \in {"update_draft", "mock_send"}, NEW c \in File \cup {None},
             Call(action, p, c), action = "update_draft" => c \in File
      PROVE  FileInv'
  <2>1. AgentFact(agent')
    BY <1>4 DEF Call, AgentFact, Agent
  <2> QED BY <1>4, <2>1, DraftsAreTyped DEF Call, Begun, FileInv
<1>5. ASSUME NEW p \in Paths, NEW t \in Texts, UpdateDraft(p, t) PROVE FileInv'
  BY <1>5, <1>4, FilesAre DEF UpdateDraft
<1>6. ASSUME NEW p \in Paths, MockSend(p) PROVE FileInv'
  BY <1>6, <1>4 DEF MockSend
<1>7. CASE SendReads
  <2>1. agent.path \in Paths /\ file[agent.path] \in File
    BY <1>7, NothingIs DEF SendReads, FileInv, AgentFact
  <2>2. agent' = [[agent EXCEPT !.step = "read"] EXCEPT !.content = file[agent.path]]
    BY <1>7 DEF SendReads
  <2>3. AgentFact(agent')
    BY <1>7, <2>1, <2>2, NothingIs DEF SendReads, FileInv, AgentFact, Agent
  <2> QED BY <1>7, <2>3 DEF SendReads, FileInv
<1>8. CASE CallOpens
  <2>1. agent # NoCall /\ agent.path \in Paths
    BY <1>8, NothingIs DEF CallOpens, FileInv, AgentFact
  <2>2. Destination \in Paths
    BY <2>1, FilesAre DEF Destination
  <2>3. agent' = [[agent EXCEPT !.step = "opened"] EXCEPT !.fd = Destination]
    BY <1>8 DEF CallOpens
  <2>4. AgentFact(agent')
    BY <1>8, <2>1, <2>2, <2>3, NothingIs DEF CallOpens, FileInv, AgentFact, Agent
  <2> QED BY <1>8, <2>2, <2>4, FileTruncated DEF CallOpens, FileInv
<1>9. CASE CallWrites
  <2>1. agent # NoCall /\ agent.content \in File /\ agent.fd \in Paths \cup {None}
    BY <1>9, NothingIs DEF CallWrites, FileInv, AgentFact, Agent
  <2>2. Outgoing \in File
    BY <2>1, FilesAre DEF Outgoing, Content
  <2>3. AgentFact([[agent EXCEPT !.step = "written"] EXCEPT !.fd = None])
    BY <2>1, NothingIs DEF FileInv, AgentFact, Agent
  <2>4. AgentFact(agent')
    BY <1>9, <1>1, <2>3 DEF CallWrites
  <2> QED BY <1>9, <2>1, <2>2, <2>4, FileWritten DEF CallWrites, FileInv
<1>10. CASE RemoveSent
  <2>1. agent.path \in Paths
    BY <1>10, NothingIs DEF RemoveSent, FileInv, AgentFact
  <2>2. file' \in [Paths -> File \cup {None}]
    BY <1>10 DEF RemoveSent, FileInv
  <2> QED BY <1>10, <1>1, <2>1, <2>2, Followed, GoneIs DEF RemoveSent, FileInv
<1>11. CASE CallFails
  BY <1>11, <1>1 DEF CallFails, FileInv
<1> QED BY <1>2, <1>3, <1>5, <1>6, <1>7, <1>8, <1>9, <1>10, <1>11 DEF ToolStep

LEMMA FilesKeepTypes == FileInv /\ [Next]_vars => FileInv'
<1>1. FileInv /\ UNCHANGED draftVars => FileInv'
  BY DEF draftVars, FileInv
<1> QED BY <1>1, DraftsOrNot, EditorKeepsTypes, SavesKeepTypes, ToolKeepsTypes

LEMMA FilesStart == DraftInit => FileInv
<1> SUFFICES ASSUME DraftInit PROVE FileInv
  OBVIOUS
<1>1. file \in [Paths -> File \cup {None}]
  BY FilesAre DEF DraftInit, Content
<1>2. AgentFact(agent) /\ EditorFact(editor)
  BY NothingIs DEF DraftInit, AgentFact
<1>3. save \in [Saves -> Save] /\ \A s \in Saves : SaveFact(save[s], editor.path # None)
  BY NothingIs DEF DraftInit, SaveFact
<1>4. /\ calls \in 0 .. MaxCalls /\ crossed \in BOOLEAN /\ newest \in Saves \cup {None}
      /\ sending \in Content \cup {None}
  <2>1. 0 \in 0 .. MaxCalls
    BY DraftsAreTyped
  <2> QED BY <2>1 DEF DraftInit
<1> QED BY <1>1, <1>2, <1>3, <1>4 DEF FileInv

-----------------------------------------------------------------------------
(* "Saved".  Until somebody overtakes the autosave posted last, its file   *)
(* goes through its steps and nothing else touches it once it is open:     *)
(* what it leaves is what was posted.  Earlier ones end before it opens,   *)
(* or fail, or are answered while the editor still waits for it.           *)

OnlyOpen(s) == \A u \in Saves \ {s} : save[u].step # "opened"

NewestFact(s) ==
  /\ save[s] # NoSave
  /\ save[s].heard => save[s].path = editor.path /\ save[s].content = Serialized(editor.last)
  /\ ~save[s].heard => editor.state # "saved"
  /\ save[s].step = "opened" =>
       save[s].fd = save[s].path /\ file[save[s].path] = Empty /\ OnlyOpen(s)
  /\ save[s].ok =>
       save[s].step = "answered" /\ file[save[s].path] = save[s].content /\ OnlyOpen(s)

NothingNewer ==
  editor.state = "saved" =>
    /\ file[editor.path] = Serialized(editor.last)
    /\ \A u \in Saves : save[u].step # "opened"

NewestInv ==
  ~crossed =>
    /\ agent = NoCall
    /\ newest # None => NewestFact(newest)
    /\ newest = None => NothingNewer

(* An autosave that opens no file goes on.                                 *)
LEMMA OthersStayShut ==
  ASSUME FileInv, NEW s \in Saves, SaveTurns(s, save'[s]), save'[s].step # "opened"
  PROVE  /\ \A u \in Saves : save[u].step # "opened" => save'[u].step # "opened"
         /\ \A u \in Saves : OnlyOpen(u) => OnlyOpen(u)'
<1>1. \A u \in Saves \ {s} : save'[u] = save[u]
  BY SaveMoves DEF SaveTurns
<1> QED BY <1>1 DEF OnlyOpen

(* A step of an earlier autosave that the newest does not notice: it       *)
(* leaves the files alone, or the newest has none open or written.         *)
LEMMA EarlierGoesOn ==
  ASSUME FileInv, NewestInv, ~crossed, ~crossed', NEW s \in Saves, s # newest,
         SaveTurns(s, save'[s]), UNCHANGED newest, save'[s].step # "opened",
         editor'.last = editor.last, editor'.state = editor.state \/ editor'.state = "error",
         save[s].step # "opened" => UNCHANGED file
  PROVE  NewestInv'
<1>1. \A u \in Saves \ {s} : save'[u] = save[u]
  BY SaveMoves DEF SaveTurns
<1>2. editor'.path = editor.path /\ agent' = NoCall
  BY DEF SaveTurns, NewestInv
<1>3. CASE newest # None
  <2>1. newest \in Saves \ {s} /\ NewestFact(newest)
    BY <1>3 DEF FileInv, NewestInv
  <2>2. save'[newest] = save[newest]
    BY <1>1, <2>1
  <2>3. save[newest].step = "opened" \/ save[newest].ok => UNCHANGED file /\ OnlyOpen(newest)'
    <3>1. save[newest].step = "opened" \/ save[newest].ok => OnlyOpen(newest)
      BY <2>1 DEF NewestFact
    <3>2. OnlyOpen(newest) => save[s].step # "opened"
      BY <2>1 DEF OnlyOpen
    <3> QED BY <2>1, <3>1, <3>2, OthersStayShut
  <2>4. NewestFact(newest)'
    BY <1>2, <2>1, <2>2, <2>3 DEF NewestFact
  <2> QED BY <1>2, <1>3, <2>4 DEF NewestInv
<1>4. CASE newest = None
  <2>1. NothingNewer
    BY <1>4 DEF NewestInv
  <2>2. NothingNewer'
    BY <1>2, <2>1, OthersStayShut DEF NothingNewer
  <2> QED BY <1>2, <1>4, <2>2 DEF NewestInv
<1> QED BY <1>3, <1>4

(* A step of the newest.                                                   *)
LEMMA NewestGoesOn ==
  ASSUME FileInv, NewestInv, ~crossed, NEW s \in Saves, s = newest, UNCHANGED newest,
         SaveTurns(s, save'[s]), NewestFact(s)'
  PROVE  NewestInv'
<1>1. s # None /\ agent' = NoCall
  BY DraftsAreTyped DEF SaveTurns, NewestInv
<1> QED BY <1>1 DEF NewestInv

LEMMA NewestIs == FileInv /\ NewestInv /\ ~crossed /\ newest # None => newest \in Saves /\ NewestFact(newest)
BY DEF FileInv, NewestInv

(* The editor's own steps touch no file and begin no autosave.             *)
LEMMA NewestEditorStep ==
  ASSUME FileInv, NewestInv, EditorStep, ~crossed'
  PROVE  NewestInv'
<1>1. ASSUME NEW p \in Paths, OpenEditor(p) PROVE NewestInv'
  <2>1. /\ UNCHANGED <<file, save, agent, newest, crossed>> /\ editor.path = None
        /\ editor'.state = "idle"
    BY <1>1 DEF OpenEditor
  <2>2. \A s \in Saves : ~save[s].heard
    BY <2>1 DEF FileInv, SaveFact
  <2>3. newest # None => NewestFact(newest)'
    BY <2>1, <2>2, NewestIs DEF NewestFact, OnlyOpen
  <2> QED BY <2>1, <2>3 DEF NewestInv, NothingNewer
<1>2. ASSUME NEW t \in Texts, Edit(t) PROVE NewestInv'
  <2>1. editor' = [[editor EXCEPT !.payload = t] EXCEPT !.timer = (t # editor.last)]
    BY <1>2 DEF Edit
  <2>2. editor'.path = editor.path /\ editor'.last = editor.last /\ editor'.state = editor.state
    BY <2>1 DEF FileInv, EditorFact, Editor
  <2>3. UNCHANGED <<file, save, agent, newest, crossed>>
    BY <1>2 DEF Edit
  <2>4. newest # None => NewestFact(newest)'
    BY <2>2, <2>3, NewestIs DEF NewestFact, OnlyOpen
  <2> QED BY <2>2, <2>3, <2>4 DEF NewestInv, NothingNewer
<1>3. CASE CloseEditor
  <2>1. UNCHANGED <<file, agent, newest, crossed>> /\ editor'.state # "saved"
    BY <1>3, NothingIs DEF CloseEditor
  <2>2. ASSUME NEW s \in Saves
        PROVE  /\ ~save'[s].heard /\ save'[s].step = save[s].step /\ save'[s].fd = save[s].fd
               /\ save'[s].path = save[s].path /\ save'[s].ok = save[s].ok
               /\ save'[s].content = save[s].content
    <3>1. save[s] \in Save /\ save'[s] = [save[s] EXCEPT !.heard = FALSE]
      BY <1>3 DEF CloseEditor, FileInv
    <3> QED BY <3>1 DEF Save
  <2>3. newest # None => NewestFact(newest)'
    <3>1. ASSUME newest # None PROVE NewestFact(newest)'
      <4>1. newest \in Saves /\ NewestFact(newest)
        BY <2>1, <3>1, NewestIs
      <4>2. save'[newest] # NoSave
        BY <2>2, <4>1, NothingIs DEF NewestFact, FileInv, SaveFact
      <4>3. OnlyOpen(newest) => OnlyOpen(newest)'
        BY <2>1, <2>2 DEF OnlyOpen
      <4> QED BY <2>1, <2>2, <4>1, <4>2, <4>3 DEF NewestFact
    <3> QED BY <3>1
  <2> QED BY <2>1, <2>3 DEF NewestInv, NothingNewer
<1> QED BY <1>1, <1>2, <1>3 DEF EditorStep

LEMMA NewestSaveStep ==
  ASSUME FileInv, NewestInv, NEW s \in Saves, ~crossed',
         \/ TimerFires(s) \/ SaveArrives(s, TRUE) \/ SaveArrives(s, FALSE) \/ SaveOpens(s)
         \/ SaveWrites(s) \/ SaveFails(s) \/ ConnectionLost(s) \/ SaveAnswered(s)
  PROVE  NewestInv'
<1>s. s # None /\ save[s] \in Save
  BY DraftsAreTyped DEF FileInv
<1>1. CASE TimerFires(s)
  <2>1. newest' = s /\ agent = NoCall
    BY <1>1 DEF TimerFires
  <2>2. NewestFact(s)'
    BY <1>1, Posting DEF NewestFact, SaveTurns
  <2> QED BY <1>s, <1>1, <2>1, <2>2, Posting DEF NewestInv, SaveTurns
<1>2. ASSUME NEW b \in BOOLEAN, SaveArrives(s, b) PROVE NewestInv'
  <2>1. UNCHANGED <<file, editor, newest, crossed>>
    BY <1>2 DEF SaveArrives
  <2>2. SaveTurns(s, save'[s]) /\ save'[s] # NoSave /\ save'[s].step # "opened" /\ save[s].step = "posted"
    BY <1>2, Arriving
  <2>3. CASE s = newest
    <3>1. NewestFact(s)
      BY <1>s, <2>1, <2>3, NewestIs
    <3>2. PICK x \in {"routed", "answered"} : save'[s] = [save[s] EXCEPT !.step = x]
      BY <1>2, Arriving
    <3>3. ~save[s].ok
      BY <2>2, <3>1 DEF NewestFact
    <3>4. NewestFact(s)'
      BY <1>s, <2>1, <2>2, <3>1, <3>2, <3>3 DEF NewestFact, Save
    <3> QED BY <2>1, <2>2, <2>3, <3>4, NewestGoesOn
  <2> QED BY <2>1, <2>2, <2>3, EarlierGoesOn
<1>3. CASE SaveOpens(s)
  <2>1. /\ UNCHANGED <<editor, newest>> /\ ~crossed /\ file'[save[s].path] = Empty
        /\ IF s = newest THEN OnlyOpen(s) ELSE NewestWaits
    BY <1>3, Opening, FileTruncated DEF SaveOpens, OnlyOpen
  <2>2. /\ SaveTurns(s, save'[s]) /\ save[s].step = "routed" /\ save'[s] # NoSave
        /\ save'[s] = [[save[s] EXCEPT !.step = "opened"] EXCEPT !.fd = save[s].path]
    BY <1>3, Opening
  <2>3. \A u \in Saves \ {s} : save'[u] = save[u]
    BY <2>2, SaveMoves DEF SaveTurns
  <2>4. CASE s = newest
    <3>1. NewestFact(s)
      BY <1>s, <2>1, <2>4, NewestIs
    <3>2. ~save[s].ok /\ OnlyOpen(s)'
      BY <2>1, <2>2, <2>3, <2>4, <3>1 DEF NewestFact, OnlyOpen
    <3>3. NewestFact(s)'
      BY <1>s, <2>1, <2>2, <3>1, <3>2 DEF NewestFact, Save
    <3> QED BY <2>1, <2>2, <2>4, <3>3, NewestGoesOn
  <2>5. CASE s # newest
    <3>1. newest \in Saves \ {s} /\ NewestFact(newest) /\ save[newest].step \in {"posted", "routed"}
      BY <2>1, <2>5, NewestIs DEF NewestWaits
    <3>2. save'[newest] = save[newest] /\ ~save[newest].ok
      BY <2>3, <3>1 DEF NewestFact
    <3>3. NewestFact(newest)'
      BY <2>1, <3>1, <3>2 DEF NewestFact
    <3>4. newest # None /\ agent' = NoCall
      BY <2>1, <2>2, <3>1, DraftsAreTyped DEF SaveTurns, NewestInv
    <3> QED BY <2>1, <3>3, <3>4 DEF NewestInv
  <2> QED BY <2>4, <2>5
<1>4. CASE SaveWrites(s)
  <2>1. UNCHANGED <<editor, newest, crossed>> /\ Fill(save[s].fd, save[s].content)
    BY <1>4 DEF SaveWrites
  <2>2. /\ SaveTurns(s, save'[s]) /\ save[s].step = "opened" /\ save'[s].step = "answered"
        /\ save'[s] # NoSave /\ save[s].path \in Paths
    BY <1>4, Writing DEF FileInv, SaveFact
  <2>3. CASE s = newest
    <3>1. NewestFact(s)
      BY <1>s, <2>1, <2>3, NewestIs
    <3>2. OnlyOpen(s) /\ OnlyOpen(s)'
      BY <2>2, <3>1, OthersStayShut DEF NewestFact
    <3>3. file'[save[s].path] = save[s].content
      BY <2>1, <2>2, <3>1, FilesAre DEF NewestFact, Fill, FileInv
    <3>4. NewestFact(s)'
      BY <1>4, <2>1, <2>2, <3>1, <3>2, <3>3, Writing DEF NewestFact
    <3> QED BY <2>1, <2>2, <2>3, <3>4, NewestGoesOn
  <2> QED BY <2>1, <2>2, <2>3, EarlierGoesOn
<1>5. CASE SaveFails(s)
  <2>1. UNCHANGED <<file, editor, newest, crossed>>
    BY <1>5 DEF SaveFails
  <2>2. SaveTurns(s, save'[s]) /\ save'[s] # NoSave /\ save'[s].step = "answered"
    BY <1>5, Failing
  <2>3. CASE s = newest
    <3>1. NewestFact(s)
      BY <1>s, <2>1, <2>3, NewestIs
    <3>2. OnlyOpen(s) => OnlyOpen(s)'
      BY <2>2, OthersStayShut
    <3>3. NewestFact(s)'
      BY <1>5, <2>1, <2>2, <3>1, <3>2, Failing DEF NewestFact
    <3> QED BY <2>1, <2>2, <2>3, <3>3, NewestGoesOn
  <2> QED BY <2>1, <2>2, <2>3, EarlierGoesOn
<1>6. CASE ConnectionLost(s)
  <2>1. UNCHANGED <<file, newest, crossed>>
    BY <1>6 DEF ConnectionLost
  <2>2. /\ SaveTurns(s, save'[s]) /\ save[s] # NoSave
        /\ save'[s] = [save[s] EXCEPT !.heard = FALSE]
    BY <1>6, Losing
  <2>3. editor'.state = "error" /\ editor'.path = editor.path /\ editor'.last = editor.last
    BY <1>6, Losing DEF FileInv, EditorFact, Editor
  <2>4. /\ ~save'[s].heard /\ save'[s].step = save[s].step /\ save'[s].fd = save[s].fd
        /\ save'[s].path = save[s].path /\ save'[s].ok = save[s].ok
        /\ save'[s].content = save[s].content
    BY <1>s, <2>2 DEF Save
  <2>5. \A u \in Saves : save'[u].step = save[u].step
    BY <2>2, <2>4, SaveMoves DEF SaveTurns
  <2>6. \A u \in Saves : OnlyOpen(u) => OnlyOpen(u)'
    BY <2>5 DEF OnlyOpen
  <2>7. agent' = NoCall
    BY <2>1, <2>2 DEF SaveTurns, NewestInv
  <2>8. CASE newest = None
    BY <2>1, <2>3, <2>7, <2>8 DEF NewestInv, NothingNewer
  <2>9. CASE newest # None
    <3>1. newest \in Saves /\ NewestFact(newest)
      BY <2>1, <2>9, NewestIs
    <3>2. save'[newest] # NoSave
      <4>1. save[s].step # "none" /\ save[newest].step # "none"
        BY <2>2, <3>1 DEF FileInv, SaveFact, NewestFact
      <4> QED BY <2>5, <3>1, <4>1, NothingIs
    <3>3. newest # s => save'[newest] = save[newest]
      BY <2>2, <3>1, SaveMoves DEF SaveTurns
    <3>4. NewestFact(newest)'
      <4>1. CASE newest = s
        BY <2>1, <2>3, <2>4, <2>6, <3>1, <3>2, <4>1 DEF NewestFact
      <4>2. CASE newest # s
        BY <2>1, <2>3, <2>6, <3>1, <3>3, <4>2 DEF NewestFact
      <4> QED BY <4>1, <4>2
    <3> QED BY <2>1, <2>7, <2>9, <3>4 DEF NewestInv
  <2> QED BY <2>8, <2>9
<1>7. CASE SaveAnswered(s)
  <2>1. UNCHANGED <<file, agent>> /\ ~crossed /\ (save[s].heard /\ s # newest => NewestHeard)
    BY <1>7 DEF SaveAnswered
  <2>2. SaveTurns(s, NoSave) /\ save[s].step = "answered"
    BY <1>7, Answering
  <2>3. save'[s] = NoSave /\ \A u \in Saves \ {s} : save'[u] = save[u]
    BY <2>2, NothingIs, SaveMoves DEF SaveTurns
  <2>4. /\ \A u \in Saves : save[u].step # "opened" => save'[u].step # "opened"
        /\ \A u \in Saves : OnlyOpen(u) => OnlyOpen(u)'
    BY <2>3, NothingIs DEF OnlyOpen
  <2>5. /\ editor'.path = editor.path /\ editor'.last = editor.last
        /\ editor'.state = IF save[s].heard THEN StateOf(s) ELSE editor.state
    BY <1>7, Answering DEF FileInv, EditorFact, Editor
  <2>6. agent' = NoCall
    BY <2>1 DEF NewestInv
  <2>7. CASE s = newest
    <3>1. NewestFact(s) /\ newest' = None
      BY <1>s, <1>7, <2>1, <2>7, NewestIs DEF SaveAnswered
    <3>2. NothingNewer'
      <4>1. ASSUME editor'.state = "saved"
            PROVE  file[editor.path] = Serialized(editor.last) /\ OnlyOpen(s)
        <5>1. save[s].heard /\ save[s].ok
          BY <2>5, <3>1, <4>1 DEF NewestFact, StateOf
        <5> QED BY <3>1, <5>1 DEF NewestFact
      <4>2. OnlyOpen(s) => \A u \in Saves : save'[u].step # "opened"
        BY <2>3, NothingIs DEF OnlyOpen
      <4> QED BY <2>1, <2>5, <4>1, <4>2 DEF NothingNewer
    <3> QED BY <2>6, <3>1, <3>2 DEF NewestInv
  <2>8. CASE s # newest /\ newest # None
    <3>1. newest \in Saves \ {s} /\ NewestFact(newest) /\ newest' = newest
      BY <1>7, <2>1, <2>8, NewestIs DEF SaveAnswered
    <3>2. save'[newest] = save[newest]
      BY <2>3, <3>1
    <3>3. ~save[newest].heard => editor'.state = editor.state
      BY <2>1, <2>5, <2>8 DEF NewestHeard
    <3>4. NewestFact(newest)'
      BY <2>1, <2>4, <2>5, <3>1, <3>2, <3>3 DEF NewestFact
    <3> QED BY <2>6, <2>8, <3>1, <3>4 DEF NewestInv
  <2>9. CASE s # newest /\ newest = None
    <3>1. ~save[s].heard /\ newest' = None
      BY <1>7, <2>1, <2>9 DEF SaveAnswered, NewestHeard
    <3>2. NothingNewer'
      BY <2>1, <2>4, <2>5, <2>9, <3>1 DEF NewestInv, NothingNewer
    <3> QED BY <2>6, <3>1, <3>2 DEF NewestInv
  <2> QED BY <2>7, <2>8, <2>9
<1> QED BY <1>1, <1>2, <1>3, <1>4, <1>5, <1>6, <1>7

LEMMA NewestStep == FileInv /\ NewestInv /\ [Next]_vars => NewestInv'
<1> SUFFICES ASSUME FileInv, NewestInv, [Next]_vars, ~crossed' PROVE NewestInv'
  BY DEF NewestInv
<1>1. CASE UNCHANGED draftVars
  BY <1>1 DEF draftVars, NewestInv, NewestFact, NothingNewer, OnlyOpen
<1>2. CASE SaveStep
  BY <1>2, NewestSaveStep DEF SaveStep
<1>3. CASE ToolStep
  <2>1. ~Begun
    BY DEF Begun
  <2>2. SendReads \/ CallOpens \/ CallWrites \/ RemoveSent \/ CallFails
    BY <1>3, <2>1 DEF ToolStep, DeleteDraft, MockSend, MoveDraft, UpdateDraft, Call
  <2>3. agent # NoCall /\ ~crossed
    BY <2>2, NothingIs DEF SendReads, CallOpens, CallWrites, RemoveSent, CallFails
  <2> QED BY <2>3 DEF NewestInv
<1> QED BY <1>1, <1>2, <1>3, NewestEditorStep, DraftsOrNot

-----------------------------------------------------------------------------
(* Sending.  From its read to its end a mock_send that nobody disturbs has *)
(* the text in the draft, and when it removes the draft also in sent/.     *)

NoSaves == \A s \in Saves : save[s] = NoSave

AsSent(c) == [c EXCEPT !.kind = "sent"]

SendingFact ==
  /\ agent.action = "mock_send" /\ agent.path \in Drafts
  /\ agent.content = sending /\ file[agent.path] = sending
  /\ agent.step \in {"read", "opened", "written"}
  /\ agent.step = "opened" => agent.fd = Sent[agent.path] /\ file[Sent[agent.path]] = Empty
  /\ agent.step = "written" => file[Sent[agent.path]] = AsSent(sending)

Kept == \E p \in Paths : file[p] = sending \/ file[p] = AsSent(sending)

SendInv ==
  sending # None =>
    /\ NoSaves
    /\ agent # NoCall => SendingFact
    /\ agent = NoCall => Kept

LEMMA Quiet ==
  ASSUME FileInv, SendInv, sending' # None, UNCHANGED <<file, agent, sending>>, NoSaves'
  PROVE  SendInv'
BY DEF SendInv, SendingFact, Kept

LEMMA SendStep == FileInv /\ SendInv /\ [Next]_vars => SendInv'
<1> SUFFICES ASSUME FileInv, SendInv, [Next]_vars, sending' # None PROVE SendInv'
  BY DEF SendInv
<1>1. CASE UNCHANGED draftVars \/ EditorStep
  <2>1. UNCHANGED <<file, agent, sending>>
    BY <1>1 DEF draftVars, EditorStep, OpenEditor, Edit, CloseEditor
  <2>2. NoSaves
    BY <2>1 DEF SendInv
  <2>3. save' = save \/ save' = [s \in Saves |-> [save[s] EXCEPT !.heard = FALSE]]
    BY <1>1 DEF draftVars, EditorStep, OpenEditor, Edit, CloseEditor
  <2>4. NoSaves'
    BY <2>2, <2>3, NothingIs DEF NoSaves
  <2> QED BY <2>1, <2>4, Quiet
<1>2. CASE SaveStep
  <2>1. PICK s \in Saves :
          \/ TimerFires(s) \/ SaveArrives(s, TRUE) \/ SaveArrives(s, FALSE) \/ SaveOpens(s)
          \/ SaveWrites(s) \/ SaveFails(s) \/ ConnectionLost(s) \/ SaveAnswered(s)
    BY <1>2 DEF SaveStep
  <2>2. ~TimerFires(s)
    BY DEF TimerFires
  <2>3. save[s] # NoSave
    BY <2>1, <2>2, Arriving, Opening, Writing, Failing, Losing, Answering
  <2>4. sending # None
    BY <2>1, <2>2 DEF SaveArrives, SaveOpens, SaveWrites, SaveFails, ConnectionLost, SaveAnswered
  <2> QED BY <2>3, <2>4 DEF SendInv, NoSaves
<1>3. CASE SendReads
  <2>1. /\ file[agent.path] \in Content /\ agent.path \in Drafts /\ NoSaves
        /\ sending' = file[agent.path] /\ UNCHANGED <<file, save>>
    BY <1>3 DEF SendReads, NoSaves
  <2>2. agent' = [[agent EXCEPT !.step = "read"] EXCEPT !.content = file[agent.path]]
    BY <1>3 DEF SendReads
  <2>3. /\ agent'.step = "read" /\ agent'.content = file[agent.path]
        /\ agent'.path = agent.path /\ agent'.action = agent.action
    BY <2>2 DEF FileInv, AgentFact, Agent
  <2>4. agent.action = "mock_send" /\ agent' # NoCall
    BY <1>3, <2>3, NothingIs DEF SendReads
  <2> QED BY <2>1, <2>3, <2>4 DEF SendInv, SendingFact, NoSaves
<1>4. CASE CallOpens
  <2>1. sending # None /\ agent # NoCall /\ UNCHANGED <<save, sending>>
    BY <1>4, NothingIs DEF CallOpens
  <2>2. SendingFact /\ NoSaves
    BY <2>1 DEF SendInv
  <2>3. Destination = Sent[agent.path] /\ Sent[agent.path] # agent.path
        /\ Sent[agent.path] \in Paths /\ agent.path \in Paths
    BY <2>2, FilesAre DEF SendingFact, Destination
  <2>4. file'[Sent[agent.path]] = Empty /\ file'[agent.path] = file[agent.path]
    BY <1>4, <2>3, FileTruncated DEF CallOpens
  <2>5. agent' = [[agent EXCEPT !.step = "opened"] EXCEPT !.fd = Sent[agent.path]]
    BY <1>4, <2>3 DEF CallOpens
  <2>6. /\ agent'.step = "opened" /\ agent'.fd = Sent[agent.path] /\ agent'.content = agent.content
        /\ agent'.path = agent.path /\ agent'.action = agent.action
    BY <2>5 DEF FileInv, AgentFact, Agent
  <2>7. agent' # NoCall /\ SendingFact'
    BY <2>1, <2>2, <2>4, <2>6, NothingIs DEF SendingFact
  <2> QED BY <2>1, <2>2, <2>7 DEF SendInv, NoSaves
<1>5. CASE CallWrites
  <2>1. sending # None /\ agent # NoCall /\ agent.step = "opened" /\ UNCHANGED <<save, sending>>
    BY <1>5, NothingIs DEF CallWrites
  <2>2. SendingFact /\ NoSaves /\ sending \in Content
    BY <2>1 DEF SendInv, FileInv
  <2>3. Sent[agent.path] # agent.path /\ Sent[agent.path] \in Paths /\ agent.path \in Paths /\ agent.fd # None
    BY <2>1, <2>2, FilesAre DEF SendingFact
  <2>4. Outgoing = AsSent(sending)
    BY <2>2 DEF SendingFact, Outgoing, AsSent
  <2>5. file' = [file EXCEPT ![Sent[agent.path]] = AsSent(sending)]
    BY <1>5, <2>1, <2>2, <2>3, <2>4 DEF CallWrites, Fill, SendingFact
  <2>6. file'[Sent[agent.path]] = AsSent(sending) /\ file'[agent.path] = file[agent.path]
    BY <2>3, <2>5 DEF FileInv
  <2>7. agent' = [[agent EXCEPT !.step = "written"] EXCEPT !.fd = None]
    BY <1>5, <2>2 DEF CallWrites, SendingFact
  <2>8. /\ agent'.step = "written" /\ agent'.content = agent.content
        /\ agent'.path = agent.path /\ agent'.action = agent.action
    BY <2>7 DEF FileInv, AgentFact, Agent
  <2>9. agent' # NoCall /\ SendingFact'
    BY <2>1, <2>2, <2>6, <2>8, NothingIs DEF SendingFact, AsSent
  <2> QED BY <2>1, <2>2, <2>9 DEF SendInv, NoSaves
<1>6. CASE RemoveSent
  <2>1. sending # None /\ agent # NoCall /\ agent.step = "written" /\ UNCHANGED sending /\ agent' = NoCall
    BY <1>6, NothingIs DEF RemoveSent
  <2>2. SendingFact /\ NoSaves
    BY <2>1 DEF SendInv
  <2>3. Sent[agent.path] # agent.path /\ Sent[agent.path] \in Paths
    BY <2>2, FilesAre DEF SendingFact
  <2>4. file'[Sent[agent.path]] = AsSent(sending)
    BY <1>6, <2>1, <2>2, <2>3 DEF RemoveSent, SendingFact, FileInv
  <2>5. Kept'
    BY <2>1, <2>3, <2>4 DEF Kept, AsSent
  <2>6. NoSaves'
    BY <1>6, <2>2, NothingIs DEF RemoveSent, Follow, NoSaves
  <2> QED BY <2>1, <2>5, <2>6 DEF SendInv
<1>7. CASE CallFails
  <2>1. sending # None /\ agent # NoCall /\ UNCHANGED <<file, save, sending>> /\ agent' = NoCall
    BY <1>7 DEF CallFails
  <2>2. SendingFact /\ NoSaves
    BY <2>1 DEF SendInv
  <2>3. Kept
    BY <2>2, FilesAre DEF SendingFact, Kept
  <2> QED BY <2>1, <2>2, <2>3 DEF SendInv, NoSaves, Kept
<1>8. CASE ToolStep /\ Begun
  BY <1>8 DEF Begun
<1>9. ToolStep => Begun \/ SendReads \/ CallOpens \/ CallWrites \/ RemoveSent \/ CallFails
  BY DEF ToolStep, DeleteDraft, MockSend, MoveDraft, UpdateDraft, Call
<1> QED BY <1>1, <1>2, <1>3, <1>4, <1>5, <1>6, <1>7, <1>8, <1>9, DraftsOrNot

-----------------------------------------------------------------------------
(* The theorems.                                                           *)

IInv == HostInv /\ FileInv /\ NewestInv /\ SendInv

(* The host, the files and what becomes of the last autosave, together.    *)
THEOREM Invariant == Spec => []IInv
<1>1. Init => IInv
  <2> SUFFICES ASSUME HostInit, DraftInit PROVE IInv
    BY DEF Init
  <2>1. NewestInv /\ SendInv
    BY NothingIs DEF DraftInit, NewestInv, NothingNewer, SendInv
  <2> QED BY <2>1, HostStarts, FilesStart DEF IInv
<1>2. IInv /\ [Next]_vars => IInv'
  BY HostOrNot, HostStep, FilesKeepTypes, NewestStep, SendStep DEF IInv
<1> QED BY <1>1, <1>2, PTL DEF Spec

(* Every handler and every call of the file system keeps the types.        *)
THEOREM TypeCorrect == Spec => []TypeOK
<1>1. IInv => TypeOK
  BY DEF IInv, HostInv, FileInv, AgentFact, EditorFact, Editor, Save, Agent, TypeOK, DraftTypeOK
<1> QED BY <1>1, Invariant, PTL

(* Only bridge calls and upgrades with the owner's token pass the host,    *)
(* and none once it is disposed of: cleared secrets authorise nobody       *)
(* (standaloneHostAuth.ts).                                                *)
THEOREM OnlyTheOwnerEverPasses == Spec => OnlyTheOwnerPasses
<1>1. IInv /\ [Next]_vars =>
        [\A r \in Requests :
           LetThrough(r)' /\ ~LetThrough(r) => request'[r].token = "owner" /\ ~disposed]_hostVars
  BY HostOrNot, OnlyTheOwnerSteps DEF IInv
<1> QED BY <1>1, Invariant, PTL DEF Spec, OnlyTheOwnerPasses

(* An editor that is told "saved", has nothing left to post and has heard   *)
(* of its last autosave has its text in the file, unless the tool wrote or *)
(* an earlier autosave overtook the last: wrote while it wrote or after    *)
(* it, or was answered after it (MailDraftEditor.tsx).                     *)
THEOREM SavedAlwaysMeansSaved == Spec => []SavedMeansSaved
<1>1. IInv => SavedMeansSaved
  <2> SUFFICES ASSUME IInv, editor.path # None, editor.state = "saved", ~editor.timer, ~crossed, newest = None
               PROVE  Holds(editor.path, Serialized(editor.payload))
    BY DEF SavedMeansSaved
  <2>1. file[editor.path] = Serialized(editor.last)
    BY DEF IInv, NewestInv, NothingNewer
  <2>2. editor.payload = editor.last /\ editor.payload \in Texts
    BY DEF IInv, FileInv, EditorFact
  <2> QED BY <2>1, <2>2, FilesAre, NoneIsNoFile DEF Holds
<1> QED BY <1>1, Invariant, PTL

(* mock_send of a draft keeps the text it read in one of the two files,    *)
(* whichever of its steps fails, while nobody else writes                  *)
(* (mailAgentTool.ts).                                                     *)
THEOREM SendAlwaysKeepsTheText == Spec => []SendKeepsTheText
<1>1. IInv => SendKeepsTheText
  <2> SUFFICES ASSUME IInv, sending # None
               PROVE  \E p \in Paths : Holds(p, sending) \/ Holds(p, AsSent(sending))
    BY DEF SendKeepsTheText, AsSent
  <2>1. Kept
    BY FilesAre DEF IInv, SendInv, SendingFact, Kept
  <2>2. AsSent(sending) \in File
    BY FilesAre DEF IInv, FileInv, AsSent, Content
  <2> QED BY <2>1, <2>2, NoneIsNoFile DEF Kept, Holds
<1> QED BY <1>1, Invariant, PTL
=============================================================================
