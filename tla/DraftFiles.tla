----------------------------- MODULE DraftFiles -----------------------------
(***************************************************************************)
(* Draft files and those who write them: the editor, which posts what was  *)
(* typed a moment after the last keystroke, and the mail tool of the       *)
(* agent.  Every step of either is one call of the file system, and the    *)
(* steps of two of them may interleave.                                    *)
(***************************************************************************)
EXTENDS Naturals

CONSTANTS
  Drafts,       \* paths of drafts
  Texts,        \* the fields and body of a draft, its layout left out
  Saves,        \* ids of autosaves in flight
  MaxCalls,     \* bound: calls of the mail tool that change files
  None

VARIABLES
  file,      \* what each path holds, None where there is no file
  editor,    \* MailDraftEditor, on the draft it was opened for
  save,      \* autosaves in flight
  agent,     \* the call of the mail tool in progress
  calls,     \* how many there have been
  newest,    \* history: the autosave posted last, None once it is answered
  crossed,   \* history: others wrote since, or an earlier autosave overtook it
  sending    \* history: what the last mock_send read, until others write

draftVars == <<file, editor, save, agent, calls, newest, crossed, sending>>

Sent == [d \in Drafts |-> <<"sent", d>>]       \* sent/<basename>
Paths == Drafts \cup {Sent[d] : d \in Drafts}

ASSUME DraftsAreTyped ==
  /\ MaxCalls \in Nat
  /\ None \notin Texts /\ None \notin Paths /\ None \notin Saves

(* A draft is outside sent/.                                               *)
ASSUME SentIsApart == Drafts \cap {Sent[d] : d \in Drafts} = {}

(* A truncated file, and one that holds parts of two drafts.               *)
Empty == [text |-> None, kind |-> "empty"]
Torn == [text |-> None, kind |-> "torn"]

Content == [text : Texts, kind : {"draft", "sent"}]
File == Content \cup {Empty, Torn}
ASSUME NoneIsNoFile == None \notin File

(* The editor and the mail tool write the kind of a draft whatever the     *)
(* file was; the editor reads the text alone.                              *)
Serialized(t) == [text |-> t, kind |-> "draft"]

Holds(p, c) == file[p] # None /\ file[p] = c

(* heard: the editor that posted it still waits for the answer.            *)
NoSave == [step |-> "none", path |-> None, content |-> None, fd |-> None,
           ok |-> FALSE, heard |-> FALSE]
NoCall == [step |-> "none", action |-> None, path |-> None, content |-> None, fd |-> None]
NoEditor == [path |-> None, payload |-> None, last |-> None, timer |-> FALSE, state |-> "idle"]

DraftInit ==
  /\ \E d \in Drafts, t \in Texts :
       file = [p \in Paths |-> IF p = d THEN [text |-> t, kind |-> "draft"] ELSE None]
  /\ editor = NoEditor
  /\ save = [s \in Saves |-> NoSave]
  /\ agent = NoCall
  /\ calls = 0
  /\ newest = None
  /\ crossed = FALSE
  /\ sending = None

DraftTypeOK ==
  /\ file \in [Paths -> File \cup {None}]
  /\ editor \in [path : Paths \cup {None}, payload : Texts \cup {None},
                 last : Texts \cup {None}, timer : BOOLEAN, state : {"idle", "saved", "error"}]
  /\ save \in [Saves -> [step : {"none", "posted", "routed", "opened", "answered"},
                         path : Paths \cup {None}, content : Content \cup {None},
                         fd : Paths \cup {None}, ok : BOOLEAN, heard : BOOLEAN]]
  /\ agent \in [step : {"none", "ready", "read", "opened", "written"},
                action : {"update_draft", "mock_send"} \cup {None}, path : Paths \cup {None},
                content : File \cup {None}, fd : Paths \cup {None}]
  /\ calls \in 0 .. MaxCalls /\ newest \in Saves \cup {None} /\ crossed \in BOOLEAN
  /\ sending \in Content \cup {None}

(***************************************************************************)
(* writeFile: open and truncate, then write at offset 0                    *)
(***************************************************************************)
Truncate(p) == file' = [file EXCEPT ![p] = Empty]

(* A writer whose file was removed or replaced writes to nobody; a second  *)
(* writer on the same file leaves the tail of a longer text.               *)
Fill(fd, c) ==
  IF fd = None THEN UNCHANGED file
  ELSE \E f \in IF file[fd] = Empty THEN {c} ELSE {c, Torn} : file' = [file EXCEPT ![fd] = f]

(* Open files follow a rename, and outlive the removal of their name.      *)
Follow(moved) ==
  save' = [s \in Saves |-> IF save[s].fd # None THEN [save[s] EXCEPT !.fd = moved[@]] ELSE save[s]]

Gone(p) == [x \in Paths |-> IF x = p THEN None ELSE x]

(***************************************************************************)
(* The editor                                                              *)
(***************************************************************************)
(* MailDraftFilePanel loads the file; the editor starts with no payload    *)
(* remembered, so that its effect arms the timer.  A truncated or torn     *)
(* file opens as one more text; bound: none is loaded here.                *)
OpenEditor(p) ==
  /\ editor.path = None
  /\ file[p] \in Content
  /\ editor' = [path |-> p, payload |-> file[p].text, last |-> None,
                timer |-> TRUE, state |-> "idle"]
  /\ UNCHANGED <<file, save, agent, calls, newest, crossed, sending>>

(* The cleanup of the old effect clears its timer; the new effect arms one *)
(* unless this is what was posted last.                                    *)
Edit(t) ==
  /\ editor.path # None /\ t # editor.payload
  /\ editor' = [editor EXCEPT !.payload = t, !.timer = t # editor.last]
  /\ UNCHANGED <<file, save, agent, calls, newest, crossed, sending>>

CloseEditor ==
  /\ editor.path # None
  /\ editor' = NoEditor
  /\ save' = [s \in Saves |-> [save[s] EXCEPT !.heard = FALSE]]
  /\ UNCHANGED <<file, agent, calls, newest, crossed, sending>>

TimerFires(s) ==
  /\ editor.timer
  /\ save[s] = NoSave
  /\ editor' = [editor EXCEPT !.last = editor.payload, !.timer = FALSE]
  /\ save' = [save EXCEPT ![s] = [step |-> "posted", path |-> editor.path, fd |-> None,
                                  content |-> Serialized(editor.payload), ok |-> FALSE,
                                  heard |-> TRUE]]
  /\ newest' = s
  /\ crossed' = (agent # NoCall)
  /\ sending' = None
  /\ UNCHANGED <<file, agent, calls>>

(* The host forwards the request, or answers 401, or cannot be reached.    *)
SaveArrives(s, admitted) ==
  /\ save[s].step = "posted"
  /\ save' = [save EXCEPT ![s].step = IF admitted THEN "routed" ELSE "answered"]
  /\ UNCHANGED <<file, editor, agent, calls, newest, crossed, sending>>

(* The newest autosave has yet to touch the file, or to be answered.       *)
NewestWaits == newest # None /\ save[newest].step \in {"posted", "routed"}
NewestHeard == newest # None /\ save[newest].heard

(* It is overtaken when it writes together with another, or another after. *)
SaveOpens(s) ==
  /\ save[s].step = "routed"
  /\ save' = [save EXCEPT ![s].step = "opened", ![s].fd = save[s].path]
  /\ Truncate(save[s].path)
  /\ crossed' = (crossed \/ IF s = newest THEN \E u \in Saves \ {s} : save[u].step = "opened"
                            ELSE ~NewestWaits)
  /\ UNCHANGED <<editor, agent, calls, newest, sending>>

SaveWrites(s) ==
  /\ save[s].step = "opened"
  /\ Fill(save[s].fd, save[s].content)
  /\ save' = [save EXCEPT ![s].step = "answered", ![s].fd = None, ![s].ok = TRUE]
  /\ UNCHANGED <<editor, agent, calls, newest, crossed, sending>>

(* mkdir, open or write throws: the route answers 500. *)
SaveFails(s) ==
  /\ save[s].step \in {"routed", "opened"}
  /\ save' = [save EXCEPT ![s].step = "answered", ![s].fd = None]
  /\ UNCHANGED <<file, editor, agent, calls, newest, crossed, sending>>

(* fetch rejects; what the request began goes on. *)
ConnectionLost(s) ==
  /\ save[s].heard
  /\ save' = [save EXCEPT ![s].heard = FALSE]
  /\ editor' = [editor EXCEPT !.state = "error"]
  /\ UNCHANGED <<file, agent, calls, newest, crossed, sending>>

(* fetch resolves for every answer; only response.ok tells them apart. *)
StateOfAny(s) == "saved"
StateOf(s) == IF save[s].ok THEN "saved" ELSE "error"

(* Or when the editor hears of another after it.                           *)
SaveAnswered(s) ==
  /\ save[s].step = "answered"
  /\ save' = [save EXCEPT ![s] = NoSave]
  /\ editor' = IF save[s].heard THEN [editor EXCEPT !.state = StateOf(s)] ELSE editor
  /\ newest' = IF s = newest THEN None ELSE newest
  /\ crossed' = (crossed \/ (save[s].heard /\ s # newest /\ ~NewestHeard))
  /\ UNCHANGED <<file, agent, calls, sending>>

(***************************************************************************)
(* The mail tool                                                           *)
(***************************************************************************)
(* What a call that changes files begins with. *)
Begun ==
  /\ agent = NoCall /\ calls < MaxCalls
  /\ calls' = calls + 1
  /\ crossed' = TRUE
  /\ sending' = None
  /\ UNCHANGED newest

Call(action, p, content) ==
  /\ Begun
  /\ agent' = [step |-> "ready", action |-> action, path |-> p, content |-> content,
               fd |-> None]
  /\ UNCHANGED <<file, editor, save>>

(* create_draft and update_draft are one. *)
UpdateDraft(p, t) ==
  Call("update_draft", p, Serialized(t))

MockSend(p) == Call("mock_send", p, None)

SendReads ==
  /\ agent.step = "ready" /\ agent.action = "mock_send"
  /\ file[agent.path] # None
  /\ agent' = [agent EXCEPT !.step = "read", !.content = file[agent.path]]
  /\ sending' = IF file[agent.path] \in Content /\ agent.path \in Drafts
                   /\ \A s \in Saves : save[s] = NoSave
                THEN file[agent.path] ELSE None
  /\ UNCHANGED <<file, editor, save, calls, newest, crossed>>

Destination == IF agent.action = "mock_send" /\ agent.path \in Drafts THEN Sent[agent.path]
               ELSE agent.path

(* content.replace changes the kind, where the text has it. *)
Outgoing ==
  IF agent.action = "mock_send" /\ agent.content \in Content
  THEN [agent.content EXCEPT !.kind = "sent"]
  ELSE agent.content

CallOpens ==
  /\ \/ agent.step = "ready" /\ agent.action = "update_draft"
     \/ agent.step = "read"
  /\ Truncate(Destination)
  /\ agent' = [agent EXCEPT !.step = "opened", !.fd = Destination]
  /\ UNCHANGED <<editor, save, calls, newest, crossed, sending>>

CallWrites ==
  /\ agent.step = "opened"
  /\ Fill(agent.fd, Outgoing)
  /\ agent' = IF agent.action = "mock_send"
              THEN [agent EXCEPT !.step = "written", !.fd = None]
              ELSE NoCall
  /\ UNCHANGED <<editor, save, calls, newest, crossed, sending>>

RemoveSent ==
  /\ agent.step = "written"
  /\ file' = [file EXCEPT ![agent.path] = None]
  /\ Follow(Gone(agent.path))
  /\ agent' = NoCall
  /\ UNCHANGED <<editor, calls, newest, crossed, sending>>

CallFailsAndCleansUp ==
  /\ agent # NoCall
  /\ agent' = NoCall
  /\ file' = [file EXCEPT ![agent.path] = None]
  /\ Follow(Gone(agent.path))
  /\ UNCHANGED <<editor, calls, newest, crossed, sending>>
CallFails ==
  /\ agent # NoCall
  /\ agent' = NoCall
  /\ UNCHANGED <<file, editor, save, calls, newest, crossed, sending>>

DeleteDraft(p) ==
  /\ Begun
  /\ file' = [file EXCEPT ![p] = None]
  /\ Follow(Gone(p))
  /\ UNCHANGED <<editor, agent>>

MoveDraft(p, q) ==
  /\ Begun
  /\ file[p] # None /\ p # q
  /\ file' = [file EXCEPT ![q] = file[p], ![p] = None]
  /\ Follow([Gone(q) EXCEPT ![p] = q])
  /\ UNCHANGED <<editor, agent>>

(* Without what passes the host: OpenEditor and SaveArrives. *)
DraftNext ==
  \/ \E p \in Paths : DeleteDraft(p) \/ MockSend(p)
  \/ \E p \in Paths, q \in Paths : MoveDraft(p, q)
  \/ \E p \in Paths, t \in Texts : UpdateDraft(p, t)
  \/ \E t \in Texts : Edit(t)
  \/ CloseEditor
  \/ \E s \in Saves :
       \/ TimerFires(s) \/ SaveOpens(s) \/ SaveWrites(s)
       \/ SaveFails(s) \/ ConnectionLost(s) \/ SaveAnswered(s)
  \/ SendReads \/ CallOpens \/ CallWrites \/ RemoveSent \/ CallFails

-----------------------------------------------------------------------------
(* An editor that is told "saved", has nothing left to post and has heard   *)
(* of its last autosave has its text in the file, unless the tool wrote or *)
(* an earlier autosave overtook the last: wrote while it wrote or after    *)
(* it, or was answered after it.  Autosaves in flight together that do     *)
(* none of this are included, and those that fail or are refused.          *)
SavedMeansSaved ==
  /\ editor.path # None /\ editor.state = "saved" /\ ~editor.timer
  /\ newest = None
  /\ ~crossed
  => Holds(editor.path, Serialized(editor.payload))

(* mock_send never leaves the text it read in neither file, whichever of   *)
(* its steps fails, while nobody else writes; of a draft, that is: it      *)
(* removes a file of sent/ that is sent again.                             *)
SendKeepsTheText ==
  sending # None =>
    \E p \in Paths : Holds(p, sending) \/ Holds(p, [sending EXCEPT !.kind = "sent"])
=============================================================================
