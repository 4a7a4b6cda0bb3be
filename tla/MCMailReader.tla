---------------------------- MODULE MCMailReader ----------------------------
EXTENDS MailReader, TLC

TheSources == {1, 2}
TheConversations == {1, 2}
TheBodies == {[chars |-> 1, width |-> 1], [chars |-> 3, width |-> 1], [chars |-> 3, width |-> 2]}
TheRecipients == {list \in [rows : {0, 2, 3}, refused : {0, 1}] : list.refused <= list.rows}

Plain == [source |-> 1, conversation |-> 1, email |-> TRUE, sent |-> 2, received |-> NoTime,
          rfc |-> None, to |-> None, flaw |-> "none", body |-> None,
          recipients |-> [rows |-> 0, refused |-> 0], attachments |-> 0]

Holding(mail) ==
  [mail    |-> mail,
   live    |-> Messages,
   sources |-> [s \in Sources |-> IF s = 1 THEN {"x1"} ELSE {"x2"}],
   owner   |-> [c \in Conversations |-> c]]

(* Listings: copies in two sources, sent to one of them or to the other,   *)
(* with times that tie, differ or are missing, next to mail without an id, *)
(* under a message that takes a place in the window and is no mail.        *)
Copied(s, t, x) == [Plain EXCEPT !.source = s, !.conversation = s, !.sent = t, !.rfc = "i1", !.to = x]
Lone(s, t) == [Plain EXCEPT !.source = s, !.conversation = s, !.sent = t]
Chat == [Plain EXCEPT !.email = FALSE, !.sent = NoTime, !.received = 3]

Listed == {Copied(s, t, x) : s \in Sources, t \in {NoTime, 2, 3}, x \in {"x1", "x2"}}
          \cup {Lone(1, t) : t \in {NoTime, 2, 3}}

Inbox(a, b, c) ==
  [Holding((1 :> a) @@ (2 :> b) @@ (3 :> c) @@ (4 :> Chat) @@ (5 :> Chat)) EXCEPT !.live = 1 .. 4]

Listings ==
  {Inbox(a, b, c) :
     a \in {Copied(1, 2, "x2"), Copied(2, 3, "x1"), Lone(1, NoTime), Lone(2, 3)},
     b \in Listed, c \in Listed}

(* Threads: which messages are within reach, and what they hold.           *)
Odd == {Plain, Chat, [Plain EXCEPT !.flaw = "row"], [Plain EXCEPT !.flaw = "body"], [Plain EXCEPT !.source = 2]}

Neighbours ==
  {Holding([m \in Messages |-> [(IF m = 2 THEN o ELSE Plain) EXCEPT !.sent = t[m]]]) :
     t \in {f \in [Messages -> {2, 3, 4}] : f[4] = 3 /\ f[5] = 3}, o \in Odd}
  \cup {[Holding([m \in Messages |-> [Plain EXCEPT !.sent = t[m]]]) EXCEPT !.live = Messages \ {2}] :
     t \in [Messages -> {NoTime, 3}]}

Held(body, recipients, attachments) ==
  [Plain EXCEPT !.body = body, !.recipients = recipients, !.attachments = attachments]

Holds == {Held([chars |-> 1, width |-> 1], [rows |-> 2, refused |-> 1], 0),
          Held([chars |-> 3, width |-> 1], [rows |-> 0, refused |-> 0], 3),
          Held([chars |-> 3, width |-> 2], [rows |-> 2, refused |-> 0], 1),
          Held(None, [rows |-> 3, refused |-> 0], 1)}

Filled ==
  {Holding([m \in Messages |-> [h[m] EXCEPT !.sent = 2 * (6 - m)]]) :
     h \in {f \in [Messages -> Holds] : f[3] = f[4] /\ f[4] = f[5]}}

(* Two sources that trade a message and their addresses.                   *)
Traded ==
  {Inbox(Copied(1, 2, "x1"), Copied(2, 2, "x1"), o) : o \in {Lone(2, 3)}}

TheArchives == Listings \cup Neighbours \cup Filled \cup Traded
=============================================================================
