------------------------ MODULE MailStoreCallProofs ------------------------
(***************************************************************************)
(* What callers are told is true, late effects precede a reopen, and the   *)
(* store implements its contract, for any number of hosts, clients,        *)
(* databases, entries and calls: on top of the inductive invariant of      *)
(* MailStoreProofs, where the copies of a call may be.  A call is in one   *)
(* inbox at most, and once; its answer is made when it leaves the inbox,   *)
(* and read before its entry stops, or never.                              *)
(***************************************************************************)
EXTENDS MailStoreProofs, MailStoreContract

Queued(e, q) == \E i \in DOMAIN inbox[e] : inbox[e][i] = q
Told(e, m) == \E i \in DOMAIN outbox[e] : outbox[e][i] = m
Made(q) == call[q].operation \in rows[call[q].db]

Once(e) ==
  /\ \A i, j \in DOMAIN inbox[e] : inbox[e][i] = inbox[e][j] /\ inbox[e][i] \in Calls => i = j
  /\ \A i, j \in DOMAIN outbox[e] :
       /\ outbox[e][i].kind = "answer" /\ outbox[e][j].kind = "answer"
       /\ outbox[e][i].call = outbox[e][j].call
       => i = j

(* An entry of a host has a database; a store is ready when its process    *)
(* has the locks.                                                          *)
EntryServes(e) ==
  /\ entry[e].host # None => entry[e].db \in Databases
  /\ entry[e].ready = "resolved" => storage[e].phase # "locking"

CallFact(q) ==
  /\ call[q].phase = "none" => q \notin effect /\ \A e \in Entries : ~Queued(e, q)
  /\ call[q].phase # "none" => call[q].db \in Databases /\ call[q].operation \in Operations
  /\ call[q].phase = "pending" =>
       /\ call[q].entry \in Entries /\ call[q].host \in Hosts
       /\ entry[call[q].entry].host = call[q].host /\ entry[call[q].entry].db = call[q].db
       /\ ~entry[call[q].entry].stopped
  /\ call[q].phase = "ok" => Made(q)
  /\ q \in effect => call[q].phase \in {"pending", "lost", "ok"} /\ Made(q)

(* A call on its way has not taken effect, and is waited for unless its    *)
(* entry has stopped.                                                      *)
QueueFact(e, q) ==
  Queued(e, q) =>
    /\ call[q].phase \in {"pending", "lost"} /\ call[q].db = entry[e].db /\ q \notin effect
    /\ entry[e].stopped \/ (call[q].phase = "pending" /\ call[q].entry = e)
    /\ \A f \in Entries : Queued(f, q) => f = e

(* An answer on its way is the truth about a call that waits for it.       *)
MessageFact(e, m) ==
  Told(e, m) =>
    /\ m.kind = "ready" => storage[e].phase # "locking"
    /\ m.kind = "answer" =>
         /\ m.call \in Calls /\ call[m.call].phase = "pending" /\ call[m.call].entry = e
         /\ \A f \in Entries : ~Queued(f, m.call)
         /\ IF m.ok THEN Made(m.call) ELSE m.call \notin effect

(* One effect per operation and database.                                  *)
Distinct ==
  \A q, r \in effect : call[q].operation = call[r].operation /\ call[q].db = call[r].db => q = r

RowsFact == \A d \in Databases : rows[d] \subseteq Operations

CallInv ==
  /\ \A e \in Entries : Once(e) /\ EntryServes(e) /\ \A m \in Message : MessageFact(e, m)
  /\ \A q \in Calls : CallFact(q) /\ \A e \in Entries : QueueFact(e, q)
  /\ Distinct /\ RowsFact

-----------------------------------------------------------------------------
(* Queues.                                                                 *)

LEMMA TailAt ==
  ASSUME NEW S, NEW s \in Seq(S), s # <<>>
  PROVE  /\ 1 \in DOMAIN s /\ s[1] = Head(s) /\ Head(s) \in S
         /\ \A i \in DOMAIN Tail(s) : i + 1 \in DOMAIN s /\ Tail(s)[i] = s[i + 1] /\ i \in Nat \ {0}
<1>1. Len(s) \in Nat \ {0} /\ DOMAIN s = 1 .. Len(s) /\ Head(s) = s[1] /\ Head(s) \in S
  BY EmptySeq, HeadTailProperties
<1>2. Tail(s) \in Seq(S) /\ Len(Tail(s)) = Len(s) - 1 /\ \A i \in 1 .. Len(Tail(s)) : Tail(s)[i] = s[i + 1]
  BY HeadTailProperties
<1>3. DOMAIN Tail(s) = 1 .. Len(Tail(s))
  BY <1>2
<1> QED BY <1>1, <1>2, <1>3

LEMMA AppendAt ==
  ASSUME NEW S, NEW s \in Seq(S), NEW x \in S
  PROVE  /\ \A i \in DOMAIN s : i \in DOMAIN Append(s, x) /\ Append(s, x)[i] = s[i]
         /\ \A i \in DOMAIN Append(s, x) :
              \/ i \in DOMAIN s /\ Append(s, x)[i] = s[i]
              \/ i = Len(s) + 1 /\ Append(s, x)[i] = x
         /\ Len(s) + 1 \in DOMAIN Append(s, x) /\ Append(s, x)[Len(s) + 1] = x
<1>1. /\ Append(s, x) \in Seq(S) /\ Len(Append(s, x)) = Len(s) + 1 /\ Append(s, x)[Len(s) + 1] = x
      /\ \A i \in 1 .. Len(s) : Append(s, x)[i] = s[i]
  BY AppendProperties
<1>2. /\ DOMAIN s = 1 .. Len(s) /\ DOMAIN Append(s, x) = 1 .. Len(s) + 1 /\ Len(s) \in Nat
  BY <1>1
<1> QED BY <1>1, <1>2

InboxOnce(e) == \A i, j \in DOMAIN inbox[e] : inbox[e][i] = inbox[e][j] /\ inbox[e][i] \in Calls => i = j
OutboxOnce(e) ==
  \A i, j \in DOMAIN outbox[e] :
    /\ outbox[e][i].kind = "answer" /\ outbox[e][j].kind = "answer"
    /\ outbox[e][i].call = outbox[e][j].call
    => i = j

LEMMA OnceIs == \A e : Once(e) <=> InboxOnce(e) /\ OutboxOnce(e)
BY DEF Once, InboxOnce, OutboxOnce

(* Nothing enters the inboxes, or nothing the outboxes.                    *)
InboxesShrink == \A f \in Entries : InboxOnce(f)' /\ \A q \in Calls : Queued(f, q)' => Queued(f, q)
OutboxesShrink == \A f \in Entries : OutboxOnce(f)' /\ \A m \in Message : Told(f, m)' => Told(f, m)

LEMMA InboxSame == ASSUME CallInv, inbox' = inbox PROVE InboxesShrink
BY DEF InboxesShrink, InboxOnce, Queued, CallInv, Once

LEMMA OutboxSame == ASSUME CallInv, outbox' = outbox PROVE OutboxesShrink
BY DEF OutboxesShrink, OutboxOnce, Told, CallInv, Once

LEMMA InboxClears ==
  ASSUME Typed, CallInv, NEW e \in Entries, inbox' = [inbox EXCEPT ![e] = <<>>]
  PROVE  InboxesShrink /\ \A q \in Calls : ~Queued(e, q)'
<1>1. inbox'[e] = <<>> /\ \A f \in Entries \ {e} : inbox'[f] = inbox[f]
  BY DEF Typed
<1>2. DOMAIN inbox'[e] = {}
  BY <1>1
<1> QED BY <1>1, <1>2 DEF InboxesShrink, InboxOnce, Queued, CallInv, Once

LEMMA OutboxClears ==
  ASSUME Typed, CallInv, NEW e \in Entries, outbox' = [outbox EXCEPT ![e] = <<>>]
  PROVE  OutboxesShrink /\ \A m \in Message : ~Told(e, m)'
<1>1. outbox'[e] = <<>> /\ \A f \in Entries \ {e} : outbox'[f] = outbox[f]
  BY DEF Typed
<1>2. DOMAIN outbox'[e] = {}
  BY <1>1
<1> QED BY <1>1, <1>2 DEF OutboxesShrink, OutboxOnce, Told, CallInv, Once

LEMMA InboxReads ==
  ASSUME Typed, CallInv, NEW e \in Entries, inbox[e] # <<>>, inbox' = [inbox EXCEPT ![e] = Tail(@)],
         NEW q, q = Head(inbox[e])
  PROVE  /\ InboxesShrink /\ q \in Calls \cup {"close"}
         /\ q \in Calls => Queued(e, q) /\ ~Queued(e, q)'
<1> DEFINE s == inbox[e]
           t == Tail(inbox[e])
<1>1. s \in Seq(Calls \cup {"close"}) /\ s # <<>> /\ inbox'[e] = t /\ \A f \in Entries \ {e} : inbox'[f] = inbox[f]
  BY DEF Typed
<1>2. /\ 1 \in DOMAIN s /\ s[1] = q /\ q \in Calls \cup {"close"}
      /\ \A i \in DOMAIN t : i + 1 \in DOMAIN s /\ t[i] = s[i + 1] /\ i \in Nat \ {0}
  BY <1>1, TailAt
<1>3. \A i, j \in DOMAIN s : s[i] = s[j] /\ s[i] \in Calls => i = j
  BY DEF CallInv, Once
<1>4. \A f \in Entries \ {e} : InboxOnce(f)' /\ \A r \in Calls : Queued(f, r)' => Queued(f, r)
  BY <1>1 DEF InboxOnce, Queued, CallInv, Once
<1> HIDE DEF s, t
<1>5. \A i, j \in DOMAIN t : t[i] = t[j] /\ t[i] \in Calls => i = j
  <2>1. SUFFICES ASSUME NEW i \in DOMAIN t, NEW j \in DOMAIN t, t[i] = t[j], t[i] \in Calls PROVE i = j
    OBVIOUS
  <2>2. i + 1 = j + 1 /\ i \in Nat /\ j \in Nat
    BY <1>2, <1>3, <2>1
  <2> QED BY <2>2
<1>6. \A r : (\E i \in DOMAIN t : t[i] = r) => \E i \in DOMAIN s : s[i] = r
  BY <1>2
<1>7. q \in Calls => \A i \in DOMAIN t : t[i] # q
  <2>1. SUFFICES ASSUME q \in Calls, NEW i \in DOMAIN t, t[i] = q PROVE FALSE
    OBVIOUS
  <2>2. i + 1 = 1 /\ i \in Nat \ {0}
    BY <1>2, <1>3, <2>1
  <2> QED BY <2>2
<1>8. InboxOnce(e)' /\ \A r \in Calls : Queued(e, r)' => Queued(e, r)
  <2>1. InboxOnce(e)'
    <3>1. inbox'[e] = t
      BY <1>1
    <3> QED BY <1>5, <3>1 DEF InboxOnce
  <2>2. \A r \in Calls : Queued(e, r)' => Queued(e, r)
    BY <1>1, <1>6 DEF Queued, s
  <2> QED BY <2>1, <2>2
<1>9. InboxesShrink
  BY <1>4, <1>8 DEF InboxesShrink
<1>10. Queued(e, q) /\ (q \in Calls => ~Queued(e, q)')
  BY <1>1, <1>2, <1>7 DEF Queued, s
<1> QED BY <1>2, <1>9, <1>10

LEMMA OutboxReads ==
  ASSUME Typed, CallInv, NEW e \in Entries, outbox[e] # <<>>, outbox' = [outbox EXCEPT ![e] = Tail(@)],
         NEW x, x = Head(outbox[e])
  PROVE  /\ OutboxesShrink /\ x \in Message /\ Told(e, x)
         /\ x.kind = "answer" => \A m \in Message : Told(e, m)' /\ m.kind = "answer" => m.call # x.call
<1> DEFINE s == outbox[e]
           t == Tail(outbox[e])
<1>1. s \in Seq(Message) /\ s # <<>> /\ outbox'[e] = t /\ \A f \in Entries \ {e} : outbox'[f] = outbox[f]
  BY DEF Typed
<1>2. /\ 1 \in DOMAIN s /\ s[1] = x /\ x \in Message
      /\ \A i \in DOMAIN t : i + 1 \in DOMAIN s /\ t[i] = s[i + 1] /\ i \in Nat \ {0}
  BY <1>1, TailAt
<1>3. \A i, j \in DOMAIN s : s[i].kind = "answer" /\ s[j].kind = "answer" /\ s[i].call = s[j].call => i = j
  BY DEF CallInv, Once
<1>4. \A f \in Entries \ {e} : OutboxOnce(f)' /\ \A m \in Message : Told(f, m)' => Told(f, m)
  BY <1>1 DEF OutboxOnce, Told, CallInv, Once
<1> HIDE DEF s, t
<1>5. \A i, j \in DOMAIN t : t[i].kind = "answer" /\ t[j].kind = "answer" /\ t[i].call = t[j].call => i = j
  <2>1. SUFFICES ASSUME NEW i \in DOMAIN t, NEW j \in DOMAIN t,
                        t[i].kind = "answer", t[j].kind = "answer", t[i].call = t[j].call
                 PROVE i = j
    OBVIOUS
  <2>2. i + 1 = j + 1 /\ i \in Nat /\ j \in Nat
    BY <1>2, <1>3, <2>1
  <2> QED BY <2>2
<1>6. \A m : (\E i \in DOMAIN t : t[i] = m) => \E i \in DOMAIN s : s[i] = m
  BY <1>2
<1>7. x.kind = "answer" => \A i \in DOMAIN t : t[i].kind = "answer" => t[i].call # x.call
  <2>1. SUFFICES ASSUME x.kind = "answer", NEW i \in DOMAIN t, t[i].kind = "answer", t[i].call = x.call
                 PROVE  FALSE
    OBVIOUS
  <2>2. i + 1 = 1 /\ i \in Nat \ {0}
    BY <1>2, <1>3, <2>1
  <2> QED BY <2>2
<1>8. OutboxOnce(e)' /\ \A m \in Message : Told(e, m)' => Told(e, m)
  <2>1. OutboxOnce(e)'
    <3>1. outbox'[e] = t
      BY <1>1
    <3> QED BY <1>5, <3>1 DEF OutboxOnce
  <2>2. \A m \in Message : Told(e, m)' => Told(e, m)
    BY <1>1, <1>6 DEF Told, s
  <2> QED BY <2>1, <2>2
<1>9. OutboxesShrink
  BY <1>4, <1>8 DEF OutboxesShrink
<1>10. Told(e, x)
  BY <1>2 DEF Told, s
<1>11. x.kind = "answer" => \A m \in Message : Told(e, m)' /\ m.kind = "answer" => m.call # x.call
  BY <1>1, <1>7 DEF Told
<1> QED BY <1>2, <1>9, <1>10, <1>11

LEMMA InboxGrows ==
  ASSUME Typed, CallInv, NEW e \in Entries, NEW q \in Calls \cup {"close"},
         q \in Calls => ~Queued(e, q), inbox' = [inbox EXCEPT ![e] = Append(@, q)]
  PROVE  \A f \in Entries : InboxOnce(f)' /\ \A r \in Calls : Queued(f, r)' => Queued(f, r) \/ (f = e /\ r = q)
<1> DEFINE s == inbox[e]
           t == Append(inbox[e], q)
<1>1. s \in Seq(Calls \cup {"close"}) /\ inbox'[e] = t /\ \A f \in Entries \ {e} : inbox'[f] = inbox[f]
  BY DEF Typed
<1>2. /\ \A i \in DOMAIN t : (i \in DOMAIN s /\ t[i] = s[i]) \/ (i = Len(s) + 1 /\ t[i] = q)
  BY <1>1, AppendAt
<1>3. /\ \A i, j \in DOMAIN s : s[i] = s[j] /\ s[i] \in Calls => i = j
      /\ q \in Calls => \A i \in DOMAIN s : s[i] # q
  BY DEF CallInv, Once, Queued
<1>4. \A f \in Entries \ {e} : InboxOnce(f)' /\ \A r \in Calls : Queued(f, r)' => Queued(f, r)
  BY <1>1 DEF InboxOnce, Queued, CallInv, Once
<1> HIDE DEF s, t
<1>5. \A i, j \in DOMAIN t : t[i] = t[j] /\ t[i] \in Calls => i = j
  BY <1>2, <1>3
<1>6. \A r : (\E i \in DOMAIN t : t[i] = r) => r = q \/ \E i \in DOMAIN s : s[i] = r
  BY <1>2
<1>7. InboxOnce(e)' /\ \A r \in Calls : Queued(e, r)' => Queued(e, r) \/ r = q
  <2>1. InboxOnce(e)'
    <3>1. inbox'[e] = t
      BY <1>1
    <3> QED BY <1>5, <3>1 DEF InboxOnce
  <2>2. \A r \in Calls : Queued(e, r)' => Queued(e, r) \/ r = q
    BY <1>1, <1>6 DEF Queued, s
  <2> QED BY <2>1, <2>2
<1> QED BY <1>4, <1>7

LEMMA OutboxGrows ==
  ASSUME Typed, CallInv, NEW e \in Entries, NEW m \in Message, Sends(e, m),
         m.kind = "answer" => \A x \in Message : Told(e, x) /\ x.kind = "answer" => x.call # m.call
  PROVE  \A f \in Entries :
           /\ OutboxOnce(f)'
           /\ \A x \in Message : Told(f, x)' => Told(f, x) \/ (f = e /\ x = m /\ ~entry[e].stopped)
<1>1. CASE entry[e].stopped
  <2>1. OutboxesShrink
    BY <1>1, OutboxSame DEF Sends
  <2> QED BY <2>1 DEF OutboxesShrink
<1>2. CASE ~entry[e].stopped
  <2> DEFINE s == outbox[e]
             t == Append(outbox[e], m)
  <2>1. s \in Seq(Message) /\ outbox'[e] = t /\ \A f \in Entries \ {e} : outbox'[f] = outbox[f]
    BY <1>2 DEF Typed, Sends
  <2>2. \A i \in DOMAIN t : (i \in DOMAIN s /\ t[i] = s[i]) \/ (i = Len(s) + 1 /\ t[i] = m)
    BY <2>1, AppendAt
  <2>3. /\ \A i, j \in DOMAIN s : s[i].kind = "answer" /\ s[j].kind = "answer" /\ s[i].call = s[j].call => i = j
        /\ \A i \in DOMAIN s : m.kind = "answer" /\ s[i].kind = "answer" => s[i].call # m.call
    <3>1. \A i \in DOMAIN s : s[i] \in Message
      BY <2>1
    <3> QED BY <3>1 DEF CallInv, Once, Told
  <2>4. \A f \in Entries \ {e} : OutboxOnce(f)' /\ \A x \in Message : Told(f, x)' => Told(f, x)
    BY <2>1 DEF OutboxOnce, Told, CallInv, Once
  <2> HIDE DEF s, t
  <2>5. \A i, j \in DOMAIN t : t[i].kind = "answer" /\ t[j].kind = "answer" /\ t[i].call = t[j].call => i = j
    BY <2>2, <2>3
  <2>6. \A x : (\E i \in DOMAIN t : t[i] = x) => x = m \/ \E i \in DOMAIN s : s[i] = x
    BY <2>2
  <2>7. OutboxOnce(e)' /\ \A x \in Message : Told(e, x)' => Told(e, x) \/ x = m
    BY <2>1, <2>5, <2>6 DEF OutboxOnce, Told, s
  <2> QED BY <1>2, <2>4, <2>7
<1> QED BY <1>1, <1>2

-----------------------------------------------------------------------------
(* What steps of the same kind do to the calls.                            *)

NoneStarts == \A f \in Entries : storage'[f].phase = "locking" => storage[f].phase = "locking"
Steady ==
  \A f \in Entries : /\ entry'[f].host = entry[f].host /\ entry'[f].db = entry[f].db
                     /\ entry'[f].stopped <=> entry[f].stopped

LEMMA KeptStarts == ASSUME LocksKept PROVE NoneStarts
BY DEF LocksKept, NoneStarts

(* No call moves; a message that enters an outbox is no answer.            *)
LEMMA CallsStay ==
  ASSUME CallInv, Steady, NoneStarts, InboxesShrink, UNCHANGED <<call, rows, effect>>,
         \A f \in Entries :
           /\ OutboxOnce(f)'
           /\ \A m \in Message :
                Told(f, m)' => Told(f, m) \/ (m.kind # "answer" /\ (m.kind = "ready" => storage'[f].phase # "locking"))
           /\ entry'[f].ready = "resolved" => entry[f].ready = "resolved" \/ storage'[f].phase # "locking"
  PROVE  CallInv'
<1>1. \A f \in Entries : Once(f)'
  BY OnceIs DEF InboxesShrink, Once, InboxOnce, OutboxOnce
<1>2. \A f \in Entries : EntryServes(f)'
  BY DEF CallInv, EntryServes, Steady, NoneStarts
<1>3. \A q \in Calls : Made(q)' <=> Made(q)
  BY DEF Made
<1>4. ASSUME NEW q \in Calls PROVE CallFact(q)'
  <2>1. CallFact(q)
    BY DEF CallInv
  <2> QED BY <1>3, <2>1 DEF CallFact, InboxesShrink, Steady
<1>5. ASSUME NEW f \in Entries, NEW q \in Calls PROVE QueueFact(f, q)'
  <2>1. QueueFact(f, q)
    BY DEF CallInv
  <2> QED BY <2>1 DEF QueueFact, InboxesShrink, Steady
<1>6. ASSUME NEW f \in Entries, NEW m \in Message PROVE MessageFact(f, m)'
  <2>1. MessageFact(f, m)
    BY DEF CallInv
  <2> QED BY <1>3, <2>1 DEF MessageFact, InboxesShrink, NoneStarts
<1>7. Distinct' /\ RowsFact'
  BY DEF CallInv, Distinct, RowsFact
<1> QED BY <1>1, <1>2, <1>4, <1>5, <1>6, <1>7 DEF CallInv

(* The entry stops: whoever waits for it is told so, and nobody reads      *)
(* what it still says.                                                     *)
LEMMA CallsLost ==
  ASSUME Typed, CallInv, NEW e \in Entries, call' = Lost(e), outbox' = [outbox EXCEPT ![e] = <<>>],
         UNCHANGED <<inbox, rows, effect>>, NoneStarts, entry'[e].stopped,
         \A f \in Entries : /\ entry'[f].host = entry[f].host /\ entry'[f].db = entry[f].db
                            /\ entry'[f].ready = "resolved" => entry[f].ready = "resolved",
         \A f \in Entries \ {e} : entry'[f] = entry[f]
  PROVE  CallInv'
<1>1. InboxesShrink /\ OutboxesShrink /\ \A m \in Message : ~Told(e, m)'
  BY InboxSame, OutboxClears
<1>2. \A q \in Calls :
        /\ call'[q].operation = call[q].operation /\ call'[q].db = call[q].db
        /\ q \in Pending(e) => call'[q].phase = "lost" /\ call'[q].entry = None
        /\ q \notin Pending(e) => call'[q] = call[q]
  BY LostTyped
<1>3. \A q \in Calls : Made(q)' <=> Made(q)
  BY <1>2 DEF Made
<1>4. \A f \in Entries : Once(f)' /\ EntryServes(f)'
  BY <1>1, OnceIs DEF CallInv, InboxesShrink, OutboxesShrink, Once, InboxOnce, OutboxOnce,
     EntryServes, NoneStarts
<1>5. ASSUME NEW q \in Calls PROVE CallFact(q)'
  <2>1. CallFact(q)
    BY DEF CallInv
  <2>2. CASE q \in Pending(e)
    <3>1. call[q].phase = "pending" /\ call'[q].phase = "lost"
          /\ call'[q].db = call[q].db /\ call'[q].operation = call[q].operation
      BY <1>2, <2>2 DEF Pending
    <3> QED BY <1>3, <2>1, <3>1 DEF CallFact
  <2>3. CASE q \notin Pending(e)
    <3>1. call'[q] = call[q] /\ (call[q].phase = "pending" => call[q].entry # e)
      BY <1>2, <2>3 DEF Pending
    <3> QED BY <1>1, <1>3, <2>1, <3>1 DEF CallFact, InboxesShrink
  <2> QED BY <2>2, <2>3
<1>6. ASSUME NEW f \in Entries, NEW q \in Calls PROVE QueueFact(f, q)'
  <2>1. SUFFICES ASSUME Queued(f, q)'
                 PROVE  /\ call'[q].phase \in {"pending", "lost"} /\ call'[q].db = entry'[f].db
                        /\ q \notin effect'
                        /\ entry'[f].stopped \/ (call'[q].phase = "pending" /\ call'[q].entry = f)
                        /\ \A g \in Entries : Queued(g, q)' => g = f
    BY DEF QueueFact
  <2>2. /\ call[q].phase \in {"pending", "lost"} /\ call[q].db = entry[f].db /\ q \notin effect
        /\ entry[f].stopped \/ (call[q].phase = "pending" /\ call[q].entry = f)
        /\ \A g \in Entries : Queued(g, q)' => g = f
    BY <1>1, <2>1 DEF CallInv, QueueFact, InboxesShrink
  <2>3. call'[q].phase \in {"pending", "lost"} /\ call'[q].db = entry'[f].db
    BY <1>2, <2>2
  <2>4. entry'[f].stopped \/ (call'[q].phase = "pending" /\ call'[q].entry = f)
    <3>1. CASE f = e
      BY <3>1
    <3>2. CASE f # e /\ entry[f].stopped
      BY <3>2
    <3>3. CASE f # e /\ call[q].phase = "pending" /\ call[q].entry = f
      BY <1>2, <3>3 DEF Pending
    <3> QED BY <2>2, <3>1, <3>2, <3>3
  <2> QED BY <2>2, <2>3, <2>4
<1>7. ASSUME NEW f \in Entries, NEW m \in Message PROVE MessageFact(f, m)'
  <2>1. SUFFICES ASSUME Told(f, m)' PROVE MessageFact(f, m)'
    BY DEF MessageFact
  <2>2. f # e /\ Told(f, m) /\ MessageFact(f, m)
    BY <1>1, <2>1 DEF CallInv, OutboxesShrink
  <2>3. m.kind = "answer" => call'[m.call] = call[m.call]
    BY <1>2, <2>2 DEF MessageFact, Pending
  <2>4. m.kind = "answer" => m.call \in Calls /\ (Made(m.call)' <=> Made(m.call))
    BY <1>3, <2>2 DEF MessageFact
  <2> QED BY <1>1, <2>2, <2>3, <2>4 DEF MessageFact, InboxesShrink, NoneStarts
<1>8. Distinct'
  <2>1. \A q \in effect : call'[q].operation = call[q].operation /\ call'[q].db = call[q].db
    BY <1>2 DEF Typed
  <2> QED BY <2>1 DEF CallInv, Distinct
<1>9. RowsFact'
  BY DEF CallInv, RowsFact
<1> QED BY <1>4, <1>5, <1>6, <1>7, <1>8, <1>9 DEF CallInv

-----------------------------------------------------------------------------
(* The steps of the processes.                                             *)

LEMMA ProcessStarts == ASSUME Shaped, NEW e \in Entries, Process(e) PROVE NoneStarts
<1>1. ASSUME NEW ok \in BOOLEAN, Handles(e, ok) PROVE NoneStarts
  BY <1>1 DEF Handles, NoneStarts
<1>2. CASE TakesLock(e) \/ Loads(e) \/ LoadFails(e) \/ HandlesClose(e) \/ Exits(e)
  <2>1. storage[e].phase = "locking" \/ storage'[e].phase \in {"serving", "closed", "exited"}
    BY <1>2 DEF TakesLock, Loads, LoadFails, HandlesClose, Exits, Shaped, Typed, Storage
  <2>2. \A f \in Entries \ {e} : storage'[f] = storage[f]
    BY <1>2 DEF TakesLock, Loads, LoadFails, HandlesClose, Exits, Shaped, Typed, Storage
  <2> QED BY <2>1, <2>2 DEF NoneStarts
<1> QED BY <1>1, <1>2 DEF Process

LEMMA HandlesCalls ==
  ASSUME Shaped, CallInv, NEW e \in Entries, NEW ok \in BOOLEAN, Handles(e, ok)
  PROVE  CallInv'
<1>1. PICK q : q = Head(inbox[e])
  OBVIOUS
<1> DEFINE d == entry[e].db
           m == [kind |-> "answer", call |-> q, ok |-> ok]
<1>2. /\ inbox[e] # <<>> /\ q # "close"
      /\ inbox' = [inbox EXCEPT ![e] = Tail(@)]
      /\ rows' = IF ok THEN [rows EXCEPT ![d] = @ \cup {call[q].operation}] ELSE rows
      /\ effect' = IF ok /\ call[q].operation \notin rows[d] THEN effect \cup {q} ELSE effect
      /\ Sends(e, m)
      /\ UNCHANGED <<file, registry, entry, storage, client, call>>
  BY <1>1 DEF Handles
<1>3. Typed
  BY DEF Shaped
<1>4. InboxesShrink /\ q \in Calls /\ Queued(e, q) /\ ~Queued(e, q)'
  <2>1. inbox[e] # <<>> /\ inbox' = [inbox EXCEPT ![e] = Tail(@)] /\ q = Head(inbox[e]) /\ q # "close"
    BY <1>1, <1>2
  <2>2. /\ InboxesShrink /\ q \in Calls \cup {"close"}
        /\ q \in Calls => Queued(e, q) /\ ~Queued(e, q)'
    BY <1>3, <2>1, InboxReads, Zenon
  <2> QED BY <2>1, <2>2
<1>5. /\ call[q].phase \in {"pending", "lost"} /\ call[q].db = d /\ q \notin effect
      /\ entry[e].stopped \/ (call[q].phase = "pending" /\ call[q].entry = e)
      /\ \A f \in Entries : Queued(f, q) => f = e
  BY <1>4 DEF CallInv, QueueFact
<1>6. d \in Databases /\ call[q].operation \in Operations
  BY <1>4, <1>5 DEF CallInv, CallFact
<1>7. m \in Message /\ m.kind = "answer" /\ m.call = q /\ (m.ok <=> ok)
  BY <1>4 DEF Message
<1>8. \A f \in Entries : \A x \in Message : Told(f, x) /\ x.kind = "answer" => x.call # q
  BY <1>4 DEF CallInv, MessageFact
<1> HIDE DEF m
<1>9. \A f \in Entries :
        /\ OutboxOnce(f)'
        /\ \A x \in Message : Told(f, x)' => Told(f, x) \/ (f = e /\ x = m /\ ~entry[e].stopped)
  BY <1>2, <1>3, <1>7, <1>8, OutboxGrows
<1>10. /\ \A x \in Databases : rows[x] \subseteq rows'[x] /\ rows'[x] \subseteq rows[x] \cup {call[q].operation}
       /\ ok => call[q].operation \in rows'[d]
  BY <1>2, <1>3, <1>6 DEF Typed
<1>11. \A r \in Calls : call[r].db \in Databases /\ Made(r) => Made(r)'
  BY <1>2, <1>10 DEF Made
<1>12. ok => Made(q)'
  BY <1>2, <1>5, <1>10 DEF Made
<1>13. /\ \A r \in effect' : r \in effect \/ (r = q /\ ok)
       /\ effect \subseteq effect' /\ (~ok => q \notin effect')
  BY <1>2, <1>5
<1>14. \A f \in Entries : Once(f)' /\ EntryServes(f)'
  BY <1>2, <1>4, <1>9, OnceIs DEF CallInv, InboxesShrink, Once, InboxOnce, OutboxOnce, EntryServes
<1>15. ASSUME NEW r \in Calls PROVE CallFact(r)'
  <2>1. CallFact(r)
    BY DEF CallInv
  <2>2. r \in effect' => call[r].phase \in {"pending", "lost", "ok"} /\ Made(r)'
    <3>1. CASE r \in effect
      BY <1>11, <2>1, <3>1 DEF CallFact
    <3>2. CASE r = q /\ ok
      BY <1>5, <1>12, <3>2
    <3> QED BY <1>13, <3>1, <3>2
  <2>3. call[r].phase = "none" => r # q
    BY <1>5
  <2>4. call[r].phase = "none" => r \notin effect' /\ \A f \in Entries : ~Queued(f, r)'
    BY <1>4, <1>13, <2>1, <2>3 DEF CallFact, InboxesShrink
  <2> QED BY <1>2, <1>11, <2>1, <2>2, <2>4 DEF CallFact
<1>16. ASSUME NEW f \in Entries, NEW r \in Calls PROVE QueueFact(f, r)'
  <2>1. SUFFICES ASSUME Queued(f, r)' PROVE QueueFact(f, r)'
    BY DEF QueueFact
  <2>2. Queued(f, r) /\ QueueFact(f, r)
    BY <1>4, <2>1 DEF CallInv, InboxesShrink
  <2>3. r # q
    BY <1>4, <1>5, <2>1, <2>2
  <2>4. r \notin effect' /\ \A g \in Entries : Queued(g, r)' => g = f
    BY <1>4, <1>13, <2>2, <2>3 DEF QueueFact, InboxesShrink
  <2> QED BY <1>2, <2>2, <2>4 DEF QueueFact
<1>17. ASSUME NEW f \in Entries, NEW x \in Message PROVE MessageFact(f, x)'
  <2>1. SUFFICES ASSUME Told(f, x)' PROVE MessageFact(f, x)'
    BY DEF MessageFact
  <2>2. CASE Told(f, x)
    <3>1. MessageFact(f, x)
      BY DEF CallInv
    <3>2. x.kind = "answer" => x.call \in Calls /\ x.call # q /\ call[x.call].db \in Databases
      BY <1>8, <2>2, <3>1 DEF MessageFact, CallInv, CallFact
    <3>3. x.kind = "answer" /\ ~x.ok => x.call \notin effect'
      BY <1>13, <2>2, <3>1, <3>2 DEF MessageFact
    <3>4. x.kind = "answer" /\ x.ok => Made(x.call)'
      BY <1>11, <2>2, <3>1, <3>2 DEF MessageFact
    <3> QED BY <1>2, <1>4, <2>2, <3>1, <3>2, <3>3, <3>4 DEF MessageFact, InboxesShrink
  <2>3. CASE f = e /\ x = m /\ ~entry[e].stopped
    <3>1. call[q].phase = "pending" /\ call[q].entry = e
      BY <1>5, <2>3
    <3>2. \A g \in Entries : ~Queued(g, q)'
      BY <1>4, <1>5 DEF InboxesShrink
    <3>3. x.kind = "answer" /\ x.call = q /\ (x.ok <=> ok)
      BY <1>7, <2>3
    <3>4. IF x.ok THEN Made(q)' ELSE q \notin effect'
      BY <1>12, <1>13, <3>3
    <3> QED BY <1>2, <1>4, <2>3, <3>1, <3>2, <3>3, <3>4 DEF MessageFact
  <2> QED BY <1>9, <2>1, <2>2, <2>3
<1>18. Distinct'
  <2>1. SUFFICES ASSUME NEW r \in effect', NEW t \in effect',
                        call[r].operation = call[t].operation, call[r].db = call[t].db
                 PROVE  r = t
    BY <1>2 DEF Distinct
  <2>2. r \in Calls /\ t \in Calls
    BY <1>3, <1>4, <1>13 DEF Typed
  <2>3. CASE r \in effect /\ t \in effect
    BY <2>1, <2>3 DEF CallInv, Distinct
  <2>4. \A u \in effect : q \in effect' => call[u].operation # call[q].operation \/ call[u].db # call[q].db
    <3>1. SUFFICES ASSUME NEW u \in effect, q \in effect', call[u].db = call[q].db
                   PROVE  call[u].operation # call[q].operation
      OBVIOUS
    <3>2. call[q].operation \notin rows[d]
      BY <1>2, <1>5, <3>1
    <3>3. Made(u)
      BY <1>3 DEF CallInv, CallFact, Typed
    <3> QED BY <1>5, <3>1, <3>2, <3>3 DEF Made
  <2> QED BY <1>13, <2>1, <2>3, <2>4
<1>19. RowsFact'
  BY <1>6, <1>10 DEF CallInv, RowsFact
<1> QED BY <1>14, <1>15, <1>16, <1>17, <1>18, <1>19 DEF CallInv

LEMMA ProcessCalls ==
  ASSUME Shaped, CallInv, NEW e \in Entries, Process(e)
  PROVE  CallInv'
<1>1. Typed /\ NoneStarts
  BY ProcessStarts DEF Shaped
<1>2. CASE TakesLock(e) \/ Exits(e)
  <2>1. UNCHANGED <<entry, outbox, call, rows, effect>>
    BY <1>2 DEF TakesLock, Exits, data
  <2>2. InboxesShrink
    <3>1. CASE TakesLock(e)
      BY <3>1, InboxSame DEF TakesLock
    <3>2. CASE Exits(e)
      BY <1>1, <3>2, InboxClears DEF Exits
    <3> QED BY <1>2, <3>1, <3>2
  <2>3. OutboxesShrink
    BY <2>1, OutboxSame
  <2> QED BY <1>1, <2>1, <2>2, <2>3, CallsStay DEF Steady, OutboxesShrink
<1>3. CASE Loads(e) \/ LoadFails(e) \/ HandlesClose(e)
  <2>1. UNCHANGED <<entry, call, rows, effect>>
    BY <1>3 DEF Loads, LoadFails, HandlesClose, data
  <2>2. PICK kind \in {"ready", "failed", "closed"} :
          Sends(e, Notice(kind)) /\ (kind = "ready" => storage' = [storage EXCEPT ![e].phase = "serving"])
    BY <1>3 DEF Loads, LoadFails, HandlesClose
  <2>3. Notice(kind) \in Message /\ Notice(kind).kind = kind
    BY NoticesAreMessages DEF Notice
  <2>4. kind = "ready" => storage'[e].phase # "locking"
    BY <1>1, <2>2 DEF Typed, Storage
  <2>5. \A f \in Entries :
          /\ OutboxOnce(f)'
          /\ \A x \in Message : Told(f, x)' => Told(f, x) \/ (f = e /\ x = Notice(kind) /\ ~entry[e].stopped)
    BY <1>1, <2>2, <2>3, OutboxGrows
  <2>6. InboxesShrink
    <3>1. CASE Loads(e) \/ LoadFails(e)
      BY <3>1, InboxSame DEF Loads, LoadFails
    <3>2. CASE HandlesClose(e)
      <4>1. inbox[e] # <<>> /\ inbox' = [inbox EXCEPT ![e] = Tail(@)]
        BY <3>2 DEF HandlesClose
      <4>2. PICK q : q = Head(inbox[e])
        OBVIOUS
      <4> QED BY <1>1, <4>1, <4>2, InboxReads
    <3> QED BY <1>3, <3>1, <3>2
  <2>7. \A f \in Entries : \A x \in Message :
          Told(f, x)' => Told(f, x) \/ (x.kind # "answer" /\ (x.kind = "ready" => storage'[f].phase # "locking"))
    BY <2>3, <2>4, <2>5
  <2> QED BY <1>1, <2>1, <2>5, <2>6, <2>7, CallsStay DEF Steady
<1>4. ASSUME NEW ok \in BOOLEAN, Handles(e, ok) PROVE CallInv'
  BY <1>4, HandlesCalls
<1> QED BY <1>2, <1>3, <1>4 DEF Process

-----------------------------------------------------------------------------
(* The events of a host.                                                   *)

LEMMA AnsweredCalls ==
  ASSUME Shaped, CallInv, NEW e \in Entries, Answered(e)
  PROVE  CallInv'
<1>1. PICK m : m = Head(outbox[e])
  OBVIOUS
<1> DEFINE q == m.call
<1>2. /\ outbox[e] # <<>> /\ m.kind = "answer"
      /\ call' = [call EXCEPT ![q] = [@ EXCEPT !.phase = IF m.ok THEN "ok" ELSE "error", !.entry = None]]
      /\ outbox' = [outbox EXCEPT ![e] = Tail(@)]
      /\ UNCHANGED <<registry, entry, storage, inbox, client, file, rows, effect>>
  BY <1>1 DEF Answered, Arrives, data
<1>3. Typed
  BY DEF Shaped
<1>4. /\ OutboxesShrink /\ m \in Message /\ Told(e, m)
      /\ \A x \in Message : Told(e, x)' /\ x.kind = "answer" => x.call # q
  BY <1>1, <1>2, <1>3, OutboxReads, Zenon
<1>5. /\ q \in Calls /\ call[q].phase = "pending" /\ call[q].entry = e
      /\ \A f \in Entries : ~Queued(f, q)
      /\ IF m.ok THEN Made(q) ELSE q \notin effect
  BY <1>2, <1>4 DEF CallInv, MessageFact
<1> HIDE DEF q
<1>6. InboxesShrink
  BY <1>2, InboxSame
<1>7. /\ call'[q].operation = call[q].operation /\ call'[q].db = call[q].db
      /\ call'[q].phase = IF m.ok THEN "ok" ELSE "error"
      /\ \A r \in Calls \ {q} : call'[r] = call[r]
  <2>1. PICK phase \in {"ok", "error"} : phase = IF m.ok THEN "ok" ELSE "error"
    OBVIOUS
  <2> DEFINE s == [call[q] EXCEPT !.phase = phase, !.entry = None]
  <2>2. call[q] \in Call
    BY <1>3, <1>5 DEF Typed
  <2>3. s.operation = call[q].operation /\ s.db = call[q].db /\ s.phase = phase
    BY <2>2 DEF Call
  <2>4. call' = [call EXCEPT ![q] = s]
    BY <1>2, <1>3, <2>1 DEF Typed, q
  <2> HIDE DEF s
  <2> QED BY <1>3, <1>5, <2>1, <2>3, <2>4 DEF Typed
<1>8. \A r \in Calls : /\ Made(r)' <=> Made(r)
                       /\ call'[r].operation = call[r].operation /\ call'[r].db = call[r].db
  BY <1>2, <1>7 DEF Made
<1>9. \A f \in Entries : Once(f)' /\ EntryServes(f)'
  BY <1>2, <1>4, <1>6, OnceIs DEF CallInv, InboxesShrink, OutboxesShrink, Once, InboxOnce, OutboxOnce,
     EntryServes
<1>10. ASSUME NEW r \in Calls PROVE CallFact(r)'
  <2>1. CallFact(r)
    BY DEF CallInv
  <2>2. CASE r = q
    <3>1. call'[q].phase \in {"ok", "error"} /\ (call'[q].phase = "ok" => m.ok) /\ (m.ok => call'[q].phase = "ok")
      BY <1>7
    <3>2. q \in effect => m.ok /\ Made(q)'
      BY <1>5, <1>8
    <3>3. m.ok => Made(q)'
      BY <1>5, <1>8
    <3>4. call'[q].db \in Databases /\ call'[q].operation \in Operations
      BY <1>5, <1>8, <2>1, <2>2 DEF CallFact
    <3> QED BY <1>2, <2>2, <3>1, <3>2, <3>3, <3>4 DEF CallFact
  <2>3. CASE r # q
    <3>1. call'[r] = call[r]
      BY <1>7, <2>3
    <3> QED BY <1>2, <1>6, <1>8, <2>1, <3>1 DEF CallFact, InboxesShrink
  <2> QED BY <2>2, <2>3
<1>11. ASSUME NEW f \in Entries, NEW r \in Calls PROVE QueueFact(f, r)'
  <2>1. SUFFICES ASSUME Queued(f, r)' PROVE QueueFact(f, r)'
    BY DEF QueueFact
  <2>2. Queued(f, r) /\ QueueFact(f, r) /\ r # q
    BY <1>5, <1>6, <2>1 DEF CallInv, InboxesShrink
  <2>3. call'[r] = call[r]
    BY <1>7, <2>2
  <2> QED BY <1>2, <1>6, <2>2, <2>3 DEF QueueFact, InboxesShrink
<1>12. ASSUME NEW f \in Entries, NEW x \in Message PROVE MessageFact(f, x)'
  <2>1. SUFFICES ASSUME Told(f, x)' PROVE MessageFact(f, x)'
    BY DEF MessageFact
  <2>2. Told(f, x) /\ MessageFact(f, x)
    BY <1>4, <2>1 DEF CallInv, OutboxesShrink
  <2>3. x.kind = "answer" => x.call \in Calls /\ x.call # q
    <3>1. CASE f = e
      BY <1>4, <2>1, <2>2, <3>1 DEF MessageFact
    <3>2. CASE f # e
      BY <1>5, <2>2, <3>2 DEF MessageFact
    <3> QED BY <3>1, <3>2
  <2>4. x.kind = "answer" => call'[x.call] = call[x.call] /\ (Made(x.call)' <=> Made(x.call))
    BY <1>7, <1>8, <2>3
  <2> QED BY <1>2, <1>6, <2>2, <2>3, <2>4 DEF MessageFact, InboxesShrink
<1>13. Distinct' /\ RowsFact'
  <2>1. \A r \in effect : call'[r].operation = call[r].operation /\ call'[r].db = call[r].db
    BY <1>3, <1>8 DEF Typed
  <2> QED BY <1>2, <2>1 DEF CallInv, Distinct, RowsFact
<1> QED BY <1>9, <1>10, <1>11, <1>12, <1>13 DEF CallInv

LEMMA EventCalls ==
  ASSUME Shaped, CallInv, NEW e \in Entries, Events(e) \/ FailureDisposes(e)
  PROVE  CallInv'
<1>1. Typed /\ entry[e] \in Object
  BY DEF Shaped, Typed
<1>2. CASE StartupFails(e) \/ StartupTimesOut(e) \/ RequestTimesOut(e) \/ ExitSeen(e) \/ SendFails(e)
  <2>1. PICK timedOut \in BOOLEAN : Fails(e, timedOut)
    BY <1>2 DEF StartupFails, StartupTimesOut, RequestTimesOut, ExitSeen, SendFails
  <2>2. PICK o \in Object : o = Failed(entry[e])
    BY <1>1, FailedIs
  <2>3. /\ EntryBecomes(e, o) /\ LocksKept
        /\ call' = Lost(e) /\ outbox' = [outbox EXCEPT ![e] = <<>>]
        /\ UNCHANGED <<inbox, rows, effect>>
    BY <1>1, <2>1, <2>2, FailsMoves DEF data
  <2>4. o.stopped /\ SamePlace(o, entry[e]) /\ (o.ready = "resolved" => entry[e].ready = "resolved")
    BY <1>1, <2>2, FailedIs
  <2>5. entry'[e] = o /\ \A f \in Entries \ {e} : entry'[f] = entry[f]
    BY <1>1, <2>3, Becomes DEF EntryBecomes
  <2> QED BY <1>1, <2>3, <2>4, <2>5, KeptStarts, CallsLost DEF SamePlace
<1>3. CASE CloseAnswered(e)
  <2>2. PICK o \in Object : o = Stopped(entry[e])
    BY <1>1, StoppedIs
  <2>3. /\ EntryBecomes(e, o) /\ LocksKept
        /\ call' = Lost(e) /\ outbox' = [outbox EXCEPT ![e] = <<>>]
        /\ UNCHANGED <<inbox, rows, effect>>
    BY <1>1, <1>3, <2>2, CloseAnsweredMoves DEF CloseAnswered, data
  <2>4. o.stopped /\ SamePlace(o, entry[e]) /\ o.ready = entry[e].ready
    BY <1>1, <2>2, StoppedIs
  <2>5. entry'[e] = o /\ \A f \in Entries \ {e} : entry'[f] = entry[f]
    BY <1>1, <2>3, Becomes DEF EntryBecomes
  <2> QED BY <1>1, <2>3, <2>4, <2>5, KeptStarts, CallsLost DEF SamePlace
<1>4. CASE BecomesReady(e)
  <2>1. PICK m : m = Head(outbox[e])
    OBVIOUS
  <2>2. /\ outbox[e] # <<>> /\ m.kind = "ready" /\ outbox' = [outbox EXCEPT ![e] = Tail(@)]
        /\ UNCHANGED <<storage, inbox, call, rows, effect>>
    BY <1>4, <2>1 DEF BecomesReady, Arrives, data
  <2>3. OutboxesShrink /\ m \in Message /\ Told(e, m)
    BY <1>1, <2>1, <2>2, OutboxReads, Zenon
  <2>4. storage[e].phase # "locking"
    BY <2>2, <2>3 DEF CallInv, MessageFact
  <2>5. PICK o \in Object : o = Answering(entry[e])
    BY <1>1, ReadyIs
  <2>6. EntryBecomes(e, o) /\ SamePlace(o, entry[e]) /\ o.stopped = entry[e].stopped
    BY <1>1, <1>4, <2>5, ReadyMoves, ReadyIs
  <2>7. entry'[e] = o /\ \A f \in Entries \ {e} : entry'[f] = entry[f]
    BY <1>1, <2>6, Becomes DEF EntryBecomes
  <2>8. InboxesShrink /\ NoneStarts /\ Steady
    BY <2>2, <2>6, <2>7, InboxSame DEF NoneStarts, Steady, SamePlace
  <2>9. \A f \in Entries : entry'[f].ready = "resolved" => entry[f].ready = "resolved" \/ storage'[f].phase # "locking"
    BY <2>2, <2>4, <2>7
  <2> QED BY <2>2, <2>3, <2>8, <2>9, CallsStay DEF OutboxesShrink
<1>5. CASE ForceKill(e) \/ DisposalEnds(e) \/ FailureDisposes(e)
  <2>1. UNCHANGED <<inbox, outbox, call, rows, effect>>
    BY <1>5 DEF ForceKill, DisposalEnds, FailureDisposes, data
  <2>2. NoneStarts
    <3>1. CASE ForceKill(e)
      BY <1>1, <3>1 DEF ForceKill, NoneStarts, Typed, Storage
    <3>2. CASE DisposalEnds(e)
      BY <3>2 DEF DisposalEnds, NoneStarts
    <3>3. CASE FailureDisposes(e)
      BY <1>1, <3>3, NoticedMoves, KeptStarts
    <3> QED BY <1>5, <3>1, <3>2, <3>3
  <2>3. Steady /\ \A f \in Entries : entry'[f].ready = entry[f].ready
    <3>1. CASE ForceKill(e)
      BY <3>1 DEF ForceKill, Steady
    <3>2. CASE DisposalEnds(e) \/ FailureDisposes(e)
      <4>1. PICK o \in Object : /\ EntryBecomes(e, o) /\ SamePlace(o, entry[e])
                                /\ o.stopped = entry[e].stopped /\ o.ready = entry[e].ready
        BY <1>1, <3>2, EndsMoves, EndedIs, NoticedMoves, NoticedIs
      <4>2. entry'[e] = o /\ \A f \in Entries \ {e} : entry'[f] = entry[f]
        BY <1>1, <4>1, Becomes DEF EntryBecomes
      <4> QED BY <4>1, <4>2 DEF Steady, SamePlace
    <3> QED BY <1>5, <3>1, <3>2
  <2>4. InboxesShrink /\ OutboxesShrink
    BY <2>1, InboxSame, OutboxSame
  <2> QED BY <2>1, <2>2, <2>3, <2>4, CallsStay DEF OutboxesShrink
<1> QED BY <1>2, <1>3, <1>4, <1>5, AnsweredCalls DEF Events

-----------------------------------------------------------------------------
(* The steps of clients and of the environment.                            *)

(* A process that begins finds no request and waits for no call.           *)
LEMMA SpawnCalls ==
  ASSUME Shaped, OwnerInv, CallInv, NEW e \in Entries, Unused(e), NEW o \in Object, EntryBecomes(e, o),
         o.db \in Databases, o.ready = "pending",
         inbox' = [inbox EXCEPT ![e] = <<>>], outbox' = [outbox EXCEPT ![e] = <<>>],
         UNCHANGED <<call, rows, effect>>, \A f \in Entries \ {e} : storage'[f] = storage[f]
  PROVE  CallInv'
<1>1. Typed /\ entry'[e] = o /\ \A f \in Entries \ {e} : entry'[f] = entry[f]
  BY Becomes DEF EntryBecomes, Shaped
<1>2. /\ InboxesShrink /\ OutboxesShrink
      /\ \A q \in Calls : ~Queued(e, q)'
      /\ \A m \in Message : ~Told(e, m)'
  BY <1>1, InboxClears, OutboxClears
<1>3. \A q \in Calls : call[q].phase = "pending" => call[q].entry # e
  <2>1. SUFFICES ASSUME NEW q \in Calls, call[q].phase = "pending", call[q].entry = e PROVE FALSE
    OBVIOUS
  <2>2. entry[e].host \in Hosts /\ ~entry[e].stopped
    BY <2>1 DEF CallInv, CallFact
  <2>3. entry[e].state \in Live
    BY <2>2, NoneIsNothing DEF OwnerInv, EntryFact
  <2> QED BY <2>3, UnusedMeans
<1>4. \A q \in Calls : Made(q)' <=> Made(q)
  BY DEF Made
<1>5. \A f \in Entries : Once(f)' /\ EntryServes(f)'
  <2>1. \A f \in Entries : Once(f)'
    BY <1>2, OnceIs DEF InboxesShrink, OutboxesShrink, Once, InboxOnce, OutboxOnce
  <2>2. EntryServes(e)'
    BY <1>1 DEF EntryServes
  <2>3. \A f \in Entries \ {e} : EntryServes(f)'
    BY <1>1 DEF CallInv, EntryServes
  <2> QED BY <2>1, <2>2, <2>3
<1>6. ASSUME NEW q \in Calls PROVE CallFact(q)'
  BY <1>1, <1>2, <1>3, <1>4 DEF CallInv, CallFact, InboxesShrink
<1>7. ASSUME NEW f \in Entries, NEW q \in Calls PROVE QueueFact(f, q)'
  <2>1. QueueFact(f, q)
    BY DEF CallInv
  <2> QED BY <1>1, <1>2, <2>1 DEF QueueFact, InboxesShrink
<1>8. ASSUME NEW f \in Entries, NEW m \in Message PROVE MessageFact(f, m)'
  <2>1. MessageFact(f, m)
    BY DEF CallInv
  <2> QED BY <1>1, <1>2, <1>4, <2>1 DEF MessageFact, InboxesShrink, OutboxesShrink
<1>9. Distinct' /\ RowsFact'
  BY DEF CallInv, Distinct, RowsFact
<1> QED BY <1>5, <1>6, <1>7, <1>8, <1>9 DEF CallInv

LEMMA AskedCalls ==
  ASSUME Shaped, OwnerInv, CallInv, NEW c \in Clients, NEW q \in Calls, NEW operation \in Operations,
         CallSent(c, q, operation) \/ CallRefused(c, q, operation)
  PROVE  CallInv'
<1>1. PICK e \in Entries : e = client[c].entry
  BY CallTyped
<1>2. /\ client[c].phase = "open" /\ call[q].phase = "none" /\ Typed
      /\ UNCHANGED <<entry, storage, outbox, rows, effect>>
  BY DEF CallSent, CallRefused, Shaped, data
<1>3. /\ entry[e].host = Host[c] /\ Host[c] \in Hosts /\ entry[e].db \in Databases
  <2>1. entry[e].host = Host[c] /\ Host[c] \in Hosts
    BY <1>1, <1>2, ClientsHaveHosts DEF OwnerInv, ClientFact
  <2> QED BY <2>1, NoneIsNothing DEF CallInv, EntryServes
<1>4. q \notin effect /\ \A f \in Entries : ~Queued(f, q)
  BY <1>2 DEF CallInv, CallFact
<1>5. PICK phase \in {"pending", "refused"} :
        /\ call' = [call EXCEPT ![q] = Asked(c, operation, phase)]
        /\ phase = "pending" => CallSent(c, q, operation)
        /\ phase = "refused" => CallRefused(c, q, operation)
  BY DEF CallSent, CallRefused
<1>6. /\ call'[q].phase = phase /\ call'[q].db = entry[e].db /\ call'[q].operation = operation
      /\ call'[q].host = Host[c] /\ (phase = "pending" => call'[q].entry = e)
      /\ \A r \in Calls \ {q} : call'[r] = call[r]
  BY <1>1, <1>2, <1>5 DEF Asked, Typed
<1>7. \A f \in Entries :
        InboxOnce(f)' /\ \A r \in Calls : Queued(f, r)' => Queued(f, r) \/ (f = e /\ r = q /\ phase = "pending")
  <2>1. CASE inbox' = inbox
    <3>1. InboxesShrink
      BY <2>1, InboxSame
    <3> QED BY <3>1 DEF InboxesShrink
  <2>2. CASE phase = "pending" /\ inbox' = [inbox EXCEPT ![e] = Append(@, q)]
    BY <1>2, <1>4, <2>2, InboxGrows
  <2> QED BY <1>1, <1>5, <2>1, <2>2 DEF CallSent, CallRefused
<1>8. phase = "pending" => ~entry[e].stopped
  BY <1>1, <1>5 DEF CallSent
<1>9. OutboxesShrink
  BY <1>2, OutboxSame
<1>10. \A r \in Calls \ {q} : Made(r)' <=> Made(r)
  BY <1>2, <1>6 DEF Made
<1>11. \A f \in Entries : Once(f)' /\ EntryServes(f)'
  BY <1>2, <1>7, <1>9, OnceIs DEF CallInv, OutboxesShrink, Once, InboxOnce, OutboxOnce, EntryServes
<1>12. ASSUME NEW r \in Calls PROVE CallFact(r)'
  <2>1. CASE r = q
    BY <1>2, <1>3, <1>4, <1>6, <1>8, <2>1 DEF CallFact
  <2>2. CASE r # q
    <3>1. call'[r] = call[r] /\ CallFact(r)
      BY <1>6, <2>2 DEF CallInv
    <3> QED BY <1>2, <1>7, <1>10, <2>2, <3>1 DEF CallFact
  <2> QED BY <2>1, <2>2
<1>13. ASSUME NEW f \in Entries, NEW r \in Calls PROVE QueueFact(f, r)'
  <2>1. SUFFICES ASSUME Queued(f, r)' PROVE QueueFact(f, r)'
    BY DEF QueueFact
  <2>2. CASE r = q
    <3>1. f = e /\ phase = "pending" /\ \A g \in Entries : Queued(g, q)' => g = e
      BY <1>4, <1>7, <2>1, <2>2
    <3> QED BY <1>2, <1>4, <1>6, <2>2, <3>1 DEF QueueFact
  <2>3. CASE r # q
    <3>1. call'[r] = call[r] /\ QueueFact(f, r) /\ Queued(f, r)
      BY <1>6, <1>7, <2>1, <2>3 DEF CallInv
    <3> QED BY <1>2, <1>7, <2>3, <3>1 DEF QueueFact
  <2> QED BY <2>2, <2>3
<1>14. ASSUME NEW f \in Entries, NEW m \in Message PROVE MessageFact(f, m)'
  <2>1. SUFFICES ASSUME Told(f, m)' PROVE MessageFact(f, m)'
    BY DEF MessageFact
  <2>2. Told(f, m) /\ MessageFact(f, m)
    BY <1>9, <2>1 DEF CallInv, OutboxesShrink
  <2>3. m.kind = "answer" => m.call \in Calls \ {q}
    BY <1>2, <2>2 DEF MessageFact
  <2> QED BY <1>2, <1>6, <1>7, <1>10, <2>2, <2>3 DEF MessageFact
<1>15. Distinct' /\ RowsFact'
  <2>1. \A r \in effect : call'[r] = call[r]
    BY <1>2, <1>4, <1>6 DEF Typed
  <2> QED BY <1>2, <2>1 DEF CallInv, Distinct, RowsFact
<1> QED BY <1>11, <1>12, <1>13, <1>14, <1>15 DEF CallInv

LEMMA ClientCalls ==
  ASSUME Shaped, OwnerInv, CallInv, NEW c \in Clients, Continues(c) \/ Uses(c)
  PROVE  CallInv'
<1>1. Typed
  BY DEF Shaped
<1>2. ASSUME NEW e \in Entries, NEW d \in Databases, CreateEntry(c, e, d) \/ IdentityFails(c, e, d)
      PROVE  CallInv'
  <2>1. Spawns(Host[c], client[c].path, d, e)
    BY <1>2 DEF CreateEntry, IdentityFails
  <2>2. PICK o \in Object : EntryBecomes(e, o) /\ o.db = d /\ o.ready = "pending"
    BY <1>2, CreateTyped, IdentityFailsTyped, NewIs
  <2>3. \A f \in Entries \ {e} : storage'[f] = storage[f]
    BY <1>2, CreateTyped, IdentityFailsTyped
  <2>4. /\ Unused(e) /\ inbox' = [inbox EXCEPT ![e] = <<>>] /\ outbox' = [outbox EXCEPT ![e] = <<>>]
        /\ UNCHANGED <<call, rows, effect>>
    BY <2>1 DEF Spawns
  <2> QED BY <2>2, <2>3, <2>4, SpawnCalls
<1>3. ASSUME UNCHANGED <<entry, storage, inbox, outbox, call, rows, effect>> PROVE CallInv'
  <2>1. InboxesShrink /\ OutboxesShrink
    BY <1>3, InboxSame, OutboxSame
  <2> QED BY <1>3, <2>1, CallsStay DEF OutboxesShrink, Steady, NoneStarts
<1>4. CASE CreateFails(c) \/ RefusesMoved(c) \/ AwaitsDisposal(c) \/ LooksAgain(c)
  BY <1>3, <1>4 DEF CreateFails, RefusesMoved, AwaitsDisposal, LooksAgain, data
<1>5. ASSUME NEW p \in Paths, Open(c, p) PROVE CallInv'
  BY <1>3, <1>5 DEF Open, data
(* The entry moves, but not where it is, nor its calls.                    *)
<1>6. ASSUME NEW e \in Entries, NEW o \in Object, EntryBecomes(e, o), SamePlace(o, entry[e]),
             o.stopped = entry[e].stopped, o.ready = entry[e].ready, LocksKept, InboxesShrink,
             UNCHANGED <<outbox, call, rows, effect>>
      PROVE  CallInv'
  <2>1. entry'[e] = o /\ \A f \in Entries \ {e} : entry'[f] = entry[f]
    BY <1>1, <1>6, Becomes DEF EntryBecomes
  <2>2. Steady /\ \A f \in Entries : entry'[f].ready = entry[f].ready
    BY <1>6, <2>1 DEF Steady, SamePlace
  <2>3. OutboxesShrink /\ NoneStarts
    BY <1>6, OutboxSame, KeptStarts
  <2> QED BY <1>6, <2>2, <2>3, CallsStay DEF OutboxesShrink
<1>7. CASE JoinEntry(c)
  <2>1. PICK e \in Entries : e = Registered(c)
    BY <1>7, JoinTyped
  <2>2. entry[e] \in Object /\ EntryBecomes(e, Joined(entry[e])) /\ LocksKept
    BY <1>1, <1>7, <2>1, JoinTyped DEF Typed
  <2>3. PICK o \in Object : /\ EntryBecomes(e, o) /\ SamePlace(o, entry[e])
                            /\ o.stopped = entry[e].stopped /\ o.ready = entry[e].ready
    BY <2>2, CountedIs
  <2>4. UNCHANGED <<inbox, outbox, call, rows, effect>>
    BY <1>7 DEF JoinEntry, data
  <2> QED BY <1>6, <2>2, <2>3, <2>4, InboxSame
<1>8. CASE Opens(c) \/ OpenFails(c) \/ CloseReference(c) \/ CloseSends(c)
  <2>1. PICK e \in Entries : e = client[c].entry
    BY <1>8, LeaverTyped
  <2>2. entry[e] \in Object /\ LocksKept
    BY <1>1, <1>8, <2>1, LeaverTyped DEF Typed
  <2>3. PICK o \in Object : /\ EntryBecomes(e, o) /\ SamePlace(o, entry[e])
                            /\ o.stopped = entry[e].stopped /\ o.ready = entry[e].ready
    <3>1. CASE Opens(c)
      BY <2>1, <2>2, <3>1, LeaverTyped, ReadyIs
    <3>2. CASE OpenFails(c)
      <4>1. PICK l \in Object : /\ l = Left(entry[e]) /\ SamePlace(l, entry[e])
                                /\ l.stopped = entry[e].stopped /\ l.ready = entry[e].ready
        BY <2>2, CountedIs
      <4>2. EntryBecomes(e, Disposed(l))
        BY <2>1, <3>2, <4>1, LeaverTyped
      <4> QED BY <4>1, <4>2, DisposedIs DEF SamePlace
    <3>3. CASE CloseReference(c)
      BY <2>1, <2>2, <3>3, LeaverTyped, CountedIs
    <3>4. CASE CloseSends(c)
      <4>1. EntryBecomes(e, ShutDown(entry[e]))
        BY <2>1, <3>4, LeaverTyped
      <4>2. PICK r \in {ShutDown(entry[e]), Abandoned(entry[e])} : r = ShutDown(entry[e])
        OBVIOUS
      <4>3. r \in Object /\ SamePlace(r, entry[e]) /\ r.stopped = entry[e].stopped /\ r.ready = entry[e].ready
        BY <2>2, <4>2, ClosedIs
      <4> QED BY <4>1, <4>2, <4>3
    <3> QED BY <1>8, <3>1, <3>2, <3>3, <3>4
  <2>4. UNCHANGED <<outbox, call, rows, effect>>
    BY <1>8 DEF Opens, OpenFails, CloseReference, CloseSends, data
  <2>5. InboxesShrink
    <3>1. CASE inbox' = inbox
      BY <3>1, InboxSame
    <3>2. CASE inbox' = [inbox EXCEPT ![e] = Append(@, "close")]
      <4>1. "close" \in Calls \cup {"close"} /\ "close" \notin Calls
        BY CloseIsNoCall
      <4>2. PICK x : x = "close"
        OBVIOUS
      <4>3. \A f \in Entries : InboxOnce(f)' /\ \A r \in Calls : Queued(f, r)' => Queued(f, r) \/ (f = e /\ r = x)
        BY <1>1, <3>2, <4>1, <4>2, InboxGrows
      <4> QED BY <4>1, <4>2, <4>3 DEF InboxesShrink
    <3> QED BY <1>8, <2>1, <3>1, <3>2 DEF Opens, OpenFails, CloseReference, CloseSends
  <2> QED BY <1>6, <2>2, <2>3, <2>4, <2>5
<1>9. CASE CloseRefused(c)
  <2>1. PICK e \in Entries : e = client[c].entry
    BY <1>9, LeaverTyped
  <2>2. entry[e] \in Object /\ LocksKept /\ EntryBecomes(e, Abandoned(entry[e]))
    BY <1>1, <1>9, <2>1, LeaverTyped DEF Typed
  <2>3. PICK o \in {ShutDown(entry[e]), Abandoned(entry[e])} : o = Abandoned(entry[e])
    OBVIOUS
  <2>4. o \in Object /\ SamePlace(o, entry[e]) /\ o.stopped /\ o.ready = entry[e].ready
    BY <2>2, <2>3, ClosedIs
  <2>5. entry'[e] = o /\ \A f \in Entries \ {e} : entry'[f] = entry[f]
    BY <1>1, <2>2, <2>3, <2>4, Becomes DEF EntryBecomes
  <2>6. /\ call' = Lost(e) /\ outbox' = [outbox EXCEPT ![e] = <<>>]
        /\ UNCHANGED <<inbox, rows, effect>>
    BY <1>9, <2>1 DEF CloseRefused, data
  <2> QED BY <1>1, <2>2, <2>4, <2>5, <2>6, KeptStarts, CallsLost DEF SamePlace
<1>10. ASSUME NEW q \in Calls, NEW operation \in Operations,
              CallSent(c, q, operation) \/ CallRefused(c, q, operation)
       PROVE  CallInv'
  BY <1>10, AskedCalls
<1> QED BY <1>2, <1>4, <1>5, <1>7, <1>8, <1>9, <1>10 DEF Continues, Uses

(* A host that dies takes its calls with it, and no answer of its entries  *)
(* is read.                                                                *)
LEMMA CrashCalls ==
  ASSUME Shaped, CallInv, NEW h \in Hosts, HostCrashes(h)
  PROVE  CallInv'
<1>1. /\ UNCHANGED <<storage, inbox, rows, effect>>
      /\ \A e \in Entries : outbox'[e] = IF entry[e].host = h THEN <<>> ELSE outbox[e]
  <2>1. outbox' = [e \in Entries |-> IF e \in {f \in Entries : entry[f].host = h} THEN <<>> ELSE outbox[e]]
    BY DEF HostCrashes
  <2>2. UNCHANGED <<storage, inbox, rows, effect>>
    BY DEF HostCrashes, data
  <2> QED BY <2>1, <2>2
<1>2. \A e \in Entries : entry'[e] = IF entry[e].host = h THEN Orphaned(entry[e]) ELSE entry[e]
  BY CrashTyped
<1>3. \A q \in Calls :
        /\ call'[q].operation = call[q].operation /\ call'[q].db = call[q].db
        /\ call[q].phase = "pending" /\ call[q].host = h => call'[q].phase = "lost" /\ call'[q].entry = None
        /\ ~(call[q].phase = "pending" /\ call[q].host = h) => call'[q] = call[q]
  BY CrashTyped
<1>4. ASSUME NEW e \in Entries
      PROVE  /\ entry'[e].db = entry[e].db
             /\ entry[e].host = h => entry'[e].host = None /\ entry'[e].stopped /\ entry'[e].ready = "pending"
             /\ entry[e].host # h => entry'[e] = entry[e]
  <2>1. entry[e] \in Object
    BY DEF Shaped, Typed
  <2> QED BY <1>2, <2>1, OrphanedIs
<1>5. \A q \in Calls : Made(q)' <=> Made(q)
  BY <1>1, <1>3 DEF Made
<1>6. InboxesShrink
  BY <1>1, InboxSame
<1>7. ASSUME NEW e \in Entries
      PROVE  OutboxOnce(e)' /\ \A m \in Message : Told(e, m)' => Told(e, m) /\ entry[e].host # h
  <2>1. CASE entry[e].host = h
    <3>1. DOMAIN outbox'[e] = {}
      BY <1>1, <2>1
    <3> QED BY <3>1 DEF OutboxOnce, Told
  <2>2. CASE entry[e].host # h
    BY <1>1, <2>2 DEF OutboxOnce, Told, CallInv, Once
  <2> QED BY <2>1, <2>2
<1>8. \A e \in Entries : Once(e)' /\ EntryServes(e)'
  BY <1>1, <1>4, <1>6, <1>7, OnceIs DEF CallInv, InboxesShrink, Once, InboxOnce, OutboxOnce, EntryServes
<1>9. \A q \in Calls : call[q].phase = "pending" => call[q].entry \in Entries /\ entry[call[q].entry].host = call[q].host
  BY DEF CallInv, CallFact
<1>10. ASSUME NEW q \in Calls PROVE CallFact(q)'
  <2>1. CallFact(q)
    BY DEF CallInv
  <2>2. CASE call[q].phase = "pending" /\ call[q].host = h
    <3>1. call'[q].phase = "lost" /\ call'[q].db = call[q].db /\ call'[q].operation = call[q].operation
      BY <1>3, <2>2
    <3> QED BY <1>1, <1>5, <2>1, <2>2, <3>1 DEF CallFact
  <2>3. CASE ~(call[q].phase = "pending" /\ call[q].host = h)
    <3>1. call'[q] = call[q]
      BY <1>3, <2>3
    <3>2. call[q].phase = "pending" => entry'[call[q].entry] = entry[call[q].entry]
      BY <1>4, <1>9, <2>3
    <3> QED BY <1>1, <1>5, <1>6, <2>1, <3>1, <3>2 DEF CallFact, InboxesShrink
  <2> QED BY <2>2, <2>3
<1>11. ASSUME NEW e \in Entries, NEW q \in Calls PROVE QueueFact(e, q)'
  <2>1. SUFFICES ASSUME Queued(e, q)' PROVE QueueFact(e, q)'
    BY DEF QueueFact
  <2>2. /\ call[q].phase \in {"pending", "lost"} /\ call[q].db = entry[e].db /\ q \notin effect
        /\ entry[e].stopped \/ (call[q].phase = "pending" /\ call[q].entry = e)
        /\ \A f \in Entries : Queued(f, q)' => f = e
    BY <1>6, <2>1 DEF CallInv, QueueFact, InboxesShrink
  <2>3. call'[q].phase \in {"pending", "lost"} /\ call'[q].db = entry'[e].db
    BY <1>3, <1>4, <2>2
  <2>4. entry'[e].stopped \/ (call'[q].phase = "pending" /\ call'[q].entry = e)
    <3>1. CASE entry[e].host = h
      BY <1>4, <3>1
    <3>2. CASE entry[e].host # h /\ entry[e].stopped
      BY <1>4, <3>2
    <3>3. CASE entry[e].host # h /\ call[q].phase = "pending" /\ call[q].entry = e
      <4>1. call'[q] = call[q]
        BY <1>3, <1>9, <3>3
      <4> QED BY <3>3, <4>1
    <3> QED BY <2>2, <3>1, <3>2, <3>3
  <2> QED BY <1>1, <2>2, <2>3, <2>4 DEF QueueFact
<1>12. ASSUME NEW e \in Entries, NEW m \in Message PROVE MessageFact(e, m)'
  <2>1. SUFFICES ASSUME Told(e, m)' PROVE MessageFact(e, m)'
    BY DEF MessageFact
  <2>2. Told(e, m) /\ entry[e].host # h /\ MessageFact(e, m)
    BY <1>7, <2>1 DEF CallInv
  <2>3. m.kind = "answer" => m.call \in Calls /\ call'[m.call] = call[m.call] /\ (Made(m.call)' <=> Made(m.call))
    BY <1>3, <1>5, <1>9, <2>2 DEF MessageFact
  <2> QED BY <1>1, <1>6, <2>2, <2>3 DEF MessageFact, InboxesShrink
<1>13. Distinct' /\ RowsFact'
  <2>1. \A q \in effect : call'[q].operation = call[q].operation /\ call'[q].db = call[q].db
    BY <1>3 DEF Shaped, Typed
  <2> QED BY <1>1, <2>1 DEF CallInv, Distinct, RowsFact
<1> QED BY <1>8, <1>10, <1>11, <1>12, <1>13 DEF CallInv

LEMMA CallsNext == ASSUME Shaped, OwnerInv, CallInv, [Next]_vars PROVE CallInv'
<1>1. ASSUME UNCHANGED <<entry, storage, inbox, outbox, call, rows, effect>> PROVE CallInv'
  <2>1. InboxesShrink /\ OutboxesShrink
    BY <1>1, InboxSame, OutboxSame
  <2> QED BY <1>1, <2>1, CallsStay DEF OutboxesShrink, Steady, NoneStarts
<1>2. ASSUME NEW p \in Paths, NEW q \in Paths, Renamed(p, q) PROVE CallInv'
  BY <1>1, <1>2 DEF Renamed
<1>3. CASE UNCHANGED vars
  BY <1>1, <1>3 DEF vars
<1> QED BY <1>2, <1>3, ProcessCalls, EventCalls, ClientCalls, CrashCalls DEF Next

LEMMA CallsInit == ASSUME Init PROVE CallInv
<1>1. /\ \A e \in Entries : /\ entry[e] = NoEntry /\ inbox[e] = <<>> /\ outbox[e] = <<>>
      /\ \A q \in Calls : call[q] = NoCall
      /\ \A d \in Databases : rows[d] = {}
      /\ effect = {}
  BY DEF Init
<1>2. \A e \in Entries : DOMAIN inbox[e] = {} /\ DOMAIN outbox[e] = {}
  BY <1>1
<1>3. \A e \in Entries : Once(e) /\ (\A q : ~Queued(e, q)) /\ (\A m : ~Told(e, m))
  BY <1>2 DEF Once, Queued, Told
<1>4. \A e \in Entries : EntryServes(e)
  BY <1>1 DEF EntryServes, NoEntry
<1>5. \A q \in Calls : CallFact(q)
  BY <1>1, <1>3 DEF CallFact, NoCall
<1>6. \A e \in Entries : (\A q \in Calls : QueueFact(e, q)) /\ (\A m \in Message : MessageFact(e, m))
  BY <1>3 DEF QueueFact, MessageFact
<1> QED BY <1>1, <1>3, <1>4, <1>5, <1>6 DEF CallInv, Distinct, RowsFact

-----------------------------------------------------------------------------
(* The theorems.                                                           *)

(* Where the copies of a call may be, on top of the invariant of the       *)
(* registry, the locks and the reference counts.                           *)
THEOREM CallInvariant == Spec => [](IInv /\ CallInv)
<1>1. Init => CallInv
  BY CallsInit
<1>2. IInv /\ CallInv /\ [Next]_vars => CallInv'
  BY CallsNext DEF IInv
<1> QED BY <1>1, <1>2, Invariant, PTL DEF Spec

(* Every variable keeps its type.                                          *)
THEOREM TypeCorrect == Spec => []TypeOK
<1>1. IInv /\ CallInv => TypeOK
  <2>1. SUFFICES ASSUME IInv, CallInv PROVE TypeOK
    OBVIOUS
  <2>2. Typed
    BY <2>1 DEF IInv, Shaped
  <2>3. ASSUME NEW e \in Entries PROVE entry[e] \in Entry
    <3>1. entry[e] \in Object
      BY <2>2 DEF Typed
    <3>2. entry[e].references = Cardinality(Users(e))
      BY <2>1 DEF IInv, OwnerInv, CountFact
    <3>3. Users(e) \subseteq Clients
      BY DEF Users
    <3>4. IsFiniteSet(Users(e)) /\ Cardinality(Users(e)) <= Cardinality(Clients)
      BY <3>3, ClientsAreFinite, FS_Subset
    <3>5. Cardinality(Users(e)) \in Nat /\ Cardinality(Clients) \in Nat
      BY <3>4, ClientsAreFinite, FS_CardinalityType
    <3>6. entry[e].references \in 0 .. Cardinality(Clients)
      BY <3>2, <3>4, <3>5
    <3> QED BY <3>1, <3>6 DEF Object, Entry
  <2>4. entry \in [Entries -> Entry]
    BY <2>2, <2>3 DEF Typed
  <2>5. rows \in [Databases -> SUBSET Operations]
    BY <2>1, <2>2 DEF Typed, CallInv, RowsFact
  <2> QED BY <2>2, <2>4, <2>5 DEF Typed, TypeOK
<1> QED BY <1>1, CallInvariant, PTL

(* What a caller is told is true, and a repeated key takes effect once     *)
(* (the answers of rpcClient.ts and the operation keys of ProductStore).   *)
THEOREM AnswersAlwaysTrue == Spec => []AnswersAreTrue
<1>1. IInv /\ CallInv => AnswersAreTrue
  <2>1. SUFFICES ASSUME IInv, CallInv, NEW q \in Calls
                 PROVE  /\ call[q].phase = "ok" => call[q].operation \in rows[call[q].db]
                        /\ call[q].phase \in {"error", "refused"} => q \notin effect
                        /\ \A r \in effect \ {q} : q \in effect =>
                             call[q].operation # call[r].operation \/ call[q].db # call[r].db
    BY DEF AnswersAreTrue
  <2>2. CallFact(q) /\ Distinct
    BY <2>1 DEF CallInv
  <2> QED BY <2>2 DEF CallFact, Distinct, Made
<1> QED BY <1>1, CallInvariant, PTL

(* A late effect precedes the reopen of its database: only the process     *)
(* that has the call in its inbox makes it, and while that lives no other  *)
(* has the database (the flock of MailStore.ts, held until exit).          *)
THEOREM LateEffectsAlwaysPrecedeReopen == Spec => LateEffectsPrecedeReopen
<1>1. ASSUME IInv, CallInv, [Next]_vars, NEW q \in effect' \ effect, NEW c \in Clients, NEW e,
             e = client[c].entry, client[c].phase = "open", Alive(e), entry[e].db = call[q].db
      PROVE  \E i \in DOMAIN inbox[e] : inbox[e][i] = q
  <2>1. PICK f \in Entries, ok \in BOOLEAN : Handles(f, ok)
    <3>1. ASSUME NEW f \in Entries, Process(f), ~\E ok \in BOOLEAN : Handles(f, ok) PROVE effect' = effect
      BY <3>1 DEF Process, TakesLock, Loads, LoadFails, HandlesClose, Exits, data
    <3>2. ASSUME NEW f \in Entries, Events(f) \/ FailureDisposes(f) PROVE effect' = effect
      BY <3>2 DEF Events, BecomesReady, StartupFails, Answered, CloseAnswered, StartupTimesOut,
         RequestTimesOut, ExitSeen, SendFails, Fails, ForceKill, DisposalEnds, FailureDisposes, data
    <3>3. ASSUME NEW b \in Clients, Continues(b) PROVE effect' = effect
      BY <3>3 DEF Continues, CreateEntry, IdentityFails, Spawns, CreateFails, JoinEntry, RefusesMoved,
         AwaitsDisposal, LooksAgain, Opens, OpenFails, data
    <3>4. ASSUME NEW b \in Clients, Uses(b) PROVE effect' = effect
      BY <3>4 DEF Uses, Open, CallSent, CallRefused, CloseReference, CloseSends, CloseRefused, data
    <3>5. ASSUME NEW h \in Hosts, HostCrashes(h) PROVE effect' = effect
      BY <3>5 DEF HostCrashes, data
    <3>6. ASSUME NEW p \in Paths, NEW r \in Paths, Renamed(p, r) PROVE effect' = effect
      BY <3>6 DEF Renamed
    <3>7. CASE UNCHANGED vars
      BY <1>1, <3>7 DEF vars
    <3> QED BY <1>1, <3>1, <3>2, <3>3, <3>4, <3>5, <3>6, <3>7 DEF Next
  <2>2. PICK x : x = Head(inbox[f])
    OBVIOUS
  <2>3. /\ inbox[f] # <<>> /\ inbox' = [inbox EXCEPT ![f] = Tail(@)] /\ x # "close"
        /\ storage[f].phase \in {"serving", "closed"} /\ q = x
    BY <1>1, <2>1, <2>2 DEF Handles
  <2>4. Typed
    BY <1>1 DEF IInv, Shaped
  <2>5. x \in Calls \cup {"close"} /\ (x \in Calls => Queued(f, x))
    BY <1>1, <2>2, <2>3, <2>4, InboxReads, Zenon
  <2>6. q \in Calls /\ Queued(f, q)
    BY <2>3, <2>5
  <2>7. call[q].db = entry[f].db
    BY <1>1, <2>6 DEF CallInv, QueueFact
  <2>8. e \in Entries /\ entry[e].ready = "resolved"
    BY <1>1 DEF IInv, OwnerInv, ClientFact, Shaped, Placed
  <2>9. storage[e].phase \in {"serving", "closed"}
    BY <1>1, <2>8 DEF CallInv, EntryServes, Alive
  <2>10. "database" \in storage[e].held \cap storage[f].held
    BY <1>1, <2>3, <2>8, <2>9 DEF IInv, LockInv, LockFact
  <2>11. Same(e, f, "database")
    BY <1>1, <2>7 DEF Same
  <2>12. e = f
    BY <1>1, <2>8, <2>10, <2>11 DEF IInv, LockInv, Exclusive
  <2> QED BY <2>6, <2>12 DEF Queued
<1>2. IInv /\ CallInv /\ [Next]_vars =>
        [\A q \in effect' \ effect, c \in Clients :
           LET e == client[c].entry IN
           client[c].phase = "open" /\ Alive(e) /\ entry[e].db = call[q].db
           => \E i \in DOMAIN inbox[e] : inbox[e][i] = q]_vars
  BY <1>1
<1> QED BY <1>2, CallInvariant, PTL DEF Spec, LateEffectsPrecedeReopen

-----------------------------------------------------------------------------
(* The store contract.                                                     *)

(* Only a process that serves, or has served, has calls in its inbox.      *)
SentFact ==
  \A e \in Entries, q \in Calls : Queued(e, q) => storage[e].phase \in {"serving", "closed"}

(* Nobody works with a database that a lost call may still change.         *)
Clear == \A q \in Calls : PhaseOf(q) = "doubtful" => call[q].db \notin Served

LEMMA FatesAre ==
  /\ Fates \in [Calls -> [phase : {PhaseOf(q) : q \in Calls}, operation : {call[q].operation : q \in Calls},
                          db : {call[q].db : q \in Calls}]]
  /\ \A q \in Calls : /\ Fates[q].phase = PhaseOf(q) /\ Fates[q].operation = call[q].operation
                      /\ Fates[q].db = call[q].db
BY DEF Fates

LEMMA PhaseIs ==
  ASSUME NEW q \in Calls
  PROVE  /\ call[q].phase # "lost" => PhaseOf(q) = call[q].phase
         /\ call[q].phase = "lost" /\ (\E e \in Entries : Queued(e, q)) => PhaseOf(q) = "doubtful"
         /\ call[q].phase = "lost" /\ (\A e \in Entries : ~Queued(e, q)) => PhaseOf(q) = "over"
BY DEF PhaseOf, OnItsWay, Queued

LEMMA SentIsClear == IInv /\ CallInv /\ SentFact => Clear
<1>1. SUFFICES ASSUME IInv, CallInv, SentFact, NEW q \in Calls, PhaseOf(q) = "doubtful", NEW c \in Clients,
                      Works(c), entry[client[c].entry].db = call[q].db
               PROVE  FALSE
  BY DEF Clear, Served
<1>2. PICK e \in Entries : Queued(e, q)
  BY <1>1, PhaseIs DEF IInv, Shaped, Typed, Call
<1>3. call[q].phase = "lost"
  BY <1>1, PhaseIs DEF IInv, Shaped, Typed, Call
<1>4. PICK f \in Entries : f = client[c].entry
  BY <1>1 DEF Works, IInv, Shaped, Placed
<1>5. Alive(f) /\ ~entry[f].stopped /\ entry[f].ready = "resolved" /\ entry[f].db = call[q].db
  BY <1>1, <1>4 DEF Works, IInv, OwnerInv, ClientFact
<1>6. storage[f].phase \in {"serving", "closed"}
  BY <1>1, <1>5 DEF CallInv, EntryServes, Alive
<1>7. storage[e].phase \in {"serving", "closed"} /\ entry[e].db = call[q].db
  BY <1>1, <1>2 DEF SentFact, CallInv, QueueFact
<1>8. "database" \in storage[e].held \cap storage[f].held /\ Same(e, f, "database")
  BY <1>1, <1>5, <1>6, <1>7 DEF IInv, LockInv, LockFact, Same
<1>9. e = f
  BY <1>1, <1>8 DEF IInv, LockInv, Exclusive
<1> QED BY <1>1, <1>2, <1>3, <1>5, <1>9 DEF CallInv, QueueFact

(* Steps that give nobody an answer or a store: requests leave the         *)
(* inboxes, calls are lost, stores end.                                    *)
QueuesWane ==
  \A f \in Entries :
    /\ \A q \in Calls : Queued(f, q)' => Queued(f, q)
    /\ \/ storage'[f].phase = storage[f].phase \/ storage'[f].phase \in {"serving", "closed"}
       \/ \A q \in Calls : ~Queued(f, q)'
CallsWane ==
  \A q \in Calls :
    /\ call'[q].operation = call[q].operation /\ call'[q].db = call[q].db
    /\ call'[q].phase = call[q].phase \/ (call[q].phase = "pending" /\ call'[q].phase = "lost")
StoresWane ==
  \A c \in Clients : Works(c)' => Works(c) /\ entry'[client'[c].entry].db = entry[client[c].entry].db
Waning == QueuesWane /\ CallsWane /\ StoresWane /\ UNCHANGED <<rows, effect>>

LEMMA ServedWanes == ASSUME StoresWane PROVE Served' \subseteq Served
BY DEF StoresWane, Served

LEMMA WaningKeepsSent == ASSUME SentFact, Waning PROVE SentFact'
BY DEF SentFact, Waning, QueuesWane

(* Such a step breaks stores, or is none of the contract's business.       *)
LEMMA WaningBreaks ==
  ASSUME Waning, Clear'
  PROVE  Contract!Next
<1> DEFINE lost == {q \in Calls : PhaseOf(q) = "pending" /\ PhaseOf(q)' = "doubtful"}
           settled == {q \in Calls : PhaseOf(q) \in {"pending", "doubtful"} /\ PhaseOf(q)' = "over"}
           ended == Served \ Served'
<1>1. lost \in SUBSET Calls /\ settled \in SUBSET Calls /\ ended \in SUBSET Databases
  BY DEF Served
<1>2. Served' = Served \ ended
  BY ServedWanes DEF Waning
<1>3. ASSUME NEW q \in Calls
      PROVE  \/ q \in lost
             \/ q \notin lost /\ q \in settled
             \/ q \notin lost /\ q \notin settled /\ PhaseOf(q)' = PhaseOf(q)
  <2>1. /\ call'[q].phase = call[q].phase \/ (call[q].phase = "pending" /\ call'[q].phase = "lost")
        /\ \A f \in Entries : Queued(f, q)' => Queued(f, q)
    BY DEF Waning, CallsWane, QueuesWane
  <2>2. OnItsWay(q)' => OnItsWay(q)
    BY <2>1 DEF OnItsWay, Queued
  <2> QED BY <2>1, <2>2 DEF PhaseOf
<1>4. ASSUME NEW q \in lost PROVE Fates[q].phase = "pending" /\ Fates[q].db \notin Served'
  <2>1. call'[q].db \notin Served' /\ call'[q].db = call[q].db
    BY DEF Clear, Waning, CallsWane
  <2> QED BY <2>1, FatesAre
<1>5. \A q \in settled : Fates[q].phase \in {"pending", "doubtful"}
  BY FatesAre
<1>6. Fates' = [q \in Calls |-> IF q \in lost THEN [Fates[q] EXCEPT !.phase = "doubtful"]
                                ELSE IF q \in settled THEN [Fates[q] EXCEPT !.phase = "over"]
                                ELSE Fates[q]]
  <2>1. ASSUME NEW q \in Calls
        PROVE  Fates'[q] = IF q \in lost THEN [Fates[q] EXCEPT !.phase = "doubtful"]
                           ELSE IF q \in settled THEN [Fates[q] EXCEPT !.phase = "over"]
                           ELSE Fates[q]
    <3>1. /\ Fates[q] = [phase |-> PhaseOf(q), operation |-> call[q].operation, db |-> call[q].db]
          /\ Fates'[q] = [phase |-> PhaseOf(q)', operation |-> call[q].operation, db |-> call[q].db]
      BY DEF Fates, Waning, CallsWane
    <3>2. /\ q \in lost => PhaseOf(q)' = "doubtful"
          /\ q \in settled => PhaseOf(q)' = "over"
      OBVIOUS
    <3> HIDE DEF lost, settled
    <3> QED BY <1>3, <3>1, <3>2
  <2> QED BY <2>1 DEF Fates
<1> HIDE DEF lost, settled, ended
<1>7. Contract!Break(lost, settled, ended)
  BY <1>2, <1>4, <1>5, <1>6 DEF Contract!Break, Waning
<1> QED BY <1>1, <1>7 DEF Contract!Next

(* Stores end when their entries stop, their processes die or their        *)
(* clients go; no client uses an entry that is being made.                 *)
LEMMA FewerStores ==
  ASSUME Shaped,
         \A c \in Clients : client'[c].phase = "open" => client'[c] = client[c],
         \A f \in Entries : (\E c \in Clients : client[c].entry = f) =>
           /\ entry'[f].db = entry[f].db /\ (entry[f].stopped => entry'[f].stopped)
           /\ Alive(f)' => Alive(f)
  PROVE  StoresWane
<1>1. SUFFICES ASSUME NEW c \in Clients, Works(c)'
               PROVE  Works(c) /\ entry'[client'[c].entry].db = entry[client[c].entry].db
  BY DEF StoresWane
<1>2. client'[c] = client[c] /\ client[c].phase = "open" /\ client[c].entry \in Entries
  BY <1>1 DEF Works, Shaped, Placed
<1>3. PICK f \in Entries : f = client[c].entry
  BY <1>2
<1>4. Alive(f)' /\ ~entry'[f].stopped
  BY <1>1, <1>2, <1>3 DEF Works
<1>5. Alive(f) /\ ~entry[f].stopped /\ entry'[f].db = entry[f].db
  BY <1>3, <1>4
<1> QED BY <1>2, <1>3, <1>5 DEF Works

(* Who waits for a lost answer is told so.                                 *)
LEMMA LosingWanes ==
  ASSUME Typed, NEW e \in Entries, call' = Lost(e) PROVE CallsWane
<1>1. \A q \in Calls :
        /\ call'[q].operation = call[q].operation /\ call'[q].db = call[q].db
        /\ q \in Pending(e) => call'[q].phase = "lost"
        /\ q \notin Pending(e) => call'[q] = call[q]
  BY LostTyped
<1> QED BY <1>1 DEF CallsWane, Pending

LEMMA ProcessWanes ==
  ASSUME Shaped, CallInv, NEW e \in Entries,
         TakesLock(e) \/ Loads(e) \/ LoadFails(e) \/ HandlesClose(e) \/ Exits(e) \/ Handles(e, FALSE)
  PROVE  Waning
<1>1. UNCHANGED <<entry, client, call, rows, effect>> /\ Typed
  BY DEF TakesLock, Loads, LoadFails, HandlesClose, Exits, Handles, data, Shaped
<1>2. PICK s \in Storage :
        /\ storage' = [storage EXCEPT ![e] = s] /\ Alive(e)
        /\ s.phase \in {storage[e].phase, "serving", "closed"} \/ (Exits(e) /\ s.phase = "exited")
  <2>1. CASE TakesLock(e)
    <3>1. PICK held \in SUBSET {"directory", "database"} : storage' = [storage EXCEPT ![e].held = held]
      BY <1>1, <2>1 DEF TakesLock, NextLock, Typed, Storage
    <3> DEFINE s == [storage[e] EXCEPT !.held = held]
    <3>2. s \in Storage /\ s.phase = storage[e].phase
      BY <1>1 DEF Typed, Storage
    <3>3. storage' = [storage EXCEPT ![e] = s] /\ Alive(e)
      BY <1>1, <2>1, <3>1 DEF TakesLock, Typed, Alive
    <3> HIDE DEF s
    <3> QED BY <3>2, <3>3
  <2>2. CASE Loads(e) \/ LoadFails(e) \/ HandlesClose(e)
    <3>1. PICK phase \in {"serving", "closed"} : storage' = [storage EXCEPT ![e].phase = phase]
      BY <2>2 DEF Loads, LoadFails, HandlesClose
    <3> DEFINE s == [storage[e] EXCEPT !.phase = phase]
    <3>2. s \in Storage /\ s.phase = phase
      BY <1>1 DEF Typed, Storage
    <3>3. storage' = [storage EXCEPT ![e] = s] /\ Alive(e)
      BY <1>1, <2>2, <3>1 DEF Loads, LoadFails, HandlesClose, Typed, Alive
    <3> HIDE DEF s
    <3> QED BY <3>2, <3>3
  <2>3. CASE Exits(e)
    <3> DEFINE s == [storage[e] EXCEPT !.phase = "exited", !.held = {}]
    <3>1. s \in Storage /\ s.phase = "exited"
      BY <1>1 DEF Typed, Storage
    <3>2. storage' = [storage EXCEPT ![e] = s] /\ Alive(e)
      BY <1>1, <2>3 DEF Exits, Typed
    <3> HIDE DEF s
    <3> QED BY <2>3, <3>1, <3>2
  <2>4. CASE Handles(e, FALSE)
    <3>1. storage[e] \in Storage /\ storage' = [storage EXCEPT ![e] = storage[e]] /\ Alive(e)
      BY <1>1, <2>4 DEF Handles, Typed, Alive
    <3> QED BY <3>1
  <2> QED BY <2>1, <2>2, <2>3, <2>4
<1>3. /\ \A f \in Entries : \A q \in Calls : Queued(f, q)' => Queued(f, q)
      /\ Exits(e) => \A q \in Calls : ~Queued(e, q)'
  <2>0. Exits(e) => \A q \in Calls : ~Queued(e, q)'
    BY <1>1, InboxClears DEF Exits
  <2>1. CASE TakesLock(e) \/ Loads(e) \/ LoadFails(e)
    BY <2>0, <2>1, InboxSame DEF TakesLock, Loads, LoadFails, InboxesShrink
  <2>2. CASE HandlesClose(e) \/ Handles(e, FALSE)
    <3>1. inbox[e] # <<>> /\ inbox' = [inbox EXCEPT ![e] = Tail(@)]
      BY <2>2 DEF HandlesClose, Handles
    <3>2. PICK q : q = Head(inbox[e])
      OBVIOUS
    <3>3. InboxesShrink
      BY <1>1, <3>1, <3>2, InboxReads, Zenon
    <3> QED BY <2>0, <3>3 DEF InboxesShrink
  <2>3. CASE Exits(e)
    BY <1>1, <2>3, InboxClears DEF Exits, InboxesShrink
  <2> QED BY <2>1, <2>2, <2>3
<1>4. QueuesWane
  BY <1>1, <1>2, <1>3 DEF QueuesWane, Typed
<1>5. StoresWane
  <2>1. \A f \in Entries : Alive(f)' => Alive(f)
    BY <1>1, <1>2 DEF Alive, Typed
  <2> QED BY <1>1, <2>1, FewerStores
<1> QED BY <1>1, <1>4, <1>5 DEF Waning, CallsWane

LEMMA EventWanes ==
  ASSUME Shaped, CallInv, NEW e \in Entries, (Events(e) /\ ~Answered(e)) \/ FailureDisposes(e)
  PROVE  Waning
<1>1. Typed /\ entry[e] \in Object
  BY DEF Shaped, Typed
<1>2. UNCHANGED <<inbox, client, rows, effect>>
  BY DEF Events, BecomesReady, StartupFails, CloseAnswered, StartupTimesOut, RequestTimesOut, ExitSeen,
     SendFails, Fails, ForceKill, DisposalEnds, FailureDisposes, data
<1>3. \A f \in Entries : storage'[f].phase = storage[f].phase
  <2>1. CASE ForceKill(e)
    BY <1>1, <2>1 DEF ForceKill, Typed, Storage
  <2>2. CASE LocksKept
    BY <2>2 DEF LocksKept
  <2>3. ASSUME NEW timedOut \in BOOLEAN, Fails(e, timedOut) PROVE LocksKept
    BY <1>1, <2>3, FailsMoves
  <2> QED BY <1>1, <2>1, <2>2, <2>3, ReadyMoves, CloseAnsweredMoves, EndsMoves, NoticedMoves
          DEF Events, StartupFails, StartupTimesOut, RequestTimesOut, ExitSeen, SendFails
<1>4. \A f \in Entries : entry'[f].db = entry[f].db /\ (entry[f].stopped => entry'[f].stopped)
  <2>1. ASSUME NEW o \in Object, EntryBecomes(e, o), SamePlace(o, entry[e]), entry[e].stopped => o.stopped
        PROVE  \A f \in Entries : entry'[f].db = entry[f].db /\ (entry[f].stopped => entry'[f].stopped)
    BY <1>1, <2>1, Becomes DEF EntryBecomes, SamePlace
  <2>2. ASSUME NEW timedOut \in BOOLEAN, Fails(e, timedOut)
        PROVE  \A f \in Entries : entry'[f].db = entry[f].db /\ (entry[f].stopped => entry'[f].stopped)
    BY <1>1, <2>1, <2>2, FailsMoves, FailedIs
  <2>3. CASE ForceKill(e)
    BY <2>3 DEF ForceKill
  <2>4. CASE BecomesReady(e)
    BY <1>1, <2>1, <2>4, ReadyMoves, ReadyIs
  <2>5. CASE CloseAnswered(e)
    BY <1>1, <2>1, <2>5, CloseAnsweredMoves, StoppedIs
  <2>6. CASE DisposalEnds(e)
    BY <1>1, <2>1, <2>6, EndsMoves, EndedIs
  <2>7. CASE FailureDisposes(e)
    BY <1>1, <2>1, <2>7, NoticedMoves, NoticedIs
  <2> QED BY <2>2, <2>3, <2>4, <2>5, <2>6, <2>7
          DEF Events, StartupFails, StartupTimesOut, RequestTimesOut, ExitSeen, SendFails
<1>5. QueuesWane
  BY <1>2, <1>3, InboxSame DEF QueuesWane, InboxesShrink
<1>6. CallsWane
  <2>1. call' = call \/ call' = Lost(e)
    BY DEF Events, BecomesReady, StartupFails, CloseAnswered, StartupTimesOut, RequestTimesOut, ExitSeen,
       SendFails, Fails, ForceKill, DisposalEnds, FailureDisposes
  <2> QED BY <1>1, <2>1, LosingWanes DEF CallsWane
<1>7. StoresWane
  BY <1>2, <1>3, <1>4, FewerStores DEF Alive
<1> QED BY <1>2, <1>5, <1>6, <1>7 DEF Waning

(* An entry is made: no client has it yet.                                 *)
LEMMA SpawnWanes ==
  ASSUME Shaped, CallInv, NEW c \in Clients, NEW e \in Entries, NEW d \in Databases,
         CreateEntry(c, e, d) \/ IdentityFails(c, e, d)
  PROVE  Waning
<1>1. Spawns(Host[c], client[c].path, d, e) /\ Typed
  BY DEF CreateEntry, IdentityFails, Shaped
<1>2. /\ Unused(e) /\ inbox' = [inbox EXCEPT ![e] = <<>>] /\ UNCHANGED <<call, rows, effect>>
  BY <1>1 DEF Spawns
<1>3. PICK phase, path, y : phase \in {"idle", "awaitsReady"} /\ Becoming(c, phase, path, y)
  BY CreateTyped, IdentityFailsTyped
<1>4. /\ \A b \in Clients : client'[b].phase = "open" => client'[b] = client[b]
      /\ \A f \in Entries \ {e} : storage'[f] = storage[f]
  BY <1>3, CreateTyped, IdentityFailsTyped DEF Becoming
<1>5. PICK o \in Object : EntryBecomes(e, o)
  BY CreateTyped, IdentityFailsTyped, NewIs
<1>6. \A f \in Entries \ {e} : entry'[f] = entry[f]
  BY <1>1, <1>5, Becomes DEF EntryBecomes
<1>7. \A b \in Clients : client[b].entry # e
  BY <1>2 DEF Unused
<1>8. QueuesWane
  BY <1>1, <1>2, <1>4, InboxClears DEF QueuesWane, InboxesShrink
<1>9. StoresWane
  BY <1>4, <1>6, <1>7, FewerStores DEF Alive
<1> QED BY <1>2, <1>8, <1>9 DEF Waning, CallsWane

(* A client comes and waits.                                               *)
LEMMA WaitsWane ==
  ASSUME Shaped, CallInv, NEW c \in Clients, UNCHANGED <<entry, storage, inbox, call, rows, effect>>,
         NEW phase \in {"idle", "looking", "awaitsDisposal"}, NEW path, NEW x, Becoming(c, phase, path, x)
  PROVE  Waning
<1>1. \A b \in Clients : client'[b].phase = "open" => client'[b] = client[b]
  BY DEF Becoming
<1>2. QueuesWane
  BY InboxSame DEF QueuesWane, InboxesShrink
<1>3. StoresWane
  BY <1>1, FewerStores DEF Alive
<1> QED BY <1>2, <1>3 DEF Waning, CallsWane

(* A client joins an entry, or leaves it.                                  *)
LEMMA LeaverWanes ==
  ASSUME Shaped, CallInv, NEW c \in Clients, NEW e \in Entries,
         \/ JoinEntry(c) /\ e = Registered(c)
         \/ (OpenFails(c) \/ CloseReference(c) \/ CloseSends(c) \/ CloseRefused(c)) /\ e = client[c].entry
  PROVE  Waning
<1>1. Typed /\ entry[e] \in Object
  BY DEF Shaped, Typed
<1>2. LocksKept
  BY JoinTyped, LeaverTyped
<1>3. PICK phase, path, y : phase \in {"idle", "awaitsReady"} /\ Becoming(c, phase, path, y)
  BY JoinTyped, LeaverTyped
<1>4. \A b \in Clients : client'[b].phase = "open" => client'[b] = client[b]
  BY <1>3 DEF Becoming
<1>5. PICK o \in Object : EntryBecomes(e, o) /\ SamePlace(o, entry[e]) /\ (entry[e].stopped => o.stopped)
  <2>1. CASE JoinEntry(c) /\ e = Registered(c)
    BY <1>1, <2>1, JoinTyped, CountedIs
  <2>2. CASE OpenFails(c) /\ e = client[c].entry
    <3>1. PICK l \in Object : l = Left(entry[e]) /\ SamePlace(l, entry[e]) /\ l.stopped = entry[e].stopped
      BY <1>1, CountedIs
    <3>2. EntryBecomes(e, Disposed(l))
      BY <2>2, <3>1, LeaverTyped
    <3> QED BY <3>1, <3>2, DisposedIs DEF SamePlace
  <2>3. CASE CloseReference(c) /\ e = client[c].entry
    BY <1>1, <2>3, LeaverTyped, CountedIs
  <2>4. CASE (CloseSends(c) \/ CloseRefused(c)) /\ e = client[c].entry
    <3>1. PICK r \in {ShutDown(entry[e]), Abandoned(entry[e])} : EntryBecomes(e, r)
      BY <2>4, LeaverTyped
    <3> QED BY <1>1, <3>1, ClosedIs
  <2> QED BY <2>1, <2>2, <2>3, <2>4
<1>6. \A f \in Entries : entry'[f].db = entry[f].db /\ (entry[f].stopped => entry'[f].stopped)
  BY <1>1, <1>5, Becomes DEF EntryBecomes, SamePlace
<1>7. StoresWane
  BY <1>2, <1>4, <1>6, FewerStores DEF LocksKept, Alive
<1>8. /\ inbox' = inbox \/ inbox' = [inbox EXCEPT ![e] = Append(@, "close")]
      /\ call' = call \/ call' = Lost(e)
      /\ UNCHANGED <<rows, effect>>
  <2>1. CASE JoinEntry(c)
    BY <2>1 DEF JoinEntry, data
  <2>2. CASE OpenFails(c) \/ CloseReference(c)
    BY <2>2 DEF OpenFails, CloseReference, data
  <2>3. CASE CloseSends(c) /\ e = client[c].entry
    BY <2>3 DEF CloseSends, data
  <2>4. CASE CloseRefused(c) /\ e = client[c].entry
    BY <2>4 DEF CloseRefused, data
  <2> QED BY <2>1, <2>2, <2>3, <2>4
<1>9. \A f \in Entries, q \in Calls : Queued(f, q)' => Queued(f, q)
  <2>1. CASE inbox' = inbox
    BY <2>1, InboxSame DEF InboxesShrink
  <2>2. CASE inbox' = [inbox EXCEPT ![e] = Append(@, "close")]
    <3>1. "close" \in Calls \cup {"close"} /\ "close" \notin Calls
      BY CloseIsNoCall
    <3>2. PICK x : x = "close"
      OBVIOUS
    <3>3. \A f \in Entries : InboxOnce(f)' /\ \A r \in Calls : Queued(f, r)' => Queued(f, r) \/ (f = e /\ r = x)
      BY <1>1, <2>2, <3>1, <3>2, InboxGrows
    <3> QED BY <3>1, <3>2, <3>3
  <2> QED BY <1>8, <2>1, <2>2
<1>10. QueuesWane
  BY <1>2, <1>9 DEF QueuesWane, LocksKept
<1>11. CallsWane
  BY <1>1, <1>8, LosingWanes DEF CallsWane
<1> QED BY <1>7, <1>8, <1>10, <1>11 DEF Waning

LEMMA CrashWanes ==
  ASSUME Shaped, CallInv, NEW h \in Hosts, HostCrashes(h)
  PROVE  Waning
<1>1. UNCHANGED <<storage, inbox, rows, effect>> /\ Typed
  BY DEF HostCrashes, data, Shaped
<1>2. CallsWane
  BY CrashTyped DEF CallsWane
<1>3. \A c \in Clients : client'[c].phase = "open" => client'[c] = client[c]
  BY CrashTyped, IdleIs
<1>4. \A f \in Entries : entry'[f].db = entry[f].db /\ (entry[f].stopped => entry'[f].stopped)
  <2>1. \A f \in Entries : entry'[f] = IF entry[f].host = h THEN Orphaned(entry[f]) ELSE entry[f]
    BY CrashTyped
  <2>2. \A f \in Entries : entry[f] \in Object
    BY <1>1 DEF Typed
  <2> QED BY <2>1, <2>2, OrphanedIs
<1>5. StoresWane
  BY <1>1, <1>3, <1>4, FewerStores DEF Alive
<1>6. QueuesWane
  BY <1>1, InboxSame DEF QueuesWane, InboxesShrink
<1> QED BY <1>1, <1>2, <1>5, <1>6 DEF Waning

(* The other requests keep their places.                                   *)
LEMMA TailKeeps ==
  ASSUME Typed, NEW e \in Entries, inbox[e] # <<>>, inbox' = [inbox EXCEPT ![e] = Tail(@)],
         NEW f \in Entries, NEW r, r # Head(inbox[e]), Queued(f, r)
  PROVE  Queued(f, r)'
<1>1. CASE f # e
  BY <1>1 DEF Queued, Typed
<1>2. CASE f = e
  <2> DEFINE s == inbox[e]
             t == Tail(inbox[e])
  <2>1. s \in Seq(Calls \cup {"close"}) /\ s # <<>> /\ inbox'[e] = t
    BY DEF Typed
  <2>2. PICK i \in DOMAIN s : s[i] = r
    BY <1>2 DEF Queued
  <2>3. Len(s) \in Nat \ {0} /\ DOMAIN s = 1 .. Len(s) /\ Head(s) = s[1]
    BY <2>1, EmptySeq, HeadTailProperties
  <2>4. t \in Seq(Calls \cup {"close"}) /\ Len(t) = Len(s) - 1 /\ \A j \in 1 .. Len(t) : t[j] = s[j + 1]
    BY <2>1, HeadTailProperties
  <2>5. DOMAIN t = 1 .. Len(t)
    BY <2>4
  <2>6. i # 1
    BY <2>2, <2>3
  <2> HIDE DEF s, t
  <2>7. i - 1 \in DOMAIN t /\ t[i - 1] = s[(i - 1) + 1] /\ (i - 1) + 1 = i
    BY <2>2, <2>3, <2>4, <2>5, <2>6
  <2>8. t[i - 1] = r
    BY <2>2, <2>7
  <2> QED BY <1>2, <2>1, <2>7, <2>8 DEF Queued
<1> QED BY <1>1, <1>2

LEMMA AppendKeeps ==
  ASSUME Typed, NEW e \in Entries, NEW q \in Calls, inbox' = [inbox EXCEPT ![e] = Append(@, q)],
         NEW f \in Entries, NEW r, Queued(f, r)
  PROVE  Queued(f, r)'
<1>1. CASE f # e
  BY <1>1 DEF Queued, Typed
<1>2. CASE f = e
  <2>1. inbox[e] \in Seq(Calls \cup {"close"}) /\ inbox'[e] = Append(inbox[e], q)
    BY DEF Typed
  <2>2. \A i \in DOMAIN inbox[e] : i \in DOMAIN inbox'[e] /\ inbox'[e][i] = inbox[e][i]
    BY <2>1, AppendAt
  <2> QED BY <1>2, <2>2 DEF Queued
<1> QED BY <1>1, <1>2

LEMMA ServedStays == ASSUME UNCHANGED <<entry, storage, client>> PROVE Served' = Served
BY DEF Served, Works, Alive

(* One call gets on, the others keep their fates.                          *)
OneGetsOn(q, phase) ==
  /\ PhaseOf(q)' = phase /\ call'[q].operation = call[q].operation /\ call'[q].db = call[q].db
  /\ \A r \in Calls \ {q} :
       /\ PhaseOf(r)' = PhaseOf(r)
       /\ call'[r].operation = call[r].operation /\ call'[r].db = call[r].db

LEMMA FateGetsOn ==
  ASSUME NEW q \in Calls, NEW phase, OneGetsOn(q, phase)
  PROVE  Fates' = [Fates EXCEPT ![q].phase = phase]
<1>1. ASSUME NEW r \in Calls PROVE Fates'[r] = [Fates EXCEPT ![q].phase = phase][r]
  <2>1. /\ Fates[r] = [phase |-> PhaseOf(r), operation |-> call[r].operation, db |-> call[r].db]
        /\ Fates'[r] = [phase |-> PhaseOf(r)', operation |-> call'[r].operation, db |-> call'[r].db]
    BY DEF Fates
  <2>2. [Fates EXCEPT ![q].phase = phase][r] = IF r = q THEN [Fates[r] EXCEPT !.phase = phase] ELSE Fates[r]
    BY DEF Fates
  <2>3. CASE r = q
    BY <2>1, <2>2, <2>3 DEF OneGetsOn
  <2>4. CASE r # q
    BY <2>1, <2>2, <2>4 DEF OneGetsOn
  <2> QED BY <2>3, <2>4
<1>2. /\ DOMAIN Fates' = Calls /\ DOMAIN [Fates EXCEPT ![q].phase = phase] = Calls
  BY DEF Fates
<1> QED BY <1>1, <1>2 DEF Fates

(* The process executes a request: the operation is in the database, and   *)
(* a lost call is in doubt no longer.                                      *)
LEMMA HandlesExecutes ==
  ASSUME Shaped, CallInv, SentFact, NEW e \in Entries, Handles(e, TRUE)
  PROVE  SentFact' /\ Contract!Next
<1>1. PICK q : q = Head(inbox[e])
  OBVIOUS
<1> DEFINE d == entry[e].db
<1>2. /\ inbox[e] # <<>> /\ q # "close"
      /\ inbox' = [inbox EXCEPT ![e] = Tail(@)]
      /\ rows' = [rows EXCEPT ![d] = @ \cup {call[q].operation}]
      /\ effect' = IF call[q].operation \in rows[d] THEN effect ELSE effect \cup {q}
      /\ UNCHANGED <<entry, storage, client, call>>
  BY <1>1 DEF Handles
<1>3. Typed
  BY DEF Shaped
<1>4. InboxesShrink /\ q \in Calls /\ Queued(e, q) /\ ~Queued(e, q)'
  <2>1. inbox[e] # <<>> /\ inbox' = [inbox EXCEPT ![e] = Tail(@)] /\ q = Head(inbox[e]) /\ q # "close"
    BY <1>1, <1>2
  <2>2. /\ InboxesShrink /\ q \in Calls \cup {"close"}
        /\ q \in Calls => Queued(e, q) /\ ~Queued(e, q)'
    BY <1>3, <2>1, InboxReads, Zenon
  <2> QED BY <2>1, <2>2
<1>5. call[q].phase \in {"pending", "lost"} /\ call[q].db = d /\ \A f \in Entries : Queued(f, q) => f = e
  BY <1>4 DEF CallInv, QueueFact
<1>6. SentFact'
  BY <1>2, <1>4 DEF SentFact, InboxesShrink
<1>7. \A r \in Calls \ {q}, f \in Entries : Queued(f, r)' <=> Queued(f, r)
  BY <1>1, <1>2, <1>3, <1>4, TailKeeps DEF InboxesShrink
<1>8. \A f \in Entries : ~Queued(f, q)'
  BY <1>4, <1>5 DEF InboxesShrink
<1>9. \A r \in Calls \ {q} : PhaseOf(r)' = PhaseOf(r)
  <2>1. \A r \in Calls \ {q} : OnItsWay(r)' <=> OnItsWay(r)
    BY <1>7 DEF OnItsWay, Queued
  <2> QED BY <1>2, <2>1 DEF PhaseOf
<1>10. /\ call[q].phase = "pending" => PhaseOf(q) = "pending" /\ PhaseOf(q)' = "pending"
       /\ call[q].phase = "lost" => PhaseOf(q) = "doubtful" /\ PhaseOf(q)' = "over"
  BY <1>2, <1>4, <1>8 DEF PhaseOf, OnItsWay, Queued
<1>11. Fates[q].phase = PhaseOf(q) /\ Fates[q].operation = call[q].operation /\ Fates[q].db = d
  BY <1>4, <1>5, FatesAre
<1> HIDE DEF d
<1>12. Fates' = IF Fates[q].phase = "doubtful" THEN [Fates EXCEPT ![q].phase = "over"] ELSE Fates
  <2>1. CASE call[q].phase = "lost"
    <3>1. OneGetsOn(q, "over")
      BY <1>2, <1>9, <1>10, <2>1 DEF OneGetsOn
    <3>2. Fates' = [Fates EXCEPT ![q].phase = "over"]
      BY <1>4, <3>1, FateGetsOn
    <3> QED BY <1>10, <1>11, <2>1, <3>2
  <2>2. CASE call[q].phase = "pending"
    <3>1. \A r \in Calls : PhaseOf(r)' = PhaseOf(r)
      BY <1>9, <1>10, <2>2
    <3>2. Fates' = Fates
      BY <1>2, <3>1 DEF Fates
    <3> QED BY <1>10, <1>11, <2>2, <3>2
  <2> QED BY <1>5, <2>1, <2>2
<1>13. Served' = Served
  BY <1>2, ServedStays
<1>14. Fates[q].phase \in {"pending", "doubtful"}
  BY <1>5, <1>10, <1>11
<1>15. Contract!Execute(q)
  BY <1>2, <1>11, <1>12, <1>13, <1>14 DEF Contract!Execute
<1> QED BY <1>4, <1>6, <1>15 DEF Contract!Next

(* An answer is read: it is the truth, by MessageFact.                     *)
LEMMA AnsweredTells ==
  ASSUME Shaped, CallInv, SentFact, NEW e \in Entries, Answered(e)
  PROVE  SentFact' /\ Contract!Next
<1>1. PICK m : m = Head(outbox[e])
  OBVIOUS
<1> DEFINE q == m.call
<1>2. /\ outbox[e] # <<>> /\ m.kind = "answer"
      /\ call' = [call EXCEPT ![q] = [@ EXCEPT !.phase = IF m.ok THEN "ok" ELSE "error", !.entry = None]]
      /\ outbox' = [outbox EXCEPT ![e] = Tail(@)]
      /\ UNCHANGED <<entry, storage, inbox, client, rows, effect>>
  BY <1>1 DEF Answered, Arrives, data
<1>3. Typed
  BY DEF Shaped
<1>4. m \in Message /\ Told(e, m)
  BY <1>1, <1>2, <1>3, OutboxReads, Zenon
<1>5. /\ q \in Calls /\ call[q].phase = "pending" /\ call[q].entry = e
      /\ IF m.ok THEN Made(q) ELSE q \notin effect
  BY <1>2, <1>4 DEF CallInv, MessageFact
<1> HIDE DEF q
<1>6. PICK phase \in {"ok", "error"} : phase = IF m.ok THEN "ok" ELSE "error"
  OBVIOUS
<1>7. /\ call'[q].operation = call[q].operation /\ call'[q].db = call[q].db /\ call'[q].phase = phase
      /\ \A r \in Calls \ {q} : call'[r] = call[r]
  <2> DEFINE s == [call[q] EXCEPT !.phase = phase, !.entry = None]
  <2>1. call[q] \in Call
    BY <1>3, <1>5 DEF Typed
  <2>2. s.operation = call[q].operation /\ s.db = call[q].db /\ s.phase = phase
    BY <2>1 DEF Call
  <2>3. call' = [call EXCEPT ![q] = s]
    BY <1>2, <1>3, <1>6 DEF Typed, q
  <2> HIDE DEF s
  <2> QED BY <1>3, <1>5, <2>2, <2>3 DEF Typed
<1>8. SentFact'
  BY <1>2 DEF SentFact, Queued
<1>9. PhaseOf(q) = "pending" /\ PhaseOf(q)' = phase
  BY <1>5, <1>7 DEF PhaseOf
<1>10. \A r \in Calls \ {q} : PhaseOf(r)' = PhaseOf(r)
  BY <1>2, <1>7 DEF PhaseOf, OnItsWay
<1>11. OneGetsOn(q, phase)
  BY <1>7, <1>9, <1>10 DEF OneGetsOn
<1>12. Fates' = [Fates EXCEPT ![q].phase = phase]
  BY <1>5, <1>11, FateGetsOn
<1>13. Fates[q].phase = "pending" /\ Fates[q].operation = call[q].operation /\ Fates[q].db = call[q].db
  BY <1>5, <1>9, FatesAre
<1>14. Served' = Served
  BY <1>2, ServedStays
<1>15. CASE m.ok
  <2>1. phase = "ok" /\ call[q].operation \in rows[call[q].db]
    BY <1>5, <1>6, <1>15 DEF Made
  <2>2. Contract!Succeed(q)
    BY <1>2, <1>12, <1>13, <1>14, <2>1 DEF Contract!Succeed
  <2> QED BY <1>5, <1>8, <2>2 DEF Contract!Next
<1>16. CASE ~m.ok
  <2>1. phase = "error" /\ q \notin effect
    BY <1>5, <1>6, <1>16
  <2>2. Contract!Fail(q)
    BY <1>2, <1>12, <1>13, <1>14, <2>1 DEF Contract!Fail
  <2> QED BY <1>5, <1>8, <2>2 DEF Contract!Next
<1> QED BY <1>15, <1>16

(* A call is made or refused.                                              *)
LEMMA CallAsks ==
  ASSUME Shaped, OwnerInv, CallInv, SentFact, NEW c \in Clients, NEW q \in Calls, NEW operation \in Operations,
         CallSent(c, q, operation) \/ CallRefused(c, q, operation)
  PROVE  SentFact' /\ Contract!Next
<1>1. PICK e \in Entries : e = client[c].entry
  BY CallTyped
<1>2. /\ client[c].phase = "open" /\ call[q].phase = "none" /\ Typed
      /\ UNCHANGED <<entry, storage, client, rows, effect>>
  BY DEF CallSent, CallRefused, Shaped, data
<1>3. /\ entry[e].host = Host[c] /\ Host[c] \in Hosts /\ entry[e].ready = "resolved"
  BY <1>1, <1>2, ClientsHaveHosts DEF OwnerInv, ClientFact
<1>4. entry[e].db \in Databases /\ storage[e].phase # "locking"
  BY <1>3, NoneIsNothing DEF CallInv, EntryServes
<1>5. \A f \in Entries : ~Queued(f, q)
  BY <1>2 DEF CallInv, CallFact
<1>6. PICK phase \in {"pending", "refused"} :
        /\ call' = [call EXCEPT ![q] = Asked(c, operation, phase)]
        /\ phase = "pending" => CallSent(c, q, operation)
        /\ phase = "refused" => CallRefused(c, q, operation)
  BY DEF CallSent, CallRefused
<1>7. /\ call'[q].phase = phase /\ call'[q].db = entry[e].db /\ call'[q].operation = operation
      /\ \A r \in Calls \ {q} : call'[r] = call[r]
  BY <1>1, <1>2, <1>6 DEF Asked, Typed
<1>8. inbox' = inbox \/ (Alive(e) /\ inbox' = [inbox EXCEPT ![e] = Append(@, q)])
  BY <1>1, <1>6 DEF CallSent, CallRefused
<1>9. \A f \in Entries, r \in Calls :
        Queued(f, r)' => Queued(f, r) \/ (f = e /\ storage[e].phase \in {"serving", "closed"} /\ r = q)
  <2>1. CASE inbox' = inbox
    BY <2>1, InboxSame DEF InboxesShrink
  <2>2. CASE Alive(e) /\ inbox' = [inbox EXCEPT ![e] = Append(@, q)]
    <3>1. storage[e].phase \in {"serving", "closed"}
      BY <1>4, <2>2 DEF Alive
    <3>2. \A f \in Entries : \A r \in Calls : Queued(f, r)' => Queued(f, r) \/ (f = e /\ r = q)
      BY <1>2, <1>5, <2>2, InboxGrows
    <3> QED BY <3>1, <3>2
  <2> QED BY <1>8, <2>1, <2>2
<1>10. SentFact'
  BY <1>2, <1>9 DEF SentFact
<1>11. \A r \in Calls \ {q} : OnItsWay(r)' <=> OnItsWay(r)
  <2>1. \A f \in Entries, r \in Calls \ {q} : Queued(f, r) => Queued(f, r)'
    <3>1. CASE inbox' = inbox
      BY <3>1 DEF Queued
    <3>2. CASE inbox' = [inbox EXCEPT ![e] = Append(@, q)]
      BY <1>2, <3>2, AppendKeeps
    <3> QED BY <1>8, <3>1, <3>2
  <2>2. \A f \in Entries, r \in Calls \ {q} : Queued(f, r)' <=> Queued(f, r)
    BY <1>9, <2>1
  <2> QED BY <2>2 DEF OnItsWay, Queued
<1>12. \A r \in Calls \ {q} : PhaseOf(r)' = PhaseOf(r)
  BY <1>7, <1>11 DEF PhaseOf
<1>13. PhaseOf(q)' = phase /\ PhaseOf(q) = "none"
  BY <1>2, <1>7 DEF PhaseOf
<1>14. Fates' = [Fates EXCEPT ![q] = [phase |-> phase, operation |-> operation, db |-> entry[e].db]]
  <2>1. ASSUME NEW r \in Calls
        PROVE  Fates'[r] = IF r = q THEN [phase |-> phase, operation |-> operation, db |-> entry[e].db] ELSE Fates[r]
    BY <1>7, <1>12, <1>13 DEF Fates
  <2> QED BY <2>1 DEF Fates
<1>15. Fates[q].phase = "none" /\ Served' = Served
  BY <1>2, <1>13, FatesAre, ServedStays
<1>16. Contract!Asked(q, operation, entry[e].db, phase)
  BY <1>2, <1>14, <1>15 DEF Contract!Asked
<1>17. Contract!Ask(q, operation, entry[e].db) \/ Contract!Refuse(q, operation, entry[e].db)
  BY <1>6, <1>16 DEF Contract!Ask, Contract!Refuse
<1> QED BY <1>4, <1>10, <1>17 DEF Contract!Next

(* A store is opened, of a database that no lost call may still change.    *)
LEMMA OpensServes ==
  ASSUME Shaped, OwnerInv, CallInv, SentFact, NEW c \in Clients, Opens(c)
  PROVE  SentFact' /\ (Clear' => Contract!Next)
<1>1. PICK e \in Entries : e = client[c].entry
  BY LeaverTyped
<1>2. /\ EntryBecomes(e, Readied(entry[e])) /\ LocksKept /\ Becoming(c, "open", client[c].path, e)
      /\ Typed /\ entry[e] \in Object
  BY <1>1, LeaverTyped DEF Shaped, Typed
<1>3. UNCHANGED <<storage, inbox, call, rows, effect>> /\ client[c].phase = "awaitsReady"
  BY DEF Opens, data
<1>4. \A f \in Entries : entry'[f].db = entry[f].db /\ entry'[f].stopped = entry[f].stopped
  <2>1. PICK o \in Object : o = Readied(entry[e]) /\ SamePlace(o, entry[e]) /\ o.stopped = entry[e].stopped
    BY <1>2, ReadyIs
  <2> QED BY <1>2, <2>1, Becomes DEF EntryBecomes, SamePlace
<1>5. SentFact'
  BY <1>3 DEF SentFact, Queued
<1> DEFINE d == entry[e].db
<1>6. d \in Databases
  <2>1. entry[e].host = Host[c] /\ Host[c] \in Hosts
    BY <1>1, <1>3, ClientsHaveHosts DEF OwnerInv, ClientFact
  <2> QED BY <2>1, NoneIsNothing DEF CallInv, EntryServes
<1>7. \A b \in Clients \ {c} : client'[b] = client[b]
  BY <1>2 DEF Becoming
<1>8. \A b \in Clients \ {c} : Works(b)' <=> Works(b)
  BY <1>3, <1>4, <1>7 DEF Works, Alive, Shaped, Placed
<1>9. \A b \in Clients \ {c} : Works(b) => entry'[client'[b].entry].db = entry[client[b].entry].db
  BY <1>4, <1>7 DEF Works, Shaped, Placed
<1>10. ~Works(c) /\ client'[c].entry = e /\ entry'[e].db = d
  BY <1>2, <1>3, <1>4 DEF Works, Becoming
<1> HIDE DEF d
<1>11. CASE ~Works(c)'
  <2>1. Waning
    <3>1. StoresWane
      BY <1>8, <1>9, <1>11 DEF StoresWane
    <3>2. QueuesWane /\ CallsWane
      BY <1>3 DEF QueuesWane, CallsWane, Queued
    <3> QED BY <1>3, <3>1, <3>2 DEF Waning
  <2> QED BY <1>5, <2>1, WaningBreaks
<1>12. CASE Works(c)'
  <2>1. Served' = Served \cup {d}
    <3>1. ASSUME NEW x \in Databases PROVE x \in Served' <=> x \in Served \/ x = d
      BY <1>8, <1>9, <1>10, <1>12, <3>1 DEF Served
    <3> QED BY <1>6, <3>1 DEF Served
  <2>2. Fates' = Fates
    BY <1>3 DEF Fates, PhaseOf, OnItsWay
  <2>3. ASSUME Clear', NEW q \in Calls, Fates[q].db = d PROVE Fates[q].phase # "doubtful"
    <3>1. PhaseOf(q)' = PhaseOf(q) /\ call'[q].db = d
      <4>1. PhaseOf(q)' = PhaseOf(q) /\ call'[q].db = call[q].db
        BY <1>3 DEF PhaseOf, OnItsWay
      <4> QED BY <2>3, <4>1, FatesAre
    <3>2. d \in Served'
      BY <2>1
    <3> QED BY <2>3, <3>1, <3>2, FatesAre DEF Clear
  <2>4. Clear' => Contract!Serve(d)
    BY <1>3, <2>1, <2>2, <2>3 DEF Contract!Serve
  <2> QED BY <1>5, <1>6, <2>4 DEF Contract!Next
<1> QED BY <1>11, <1>12

LEMMA StoreNext ==
  ASSUME Shaped, OwnerInv, CallInv, SentFact, [Next]_vars
  PROVE  SentFact' /\ (Clear' => Contract!Next)
<1>1. ASSUME Waning PROVE SentFact' /\ (Clear' => Contract!Next)
  BY <1>1, WaningKeepsSent, WaningBreaks
<1>2. ASSUME NEW e \in Entries, Process(e) PROVE SentFact' /\ (Clear' => Contract!Next)
  <2>1. \/ TakesLock(e) \/ Loads(e) \/ LoadFails(e) \/ HandlesClose(e) \/ Exits(e)
        \/ Handles(e, FALSE) \/ Handles(e, TRUE)
    BY <1>2 DEF Process
  <2> QED BY <1>1, <2>1, ProcessWanes, HandlesExecutes
<1>3. ASSUME NEW e \in Entries, Events(e) \/ FailureDisposes(e) PROVE SentFact' /\ (Clear' => Contract!Next)
  BY <1>1, <1>3, EventWanes, AnsweredTells
<1>4. ASSUME NEW c \in Clients, Continues(c) PROVE SentFact' /\ (Clear' => Contract!Next)
  <2>1. CASE \E e \in Entries, d \in Databases : CreateEntry(c, e, d) \/ IdentityFails(c, e, d)
    BY <1>1, <2>1, SpawnWanes
  <2>2. CASE CreateFails(c) \/ RefusesMoved(c) \/ AwaitsDisposal(c) \/ LooksAgain(c)
    <3>1. UNCHANGED <<entry, storage, inbox, call, rows, effect>>
      BY <2>2, WaitsTyped DEF data
    <3>2. PICK phase, path, x : phase \in {"idle", "looking", "awaitsDisposal"} /\ Becoming(c, phase, path, x)
      BY <2>2, WaitsTyped
    <3> QED BY <1>1, <3>1, <3>2, WaitsWane
  <2>3. CASE JoinEntry(c) \/ OpenFails(c)
    BY <1>1, <2>3, LeaverWanes, JoinTyped, LeaverTyped
  <2>4. CASE Opens(c)
    BY <2>4, OpensServes
  <2> QED BY <1>4, <2>1, <2>2, <2>3, <2>4 DEF Continues
<1>5. ASSUME NEW c \in Clients, Uses(c) PROVE SentFact' /\ (Clear' => Contract!Next)
  <2>1. ASSUME NEW p \in Paths, Open(c, p) PROVE Waning
    <3>1. UNCHANGED <<entry, storage, inbox, call, rows, effect>>
      BY <2>1 DEF Open, data
    <3> QED BY <2>1, <3>1, OpenTyped, WaitsWane
  <2>2. CASE CloseReference(c) \/ CloseSends(c) \/ CloseRefused(c)
    BY <1>1, <2>2, LeaverWanes, LeaverTyped
  <2> QED BY <1>1, <1>5, <2>1, <2>2, CallAsks DEF Uses
<1>6. ASSUME NEW h \in Hosts, HostCrashes(h) PROVE SentFact' /\ (Clear' => Contract!Next)
  BY <1>1, <1>6, CrashWanes
<1>7. ASSUME UNCHANGED <<entry, storage, inbox, client, call, rows, effect>>
      PROVE  SentFact' /\ (Clear' => Contract!Next)
  <2>1. QueuesWane /\ CallsWane
    BY <1>7 DEF QueuesWane, CallsWane, Queued
  <2>2. StoresWane
    BY <1>7 DEF StoresWane, Works, Alive
  <2> QED BY <1>1, <1>7, <2>1, <2>2 DEF Waning
<1>8. ASSUME NEW p \in Paths, NEW r \in Paths, Renamed(p, r) PROVE SentFact' /\ (Clear' => Contract!Next)
  BY <1>7, <1>8 DEF Renamed
<1>9. CASE UNCHANGED vars
  BY <1>7, <1>9 DEF vars
<1> QED BY <1>2, <1>3, <1>4, <1>5, <1>6, <1>8, <1>9 DEF Next

LEMMA StoreInit == ASSUME Init PROVE SentFact /\ Contract!Init
<1>1. /\ \A e \in Entries : inbox[e] = <<>>
      /\ \A q \in Calls : call[q] = NoCall
      /\ \A c \in Clients : client[c] = Idle
      /\ rows = [d \in Databases |-> {}] /\ effect = {}
  BY DEF Init
<1>2. \A e \in Entries : DOMAIN inbox[e] = {}
  BY <1>1
<1>3. SentFact
  BY <1>2 DEF SentFact, Queued
<1>4. Fates = [q \in Calls |-> [phase |-> "none", operation |-> None, db |-> None]]
  BY <1>1 DEF Fates, PhaseOf, NoCall
<1>5. Served = {}
  BY <1>1, IdleIs DEF Served, Works
<1> QED BY <1>1, <1>3, <1>4, <1>5 DEF Contract!Init

(* The mail store keeps the contract of a store, whatever times out,       *)
(* crashes or hangs (rpcClient.ts and MailStore.ts with the flocks of the  *)
(* storage process).                                                       *)
THEOREM StoreKeepsTheContract == Spec => ImplementsStore
<1>1. Init => SentFact /\ Contract!Init
  BY StoreInit
<1>2. IInv /\ CallInv /\ SentFact /\ [Next]_vars => SentFact' /\ (Clear' => Contract!Next)
  BY StoreNext DEF IInv
<1>3. IInv /\ CallInv /\ SentFact => Clear
  BY SentIsClear
<1>4. Contract!Next => [Contract!Next]_(Contract!vars)
  OBVIOUS
<1> QED BY <1>1, <1>2, <1>3, <1>4, CallInvariant, PTL DEF Spec, ImplementsStore, Contract!Spec
=============================================================================
