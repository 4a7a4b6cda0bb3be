-------------------------- MODULE MailStoreContract --------------------------
(* The mail store, with its hosts, registries and storage processes,       *)
(* implements the store contract.                                          *)
EXTENDS MailStoreRpc

\* A lost call is in doubt while it is on its way to a storage process.
OnItsWay(q) == \E e \in Entries : \E i \in DOMAIN inbox[e] : inbox[e][i] = q

PhaseOf(q) ==
  IF call[q].phase # "lost" THEN call[q].phase
  ELSE IF OnItsWay(q) THEN "doubtful" ELSE "over"

Fates == [q \in Calls |-> [phase |-> PhaseOf(q), operation |-> call[q].operation, db |-> call[q].db]]

\* A facade works until its entry stops or its process dies.
Works(c) ==
  client[c].phase = "open" /\ Alive(client[c].entry) /\ ~entry[client[c].entry].stopped

Served == {d \in Databases : \E c \in Clients : Works(c) /\ entry[client[c].entry].db = d}

Contract == INSTANCE StoreContract WITH call <- Fates, served <- Served

(* Every step of hosts, clients and storage processes is a step of the     *)
(* contract or leaves it alone: whatever times out, crashes or hangs, no   *)
(* caller is told what is not so, no operation is made twice, and nobody   *)
(* works with a database that a lost call may still change.                *)
ImplementsStore == Contract!Spec
=============================================================================
