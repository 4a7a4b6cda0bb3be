---------------------------- MODULE UnifiedInbox ----------------------------
(***************************************************************************)
(* The unified inbox: one row per message of the connected sources, the    *)
(* copies of a message that several sources received coalesced into one    *)
(* representative, newest first, in pages.  A page is asked for with the   *)
(* key of the last row before it.  The query reads a bounded window of the *)
(* most recent rows first and, when that cannot fill the page, discards    *)
(* what it found and sorts everything the connected sources hold.          *)
(*                                                                         *)
(* ORDER BY is a total order on messages, so a result is a set here and    *)
(* LIMIT n keeps its first n elements.                                     *)
(***************************************************************************)
EXTENDS MailArchive

CONSTANTS
  MinRecentScan,     \* MIN_RECENT_SCAN_WINDOW
  ScanPerRow,        \* rows of the window per row wanted
  MaxRecentCopies    \* MAX_RECENT_CORRELATION_COPIES

ASSUME ScanIsBounded == MinRecentScan \in Nat /\ ScanPerRow \in Nat /\ MaxRecentCopies \in Nat

(* ORDER BY message_at DESC NULLS LAST, id DESC. *)
Before(a, m, n) ==
  \/ Time(a, m) > Time(a, n)
  \/ Time(a, m) = Time(a, n) /\ m > n

(* LIMIT n *)
First(a, S, n) == {m \in S : Cardinality({x \in S : Before(a, x, m)}) < n}

Addressed(a, E, m) == a.mail[m].to \in E[a.mail[m].source]

(* The correlation key: the Message-ID, or the row's own id without one.   *)
Correlated(a, m, n) == m = n \/ (a.mail[m].rfc # None /\ a.mail[m].rfc = a.mail[n].rfc)

Copies(a, E, m) == {n \in Eligible(a, E) : Correlated(a, m, n)}

(* addressed DESC, message_at DESC NULLS LAST, source_id ASC, id ASC *)
Preferred(a, E, m, n) ==
  LET sm == a.mail[m].source  sn == a.mail[n].source IN
  \/ Addressed(a, E, m) /\ ~Addressed(a, E, n)
  \/ /\ Addressed(a, E, m) = Addressed(a, E, n)
     /\ \/ Time(a, m) > Time(a, n)
        \/ Time(a, m) = Time(a, n) /\ (sm < sn \/ (sm = sn /\ m < n))

Best(a, E, S) == {p \in S : \A n \in S \ {p} : Preferred(a, E, p, n)}

Representatives(a, E) == {m \in Eligible(a, E) : m \in Best(a, E, Copies(a, E, m))}

(* A key is what a cursor carries: the time and id of the last row served. *)
Key == [time : Times \cup {NoTime}, id : Messages]

Keyset(a, mode, key, m) ==
  CASE mode = "all" -> TRUE
    [] mode = "before-timestamp" ->
         /\ Time(a, m) # NoTime
         /\ Time(a, m) <= key.time
         /\ Time(a, m) < key.time \/ m < key.id
    [] mode = "all-null" -> Time(a, m) = NoTime
    [] mode = "before-null" -> Time(a, m) = NoTime /\ m < key.id

SourceFallback(a, E, mode, key, wanted) ==
  First(a, {m \in Representatives(a, E) : Keyset(a, mode, key, m)}, wanted)

Scan(wanted) ==
  IF MinRecentScan > ScanPerRow * wanted THEN MinRecentScan ELSE ScanPerRow * wanted

(* The window holds rows of every source; what it selects are the primary  *)
(* copies, found among all eligible rows, that lie in the window too.      *)
RecentWindow(a, E, mode, key, wanted) ==
  LET window     == First(a, {m \in a.live : Keyset(a, mode, key, m)}, Scan(wanted))
      candidates == window \cap Eligible(a, E)
      safe       == \A m \in candidates :
                      Cardinality(Copies(a, E, m) \cap candidates) <= MaxRecentCopies
      primary    == {p \in candidates :
                      \E m \in candidates : p \in Best(a, E, Copies(a, E, m))}
  IN IF safe THEN First(a, primary, wanted) ELSE {}

Adaptive(a, E, mode, key, wanted) ==
  LET recent == RecentWindow(a, E, mode, key, wanted)
  IN IF Cardinality(recent) >= wanted
     THEN recent
     ELSE SourceFallback(a, E, mode, key, wanted)

PageRowsTimedOnly(a, E, key, wanted) ==
  IF key = None THEN Adaptive(a, E, "all", key, wanted)
  ELSE IF key.time = NoTime THEN Adaptive(a, E, "before-null", key, wanted)
  ELSE Adaptive(a, E, "before-timestamp", key, wanted)

(* A page after a timed row runs on into the rows without a time.          *)
PageRows(a, E, key, wanted) ==
  IF key = None THEN Adaptive(a, E, "all", key, wanted)
  ELSE IF key.time = NoTime THEN Adaptive(a, E, "before-null", key, wanted)
  ELSE LET timed == Adaptive(a, E, "before-timestamp", key, wanted)
           short == wanted - Cardinality(timed)
       IN IF short > 0
          THEN timed \cup SourceFallback(a, E, "all-null", key, short)
          ELSE timed

(* What the pages are read from: the reference the walk is compared with.  *)
After(a, E, key) ==
  {m \in Representatives(a, E) :
     key = None \/ key.time > Time(a, m) \/ (key.time = Time(a, m) /\ key.id > m)}
=============================================================================
