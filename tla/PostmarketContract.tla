------------------------- MODULE PostmarketContract -------------------------
(***************************************************************************)
(* What the post-market coordination promises to the jobs that use it:     *)
(* one job at a time, each job at most once, no review of a session that   *)
(* was processed, only a review marks a session, its own, and a processed  *)
(* session stays processed.                                                *)
(***************************************************************************)
EXTENDS Naturals

CONSTANTS
  Reviews,          \* executions of the post-market review
  Reconciliations,  \* executions of the broker reconciliation
  MaxSession

VARIABLES
  session,    \* the session each review asks for
  busy,       \* the jobs that are working
  entered,    \* the jobs that were ever admitted or gave up
  reviewed,   \* the reviews that marked their session
  processed   \* the sessions that need no further review

contractVars == <<session, busy, entered, reviewed, processed>>

CInit ==
  /\ session \in [Reviews -> 1 .. MaxSession]
  /\ busy = {} /\ entered = {} /\ reviewed = {} /\ processed = {}

\* A review settles on its session before it is admitted.
Ask(r, s) ==
  /\ r \in Reviews \ entered
  /\ session' = [session EXCEPT ![r] = s]
  /\ UNCHANGED <<busy, entered, reviewed, processed>>

\* A job is admitted alone; a review, only if its session is not processed.
Enter(r) ==
  /\ busy = {}
  /\ r \in (Reviews \cup Reconciliations) \ entered
  /\ r \in Reviews => session[r] \notin processed
  /\ busy' = {r}
  /\ entered' = entered \cup {r}
  /\ UNCHANGED <<session, reviewed, processed>>

\* A job that is not admitted, or whose request raised.
GiveUp(r) ==
  /\ r \in (Reviews \cup Reconciliations) \ entered
  /\ entered' = entered \cup {r}
  /\ UNCHANGED <<session, busy, reviewed, processed>>

\* Jobs end, alone or with their process.
Leave(gone) ==
  /\ gone # {}
  /\ gone \subseteq busy
  /\ busy' = busy \ gone
  /\ UNCHANGED <<session, entered, reviewed, processed>>

\* The working review marks its own session, once.
Mark(r) ==
  /\ r \in (Reviews \cap busy) \ reviewed
  /\ reviewed' = reviewed \cup {r}
  /\ processed' = processed \cup {session[r]}
  /\ UNCHANGED <<session, busy, entered>>

\* A review that marked its session puts all earlier ones behind it.
CatchUp(r) ==
  /\ r \in reviewed \ busy
  /\ processed' = processed \cup 1 .. session[r]
  /\ UNCHANGED <<session, busy, entered, reviewed>>

CNext ==
  \/ \E r \in Reviews, s \in 1 .. MaxSession : Ask(r, s)
  \/ \E r \in Reviews \cup Reconciliations :
       Enter(r) \/ GiveUp(r) \/ Mark(r) \/ CatchUp(r)
  \/ \E gone \in SUBSET busy : Leave(gone)

Spec == CInit /\ [][CNext]_contractVars
=============================================================================
