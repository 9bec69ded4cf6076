---------------------------- MODULE FillContract ----------------------------
(***************************************************************************)
(* What the fill watch and the reconciliations promise together, whoever   *)
(* does the work: an order is settled once and for all, the execution of a *)
(* fill is marked once, and the chat hears of a fill once it is settled,   *)
(* until a message is known to have arrived or the matter is dropped.      *)
(***************************************************************************)
EXTENDS Naturals

CONSTANTS
  Orders,
  AnswerMayBeLost,  \* an accepted message may look like a refused one
  Faults            \* a crash or a failing store may drop an announcement

VARIABLES
  status,    \* open, or what the order was settled as
  executed,  \* how often the execution of a fill was marked
  told,      \* how many messages of a fill reached the chat, up to 2
  closed     \* the fills of which no further message is sent

contractVars == <<status, executed, told, closed>>

CInit ==
  /\ status = [o \in Orders |-> "open"]
  /\ executed = [o \in Orders |-> 0]
  /\ told = [o \in Orders |-> 0]
  /\ closed = {}

\* Orders are settled together, and the executions of fills are marked, with
\* their settling or after it.
Settle(S, X) ==
  /\ \A o \in S : status[o] = "open"
  /\ \E result \in [S -> {"filled", "canceled"}] :
       status' = [o \in Orders |-> IF o \in S THEN result[o] ELSE status[o]]
  /\ \A o \in X : executed[o] = 0 /\ status'[o] = "filled"
  /\ executed' = [o \in Orders |-> IF o \in X THEN 1 ELSE executed[o]]
  /\ UNCHANGED <<told, closed>>

\* A message reaches the chat. Its answer, if it arrives, ends the matter.
Tell(o, answered) ==
  /\ status[o] = "filled"
  /\ o \notin closed
  /\ answered \/ AnswerMayBeLost
  /\ told' = [told EXCEPT ![o] = IF @ = 0 THEN 1 ELSE 2]
  /\ closed' = IF answered THEN closed \cup {o} ELSE closed
  /\ UNCHANGED <<status, executed>>

\* Announcements that were begun are dropped for good.
Drop(S) ==
  /\ Faults
  /\ \A o \in S : status[o] = "filled"
  /\ closed' = closed \cup S
  /\ UNCHANGED <<status, executed, told>>

CNext ==
  \/ \E S, X \in SUBSET Orders : Settle(S, X)
  \/ \E o \in Orders, answered \in BOOLEAN : Tell(o, answered)
  \/ \E S \in SUBSET Orders : Drop(S)

Spec == CInit /\ [][CNext]_contractVars
=============================================================================
