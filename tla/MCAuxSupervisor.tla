-------------------------- MODULE MCAuxSupervisor --------------------------
(* Instances of AuxSupervisor for TLC: two services, the second of which    *)
(* dates its artifact itself.                                               *)
EXTENDS AuxSupervisor, TLC

CONSTANTS p1, p2, p3, sleeve, overlay

MCOrder == <<sleeve, overlay>>
MCDue == sleeve :> 1 @@ overlay :> 1

\* Two supervisors of the whole schedule, or of one service, or one of each
\* that get in each other's way; and somebody who runs a service by hand.
MCDeployments ==
  {p1 :> MCOrder @@ p2 :> MCOrder @@ p3 :> <<sleeve>>,
   p1 :> <<overlay>> @@ p2 :> <<overlay>> @@ p3 :> MCOrder,
   p1 :> MCOrder @@ p2 :> <<sleeve>> @@ p3 :> <<overlay>>}
=============================================================================
