---------------------------- MODULE MCTicketApi ----------------------------
(* TicketApi on small instances. *)
EXTENDS TicketApi, TLC

CONSTANTS a1, a2, r1, r2, r3

OneApi    == {a1}
TwoApis   == {a1, a2}
TwoReqs   == {r1, r2}
ThreeReqs == {r1, r2, r3}

AllRoles    == {"anonymous", "viewer", "operator"}
Operators   == {"operator"}
SomeRoles   == {"viewer", "operator"}
AllFaults   == {"db", "gone", "crash", "stop"}
NoFaults    == {}

(* Requests are interchangeable: a ticket is named by the one creating it. *)
Interchangeable == Permutations(Reqs)

Sent == {r \in Reqs : pc[r] # "idle"}

Accepted(c) == c.role = "operator" /\ c.valid

(* Bound: no handler looks into a request that is refused, so one for each *)
(* role, operation and ground of refusal stands for the others.            *)
RefusedAlike ==
  \A r \in Sent : ~Accepted(call[r]) =>
    /\ call[r].role # "operator" => call[r].valid
    /\ call[r].op = "create" => ~call[r].high
    /\ call[r].op = "close" => call[r].id = r

(* Bound: requests and faults together; three requests only if each passes *)
(* RequireMutate and the parsing of its input.                             *)
Small ==
  /\ Cardinality(Sent) + (MaxFaults - budget) <= 3
  /\ Cardinality(Sent) > 2 => \A r \in Sent : Accepted(call[r])
  /\ RefusedAlike

SmallSpec == Init /\ [][Next /\ Small']_vars

=============================================================================
