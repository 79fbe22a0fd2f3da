--------------------------- MODULE MCAuthSession ---------------------------
(* AuthSession on a small instance. *)
EXTENDS AuthSession, FiniteSets

CONSTANTS b1, b2, f1, f2, c1, c2

TwoBrowsers == {b1, b2}
TwoFlows    == {f1, f2}
TwoCalls    == {c1, c2}

Claim(groups, listed) == [groups |-> groups, listed |-> listed]

Operator == Claim({"operators", "viewers"}, FALSE)

(* One account for each way the role is found. *)
AllAccounts ==
  {Operator, Claim({}, TRUE), Claim({}, FALSE), Claim({"others"}, TRUE),
   Claim({"viewers", "others"}, TRUE)}

(* Bound: other accounts than Operator, and changes of them, only with one *)
(* browser at work and one callback in flight.  Flows are interchangeable, *)
(* so that they are started in order.                                      *)
Started  == {f \in Flows : owner[f] # None}
InFlight == {c \in Calls : call[c] # Free}
Small ==
  /\ f2 \in Started => f1 \in Started
  /\ changes > 0 \/ (\E b \in Browsers : account[b] # Operator) =>
       /\ \A f \in Started : owner[f] = b1
       /\ Cardinality(InFlight) <= 1
       /\ account[b2] = Operator

SmallInit == Init /\ Small

SmallSpec ==
  /\ SmallInit
  /\ [][Next /\ Small']_vars
  /\ \A f \in Flows : WF_vars(TokenExpires(f))

=============================================================================
