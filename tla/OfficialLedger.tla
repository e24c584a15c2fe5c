--------------------------- MODULE OfficialLedger ---------------------------
(***************************************************************************)
(* What the backend promises about ranking, without sessions, locks or     *)
(* requests: a write-once ledger that pays each user at most once for each *)
(* test, and a balance that nothing but the ledger moves.                  *)
(***************************************************************************)
EXTENDS Integers

CONSTANTS
    Users, Tests,
    MaxReward    \* no test pays more than this

VARIABLES
    awards,    \* the official attempts: who was paid what for which test
    balance    \* the points of each user

Init ==
    /\ awards = {}
    /\ balance = [u \in Users |-> 0]

Pay(u, t, points) ==
    /\ balance' = [balance EXCEPT ![u] = @ + points]
    /\ \A a \in awards : ~(a.user = u /\ a.test = t)
    /\ awards' = awards \cup {[user |-> u, test |-> t, points |-> points]}

Next == \E u \in Users, t \in Tests, points \in 0 .. MaxReward : Pay(u, t, points)

Spec == Init /\ [][Next]_<<awards, balance>>
=============================================================================
