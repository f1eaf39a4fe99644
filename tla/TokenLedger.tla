----------------------------- MODULE TokenLedger -----------------------------
(***************************************************************************)
(* What the login promises of its tokens: each is stored, then audited,    *)
(* then in a client's hands, then closed, one token and one move at a      *)
(* time, and a closed token is never opened again.                         *)
(***************************************************************************)
CONSTANT Jtis

VARIABLE ledger   \* ledger[j]: what is on record of token j

Facts == {"stored", "audited", "held", "closed"}

\* The last write of a login is the log, and its answer the client's token; a
\* login whose answer is lost leaves an audited token nobody holds.
Moves == {<<{}, {"stored"}>>,
          <<{"stored"}, {"stored", "audited"}>>,
          <<{"stored"}, {"stored", "audited", "held"}>>,
          <<{"stored", "audited", "held"}, Facts>>}

Init == ledger = [j \in Jtis |-> {}]

Next == \E j \in Jtis, m \in Moves :
          ledger[j] = m[1] /\ ledger' = [ledger EXCEPT ![j] = m[2]]

Spec == Init /\ [][Next]_ledger
=============================================================================
