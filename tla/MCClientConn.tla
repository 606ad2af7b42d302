---------------------------- MODULE MCClientConn ----------------------------
(* ClientConn on two requests and two sockets: when r1 fails, its callback *)
(* may make r2.                                                            *)
EXTENDS ClientConn
CONSTANTS r1, r2

\* Bound: two breaks, one with an agent that is too old.
SmallInit == Init /\ breaks = IF modern THEN 0 ELSE 1
SmallSpec == SmallInit /\ [][Next]_vars /\ Fairness

RetryOnce == [r \in Requests |-> IF r = r1 THEN r2 ELSE None]
=============================================================================
