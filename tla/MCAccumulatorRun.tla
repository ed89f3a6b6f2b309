--------------------------- MODULE MCAccumulatorRun ---------------------------
(* Instances of AccumulatorRun for TLC: three events, two per inference, a  *)
(* 32-bit count wraps at 4.  Tags t1 and u1 are two pointers to one string. *)
EXTENDS AccumulatorRun, TLC

CONSTANTS t1, u1, t2, t3, client1, client2

MCText(tag) == IF tag = u1 THEN t1 ELSE tag
MCCost(n, e) == 2 * n + e + 1
MCOverhead(e) == 1

(* A model that nothing occurs in: whoever runs it may do so for ever. *)
MCNoCost(n, e) == 0
MCNoOverhead(e) == 0

Asked(ops, events, by_tag) == [ops |-> ops, events |-> events, by_tag |-> by_tag]

(* Rows by tag and by index, one pass and two; requests that are refused. *)
MCJob == {Asked(2, 3, TRUE), Asked(2, 2, FALSE)}
Refused == {Asked(0, 3, TRUE), Asked(4, 1, TRUE), Asked(2, 0, TRUE),
            Asked(1, 4, TRUE)}
MCJobOrRefused == MCJob \cup Refused

(* client1 repeats a string through another pointer; client2 has more      *)
(* strings than the matrix has rows.                                        *)
MCModel == client1 :> <<t1, t2, u1>> @@ client2 :> <<t2, t3, t1>>

(* Short models, for the runs in which a matrix may read foreign values or  *)
(* be entered under a stale handle, whose tag then fills the table.         *)
MCShortModel == client1 :> <<t1, t2>> @@ client2 :> <<t3>>
MCTagged == {Asked(2, 3, TRUE)}

(* Two full passes: whoever owns the PMU, a read gives the owner's counts. *)
MCTwoPasses == {Asked(1, 4, FALSE)}
===============================================================================
