------------------------------ MODULE MCTransport ------------------------------
(* An instance of Transport for TLC: a buffer of three bytes, so that two   *)
(* bytes wait at most; messages of up to four bytes, with a NUL in one.     *)
EXTENDS Transport

CONSTANTS x, y

MCMessage == {<<x>>, <<NL>>, <<y, NL>>, <<x, y, x>>, <<y, NUL, x>>,
              <<x, NL, y>>, <<y, x, x, NL>>}
===============================================================================
