------------------------------- MODULE MCTcp -------------------------------
(* What the client of WeatherServer does, for TLC *)
EXTENDS WeatherServer

Case(req, temperatures, n) ==
    [request |-> req, readings |-> temperatures, faults |-> n]

\* The long request goes round the receive buffer and may arrive out of order;
\* two replies do not fit into the transmit buffer at once; the short request
\* leaves two faults for the answer.
MCCases == {Case(<<2, 2, 2, 1>>, 0, 1), Case(<<1, 2>>, 2, 1), Case(<<1>>, 1, 2)}

\* A request that may arrive out of order and one reply
MCOutOfOrder == {Case(<<2, 2, 1>>, 1, 2)}

\* Nothing is lost, late or missing.
MCFaultless == {Case(<<1>>, 1, 0)}
=============================================================================
