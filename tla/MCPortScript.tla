---------------------------- MODULE MCPortScript ----------------------------
(***************************************************************************)
(* A route with two ports and an HTTP node.                                *)
(***************************************************************************)
EXTENDS PortScript

MCStretches == STRING

MCTask == [route |-> "ROUTE", call |-> "HTTP"]
MCPortsOf == [route |-> <<"r1", "r2">>, call |-> <<"c1">>]
MCPortType == [r1 |-> "OUTPUT_PORT", r2 |-> "OUTPUT_PORT",
               c1 |-> "OUTPUT_PORT"]
MCTarget == [r1 |-> "call", r2 |-> "route", c1 |-> "route"]

\* A script with %s and with the replacement $&.
MCScripts == {<<Piece("format("), Slot, Dollar, Piece("&"), Piece(")")>>}
MCAdditions == {<<Piece("helper"), Dollar, Piece("'")>>}

Condition(type, key, value) ==
    [source |-> "REQ_HEADER", key |-> key, type |-> type, op |-> "GT",
     value |-> value]

Key == <<Piece("key")>>
Twelve == <<Piece("12")>>
TwelveAbc == <<Piece("12abc")>>

\* 12abc is a float to parseFloat, but no integer to BigInt.  A key with a
\* dollar at its end.
MCRoutes ==
    {<<Condition("INTEGER", Key, TwelveAbc)>>,
     <<Condition("DOUBLE", Key, TwelveAbc)>>,
     <<Condition("STRING", Key \o <<Dollar>>, Twelve)>>}

Request(method, params) ==
    [url |-> TRUE, timeout |-> TRUE, method |-> method, params |-> params]

MCHttps == {Request("GET", <<[name |-> <<Piece("id")>>, default |-> Twelve]>>),
            Request("PUT", <<>>)}

MCPlainTexts == {"key", "12", "12abc"}
MCBigInts == {Twelve}
MCFloats == {Twelve, TwelveAbc}
MCDates == {Twelve}
=============================================================================
