------------------------------ MODULE MCServer ------------------------------
(* One channel and every kind of request. *)
EXTENDS Server

CONSTANT c1

MCRequests ==
    {<<"ping">>, <<"part">>, <<"subscribe", c1>>, <<"unsubscribe", c1>>, <<"unsubscribe">>,
     <<"publish", c1>>, <<"bgsave">>}
=============================================================================
