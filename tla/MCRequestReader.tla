-------------------------- MODULE MCRequestReader ---------------------------
(* Short requests whose arguments are empty, look like a request's own       *)
(* markers, or are longer than the buffer's first capacity.                  *)
EXTENDS RequestReader

MCStreams ==
    {<<<<<<97>>>>, <<<<STAR>>, <<>>>>>>,
     <<<<[i \in 1..10 |-> DOLLAR]>>, <<<<97>>, CRLF>>>>}
=============================================================================
