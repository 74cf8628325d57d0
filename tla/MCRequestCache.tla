--------------------------- MODULE MCRequestCache ---------------------------
(* The request cache with the keys the code computes.  The scenarios make the *)
(* same request, Plain, and a second one: in Shared it differs from Plain     *)
(* only in the file its response is saved to, in Ambiguous the two differ in  *)
(* which of two fields a file name stands.  A key is represented by one of    *)
(* the requests that have it.                                                 *)
EXTENDS RequestCache, RequestKey

Plain == [materialized |-> <<"GET", "/a">>, filenameFrom |-> <<>>, filenameTo |-> <<>>,
          workspace |-> <<"dir">>, retries |-> 1,
          cookies |-> <<[name |-> <<"sid">>, value |-> <<"1">>]>>]

CONSTANTS first, second

Shared == (first :> Plain) @@ (second :> [Plain EXCEPT !.filenameTo = <<"out">>])

Ambiguous == (first :> [Plain EXCEPT !.filenameFrom = <<"data">>])
             @@ (second :> [Plain EXCEPT !.filenameTo = <<"data">>])

MCKeyOf == [r \in Requests |-> CHOOSE q \in Requests : ActualKey(DataOf[q]) = ActualKey(DataOf[r])]
MCKeys == {MCKeyOf[r] : r \in Requests}
=============================================================================
