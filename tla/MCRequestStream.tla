--------------------------- MODULE MCRequestStream ---------------------------
EXTENDS RequestStream
MCKinds ==
  {[type |-> "GET", keep |-> TRUE, body |-> <<>>],
   [type |-> "POST", keep |-> TRUE, body |-> <<>>]}
  \cup [type : {"POST"}, keep : {TRUE},
        body : {<<"plain", "plain">>, <<"plain", "plain", "plain">>, <<"plain", "gap">>,
                <<"wide">>}]
  \cup [type : {"POST"}, keep : {FALSE}, body : {<<"plain">>, [j \in 1..7 |-> "plain"]}]
=============================================================================
