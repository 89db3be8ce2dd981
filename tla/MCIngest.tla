------------------------------ MODULE MCIngest ------------------------------
EXTENDS Ingest, TLC

Text == [magic |-> "text/plain", extension |-> None, type |-> "plain", number |-> "no"]
Long == [Text EXCEPT !.number = "long"]

MCItem == <<Text, Long>>
MCKnown == "text/plain" :> ".txt" @@ "image/png" :> ".png"
MCCategory == "text/plain" :> "text" @@ "image/png" :> "image"
MCRules ==
    << [type |-> "mime", name |-> "image/png", actions |-> <<"store">>],
       [type |-> "type", name |-> "plain", actions |-> <<"log", "store", "queue">>],
       [type |-> "unknown", name |-> None, actions |-> <<"discard">>] >>
=============================================================================
