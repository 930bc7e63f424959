------------------------------ MODULE MCUserMemory ------------------------------
(* Two clients, one conversation; one fact written in two ways, an entity that *)
(* two patterns match in one message, and a batch that makes a long talk.      *)
EXTENDS UserMemory, TLC

MCFolded == [f \in {"Likes Go", "likes go", "Uses Vim"} |->
               IF f = "Uses Vim" THEN "uses vim" ELSE "likes go"]

MCMentions ==
  [m \in {"intro", "talk"} |->
     IF m = "intro" THEN <<[entity |-> "person:Alice", confidence |-> 7],
                           [entity |-> "person:Alice", confidence |-> 6],
                           [entity |-> "technology:Go", confidence |-> 9]>>
     ELSE <<[entity |-> "technology:Go", confidence |-> 9]>>]

MCFactsIn == [m \in {"intro", "talk"} |->
                IF m = "intro" THEN <<"Likes Go", "Uses Vim">> ELSE <<>>]

MCHits == [q \in {"i"} |-> {"likes go", "uses vim"}]
=============================================================================
