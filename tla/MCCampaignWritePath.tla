------------------------ MODULE MCCampaignWritePath ------------------------
(* Instances of CampaignWritePath for TLC.  Three columns are enough to     *)
(* tell the ones the code treats differently: the name is checked before    *)
(* acceptance, the tags are always written, the price stands for the rest.  *)
EXTENDS CampaignWritePath, TLC

CONSTANTS A, B

MCColumns == {"name", "price", "tags"}
MCValues == {A, B, Null}

Creation(name, readable) ==
    [columns |-> ("name" :> name) @@ [c \in MCColumns |-> A], location |-> A,
     readable |-> readable]
Change(columns, location) ==
    [columns |-> columns, location |-> location, readable |-> TRUE]

OneCreation == {Creation(A, TRUE)}
TwoCreations == {Creation(A, TRUE), Creation(B, TRUE)}

Rename == Change("name" :> A, NoLocation)
Reprice == Change(("name" :> A) @@ ("price" :> B), NoLocation)
RepriceBack == Change(("name" :> B) @@ ("price" :> A), NoLocation)
Retag == Change(("name" :> A) @@ ("tags" :> B), NoLocation)
Move == Change("name" :> A, B)
Poison == [Rename EXCEPT !.readable = FALSE]

NoChanges == {}
TwoCampaignChanges == {Reprice, Change("name" :> B, NoLocation)}
AllChanges == {Rename, Reprice, RepriceBack, Retag, Move}
SomeChanges == {Reprice, Move, Poison}

(* Two failures among two requests, four of a request that is alone: three *)
(* drop a message and the fourth may be the producer's.  A step that is     *)
(* fair changes neither count, so the bound takes none of them away.        *)
Bounded == accepted' <= 1 \/ faults' <= 2
=============================================================================
