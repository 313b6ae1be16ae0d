----------------------------- MODULE MCHelpers -----------------------------
(* Instances of CacheHelpers and HttpClient for TLC.  The two share        *)
(* nothing: a behaviour is one of either.                                  *)
EXTENDS CacheHelpers, HttpClient

(* A city with a colon, which begins with "index", and a tag with a comma; *)
(* a city and a state that look like a uuid, the city also with the id of  *)
(* a campaign; a limit without a skip.                                     *)
Colon == [city |-> <<"indexville", "state", "y">>, tags |-> <<"a,b">>]
Both == [city |-> <<"indexville">>, state |-> <<"y">>, tags |-> <<"a", "b">>]
InCity == [city |-> <<"8-4-4-4-12">>]
OneInCity == [id |-> <<"c1">>, city |-> <<"8-4-4-4-12">>]
InState == [state |-> <<"8-4-4-4-12">>]
Half == [limit |-> <<"5">>]
Bare == [f \in {} |-> << >>]

MCUsers == {"u1", "u2"}
MCUuids == {"c1", "c2"}
MCUuidLike == MCUuids \union {"8-4-4-4-12"}
MCIndexLike == {"index", "indexville"}
MCQueries == {Colon, Both, InCity, OneInCity, InState, Half, Bare}

A(op, u, q, ids) == [op |-> op, user |-> u, query |-> q, ids |-> ids]
MCCallable ==
    {A("set", "u1", Nothing, {"c1"}), A("remove", "u1", Nothing, {"c1"}),
     A("invalidateAll", "u1", Nothing, {}), A("invalidateAnswers", "u1", Nothing, {}),
     A("listActive", "u1", Nothing, {}),
     A("fill", "u1", Bare, {"c1", "c2"}), A("fill", "u2", Half, {"c2"})}
    \union {A("fill", "u1", q, {}) : q \in {Colon, OneInCity}}
    \union {A("lookUp", "u1", q, {}) : q \in {Both, InState, InCity}}

MCCalls == [timeout: {0, 3}, retries: -1 .. 2, wait: 0 .. 2, maxWait: 0 .. 3]

VARIABLE part

HelpersInit ==
    /\ KeysInit /\ HttpInit
    /\ part \in {"redis", "http"}
    /\ part = "redis" => call = CHOOSE any \in Calls : TRUE
HelpersNext ==
    /\ UNCHANGED part
    /\ \/ part = "redis" /\ KeysNext /\ UNCHANGED httpVars
       \/ part = "http" /\ HttpNext /\ UNCHANGED keyVars

HelpersSpec == HelpersInit /\ [][HelpersNext]_<<part, keyVars, httpVars>>
=============================================================================
