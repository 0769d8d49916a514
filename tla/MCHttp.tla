------------------------------- MODULE MCHttp -------------------------------
(***************************************************************************)
(* A persistent client that posts, follows redirects and may be stopped,   *)
(* others that get an item on a connection of its own, and one server.     *)
(***************************************************************************)
EXTENDS HttpExchange

Simple(method, path, body, close) ==
    [line |-> "ok", method |-> method, path |-> path, body |-> body,
     type |-> "plain", size |-> "fits", range |-> "none",
     expect |-> FALSE, close |-> close]

TheHandlers ==
    Register(Register(Register(<<>>, "GET", "item", FALSE, "answers"),
                      "POST", "moved", FALSE, "redirects"),
             "GET", "moved", FALSE, "redirects")

Post    == Simple("POST", "moved", "length", FALSE)
Item    == Simple("GET", "item", "none", FALSE)
Moved   == Simple("GET", "moved", "none", FALSE)
Closing(r) == [r EXCEPT !.close = TRUE]

TheSends == [k \in Clients |-> IF k \in Followers THEN {Post} ELSE {Item}]
TheLocations == {"item", "moved"}
TheStrays == {Post}
TheRequests == LET open == {Post, Item, Moved} IN open \cup {Closing(r) : r \in open}
=============================================================================
