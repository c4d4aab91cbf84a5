----------------------------- MODULE MCHttpServer -----------------------------
(* A small instance of HttpServer: two connections, three handlers.  Below *)
(* an area that asks for authorisation lies one that accepts another user, *)
(* and a handler open to all stands beside it.                             *)
EXTENDS HttpServer

Handler(parts, users, children) ==
    [matches |-> parts, requires_auth |-> users # {}, accepts |-> users, children |-> children]

MCTree == [h \in Handlers \cup {Root} |->
    CASE h = "root"   -> Handler({}, {}, <<"area", "open">>)
      [] h = "area"   -> Handler({"a"}, {"alice", "bob"}, <<"inner">>)
      [] h = "inner"  -> Handler({"b"}, {"alice"}, <<>>)
      [] h = "open"   -> Handler({"a", "b"}, {}, <<>>)]

Request(target, credentials) == [target |-> target, credentials |-> credentials]

MCRequests ==
    {Request(<<"", "a", "b">>, user) : user \in {"short", "alice", "bob"}} \cup
    {Request(<<"", "a", "">>, "bob"), Request(<<"", "", "b", "">>, "none"),
     Request(<<"", "a", "..">>, "alice")}

===============================================================================
