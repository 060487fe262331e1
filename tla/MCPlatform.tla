----------------------------- MODULE MCPlatform ------------------------------
(* Five systems, two API threads in two processes, two workers.     *)
EXTENDS Platform

F(name, type, required) == [name |-> name, type |-> type, required |-> required, words |-> {}]
Object(id, fields) == [id |-> id, fields |-> fields, identifiers |-> {"id"}]
Operation(id, object, kind, schema) == [id |-> id, object |-> object, kind |-> kind, schema |-> schema]

MCNames == {"order", "sale", "id", "name", "label", "title"}
MCKeyNames == {"id"}
MCLexSim == [m \in MCNames |-> [n \in MCNames |->
  CASE m = n -> 100
    [] <<m, n>> \in {<<"name", "title">>, <<"label", "title">>} -> 80
    [] OTHER -> 10]]

Shop == <<F("id", "string", TRUE), F("name", "string", FALSE), F("label", "string", FALSE)>>
MCProfile == [
  shop |-> [system |-> "shop", objects |-> <<Object("order", Shop)>>, operations |-> <<>>],
  books |-> [system |-> "books", objects |-> <<Object("sale", SubSeq(Shop, 1, 2))>>,
             operations |-> <<Operation("list", "sale", "read", <<>>),
                              Operation("add", "sale", "create", SubSeq(Shop, 1, 2))>>],
  crm |-> [system |-> "crm", objects |-> <<Object("sale", <<F("id", "string", TRUE), F("title", "string", FALSE)>>)>>,
           operations |-> <<Operation("save", Null, "upsert", <<>>)>>],
  erp |-> [system |-> "erp", objects |-> <<Object("sale", <<F("title", "string", FALSE)>>), Object("order", SubSeq(Shop, 1, 2))>>,
           operations |-> <<Operation("send", Null, "publish", <<>>)>>],
  files |-> Null]
MCSystems == DOMAIN MCProfile
MCRegistered == {"shop", "books", "crm", "erp"}
MCKind == [shop |-> "none", books |-> "api_key", crm |-> "none", erp |-> "none", files |-> "none"]
MCReplica == [x1 |-> "r1", x2 |-> "r2"]
MCKeys == {1, 2}

Create(s, v) == [op |-> "create_system", system |-> s, value |-> v]
Set(s, v) == [op |-> "set_credentials", system |-> s, value |-> v]
Rotate(k) == [op |-> "rotate", key |-> k]
Connect(s, t) == [op |-> "connect", source |-> s, targets |-> t]
CheckIt(i) == [op |-> "check", conn |-> i]
Say(attach, s, t, goal, build) ==
  [op |-> "say", attach |-> attach, source |-> s, target |-> t, goal |-> goal, build |-> build]

MCScripts == {
  \* credentials of one system, set twice over and rotated
  [x1 |-> <<Set("books", "v1"), Set("books", "v2")>>, x2 |-> <<Set("books", "v3"), Rotate(2)>>],
  [x1 |-> <<Create("files", "v1"), Set("files", "v2"), Rotate(1)>>, x2 |-> <<Rotate(2), Set("files", "v3")>>],
  \* the chat, one message after the other or at once
  [x1 |-> <<Say(<<"shop">>, Null, Null, FALSE, FALSE), Say(<<"books">>, Null, Null, TRUE, TRUE)>>,
   x2 |-> <<Say(<<"crm">>, "shop", "crm", FALSE, TRUE)>>],
  \* connections composed and checked at the same time
  [x1 |-> <<Connect("shop", <<"books">>), CheckIt("c1")>>, x2 |-> <<Set("books", "v1")>>],
  [x1 |-> <<Connect("shop", <<"crm">>)>>, x2 |-> <<CheckIt("c1")>>],
  [x1 |-> <<Create("files", Null), Connect("shop", <<"files">>)>>, x2 |-> <<Connect("books", <<"shop">>)>>],
  [x1 |-> <<Connect("shop", <<"shop">>)>>, x2 |-> <<Connect("shop", <<"erp", "books">>)>>]}
=============================================================================
