----------------------------- MODULE MCDcRuntime -----------------------------
(* Small instances of DcRuntime: a page that imports one DC.                 *)
EXTENDS DcRuntime

MCNames  == {"Page", "Card"}
MCInline == [tpl |-> Tpl("inline", {"Card"}, "none"), js |-> Class("page", "none")]

MCDisk == [n \in MCNames |->
  IF n = "Page" THEN [MCInline EXCEPT !.tpl = Tpl("raw", {"Card"}, "none")]
  ELSE [tpl |-> Tpl("card", {}, "none"), js |-> Class("card", "none")]]

Html(n, on, t) == [call |-> "html", name |-> n, streaming |-> on, content |-> t]
Js(n, on, c)   == [call |-> "js", name |-> n, streaming |-> on, content |-> c]

MCPushes ==
  { Html("Card", TRUE, EmptyTpl),
    Html("Card", TRUE, Tpl("new", {}, "none")),
    Html("Card", FALSE, Tpl("loop", {"Page"}, "none")),
    Html("Card", FALSE, Tpl("crash", {}, "child")),
    Html("Card", FALSE, Tpl("throw", {}, "render")),
    Html("Card", TRUE, Tpl("broken", {}, "compile")),
    Html("Page", FALSE, Tpl("bare", {}, "none")),
    Html("Page", FALSE, Tpl("throw", {}, "render")),
    Js("Card", TRUE, NoClass),
    Js("Card", FALSE, Class("new", "none")),
    Js("Card", FALSE, Class("bad", "ctor")),
    Js("Card", FALSE, Class("broken", "eval")),
    [call |-> "props", name |-> "Page", streaming |-> TRUE, content |-> 2],
    [call |-> "overrides", name |-> "Page", content |-> 1] }
=============================================================================
