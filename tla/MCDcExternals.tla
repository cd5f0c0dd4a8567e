--------------------------- MODULE MCDcExternals ---------------------------
(* Small instances of DcExternals: a library and the module that needs it,  *)
(* a jsx module, and a script of the helmet that defines a global.          *)
EXTENDS DcExternals

MCFiles ==
  [lib |-> [jsx |-> FALSE, exports |-> {}, defines |-> {"Lib"}, needs |-> {}],
   app |-> [jsx |-> TRUE, exports |-> {"App"}, defines |-> {}, needs |-> {"Lib"}],
   ext |-> [jsx |-> FALSE, exports |-> {"default"}, defines |-> {}, needs |-> {}]]

MCScripts == [chart |-> {"Chart"}]

Import(urls, name, global) ==
  [urls |-> urls, name |-> name, global |-> global, literal |-> TRUE, hole |-> FALSE]

App   == [Import(<<"lib", "app">>, "App", FALSE) EXCEPT !.hole = TRUE]
Back  == Import(<<"app", "lib">>, "Lib", TRUE)
Ext   == Import(<<"lib", "app", "ext">>, "Ext", FALSE)
Wrong == Import(<<"ext">>, "no.path", TRUE)
Tag   == Import(<<"ext">>, "my-tag", TRUE)
Chart == Import(<< >>, "Chart", TRUE)
Bound == [Import(<<"lib">>, "Lib", FALSE) EXCEPT !.literal = FALSE]

Child(tag, key, whole) == [tag |-> tag, key |-> key, whole |-> whole]
Script  == Child("script", "chart", TRUE)
Piece   == Child("script", "cha", FALSE)
Style   == Child("style", "css", TRUE)
CssHalf == Child("style", "c", FALSE)

Page(helmet, closed, elems) ==
  [helmet |-> helmet, closed |-> closed, elems |-> elems, mode |-> None, compiles |-> TRUE]
Canvas(t) == [t EXCEPT !.mode = "canvas"]
Broken(t) == [t EXCEPT !.compiles = FALSE]

Chunk(t, on) == [tpl |-> t, streaming |-> on]

MCStreams ==
  { << Chunk(Canvas(Page(<<CssHalf>>, FALSE, << >>)), TRUE),
       Chunk(Canvas(Page(<<Style, Piece>>, FALSE, << >>)), TRUE),
       Chunk(Page(<<Style, Script>>, TRUE, <<Back, Chart>>), TRUE),
       Chunk(Canvas(Page(<<Style, Script>>, TRUE, <<App, Chart>>)), FALSE) >>,
    << Chunk(Page(<<Piece>>, FALSE, << >>), TRUE),
       Chunk(Broken(Page(<<Script>>, TRUE, <<App>>)), FALSE),
       Chunk(Page(<<Script>>, TRUE, <<Chart, Back>>), FALSE) >>,
    << Chunk(Page(<<Script>>, TRUE, <<App, Bound>>), TRUE),
       Chunk(Page(<<Script>>, TRUE, <<App, Ext, Back>>), FALSE) >>,
    << Chunk(Page(<<Script, Style>>, TRUE, <<Wrong, Tag, Chart>>), FALSE) >> }

MCDotted == {"no.path"}
=============================================================================
