---------------------------- MODULE MCEmbedTexts ---------------------------
(* An instance of EmbedTexts small enough for TLC.                         *)
EXTENDS EmbedTexts, TLC

CONSTANTS c1, c2, c3, p1, p2, a, b, large

Call(p, mode, deny, texts) == [process |-> p, texts |-> texts, mode |-> mode, deny |-> deny]
Three(x, y, z) == c1 :> x @@ c2 :> y @@ c3 :> z
NoCall == Call(p1, "readonly", FALSE, <<>>)

MCWorkloads == {
    \* calls of one process that want the same keys in opposite orders, in two
    \* batches each
    Three(Call(p1, "disabled", FALSE, <<a, large>>),
          Call(p1, "readonly", FALSE, <<large, a, large>>), NoCall),
    \* a server that may not call the provider, while it may for another call
    Three(Call(p1, "readonly", FALSE, <<b>>), Call(p1, "readonly", TRUE, <<a, b>>),
          Call(p1, "disabled", FALSE, <<b>>)),
    \* a call that writes, a call of its process that needs its second batch
    Three(Call(p1, "readwrite", FALSE, <<a, large>>), Call(p1, "readonly", FALSE, <<large>>), NoCall),
    \* two keys in one batch
    Three(Call(p1, "disabled", FALSE, <<a, b>>), Call(p2, "readonly", FALSE, <<b, a>>), NoCall),
    \* two commands that write different keys
    Three(Call(p1, "readwrite", FALSE, <<a>>), Call(p2, "readwrite", FALSE, <<b>>), NoCall) }

MCSize == a :> 1 @@ b :> 1 @@ large :> 3
=============================================================================
