--------------------------- MODULE MCConptyCapture ---------------------------
(***************************************************************************)
(* What a console and a worker write around a shutdown: user text, text    *)
(* that looks like a repaint, and every shape of the repaint itself.       *)
(***************************************************************************)
EXTENDS ConptyCapture

X == <<"x">>
MCRawScripts ==
    {StartupModes \o LfPrefixed,
     StartupModes \o X \o BareSimple,
     X \o LfPrefixed \o X,
     X \o Simple,
     BareSimple \o BareSimple,
     Titled \o TitledSuffix,
     <<"e">> \o BareTitled \o X \o TitledSuffix}
MCIpcScripts ==
    {<<"lf", "lf", "end">>, <<"text", "lf", "image">>, <<"lf", "text">>}
=============================================================================
