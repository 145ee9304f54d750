------------------------------- MODULE MCGateway -------------------------------
(***************************************************************************)
(* Gateway with one slot for a job and one button, whose contacts bounce   *)
(* for as long as the lockout allows.  The shell and the display overrun   *)
(* their periods whenever a run takes time; the job comes late behind them.*)
(***************************************************************************)
EXTENDS Gateway

Periods == <<1, 0, 0>>
MCBounce == <<2>>
Up == "/dev/buttons/up"
MCButtonPath == <<Up>>
LongPath == "/dev/none/of/these/devices"
MCShort == [word \in {LongPath} |-> "/dev/none/of/these/devi"]

Farm == "/dev/config/farm"
MCConfigPaths == {Farm}
MCConfigTexts == {<<"menus">>}
MCBeginning == [m \in {"menu", "banner"} |-> IF m = "menu" THEN {"menu", "menus"} ELSE {"banner", "bannerx"}]

\* Jobs, lines that set the mode, also by way of a field of the configuration, and lines
\* that are refused or fail on the way to it.
MCLines ==
  {<<"display", "&">>, <<"<", Up, "echo", "menu", "&", ">", ModePath>>, <<"cat", AllButtons>>,
   <<"echo", "bannerx", ">", Farm>>,
   <<"<", Farm, "cat", "|", "cat", ">", ModePath>>, <<"cat", Farm, ">", ModePath>>,
   <<"<", LongPath, "<", Farm, "echo", "<", ">", ModePath>>,
   <<"echo", "bannerx", "farm", "|", "cat", ">", ModePath>>,
   <<"echo", "banner", "<", LongPath, ">", ModePath>>,
   <<"echo", "banner", "|", "beep", ">", ModePath>>,
   <<"echo", "banner", "|", ">", ModePath>>,
   <<"ls", "|", "echo", "banner", ">", Up>>,
   <<"cat", StatusPath, ">", ">", ">", ModePath>>,
   <<"echo", "banner", "|", "cat", "|", "cat", ">", ModePath>>,
   <<"echo", "banner", "menu", ">", ModePath>>,
   <<">", ModePath, "echo", "banner">>,
   <<"cat", ModePath, ">">>, <<"&">>,
   <<"echo", "menu", "<", ModePath, "|", "cat", ">", ModePath, ">", StatusPath>>}
=============================================================================
