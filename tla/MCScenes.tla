------------------------------ MODULE MCScenes ------------------------------
(***************************************************************************)
(* The components on small instances, for TLC.  A behaviour is about one     *)
(* component, its scene: the component's variables are the first of v1 to    *)
(* v23, in the order its module declares them, and the others stay idle.  A  *)
(* configuration chooses the scenes of its run; some components play in two, *)
(* with different constants.                                                 *)
(***************************************************************************)
EXTENDS Integers, Sequences, FiniteSets, SequencesExt, TLC, TLAPS

CONSTANTS
    Scenes, Nil, Vanished,
    twin1, twin2, \* owners, programs, panes, names or callers: two that are alike
    both1, both2  \* servers that are alike, whatever their names

Twins == {twin1, twin2}
Both == {both1, both2}
Symmetry == Permutations(Twins) \cup Permutations(Both)

\* A twin is not what says that there is none.
ASSUME TwinsAreSome == {"none", "nobody"} \cap Twins = {}

-----------------------------------------------------------------------------
(* The services of a session.                                              *)

\* What strangers send first: another version, of another layout, no rows, no
\* greeting, two of them, one and input at once, and one that is too large.
Wired(type, payload) == <<type, Len(payload)>> \o payload
MCOlder == Wired(1, <<5>>)
MCOpenings ==
    LET greeting == Wired(1, <<7, 9>>) IN
    { Wired(1, <<6, 9>>), MCOlder, Wired(1, <<7, 0>>), Wired(2, <<1>>),
      greeting \o greeting, greeting \o Wired(2, <<1>>), <<1, 3, 0>> }

\* Layouts of files edited by hand: shared, missing, unreachable and backward
\* nodes, a pane twice, a share of nothing, a strange order.
MCTerminals == {<<9, 9>>, <<4, 9>>}
MCSmallTerminals == {<<4, 8>>, <<2, 6>>}
PaneNode(id) == [kind |-> "pane", id |-> id]
SplitNode(share, first, second) ==
    [kind |-> "split", axis |-> 2, share |-> share, first |-> first, second |-> second]
MCEdited ==
    {[active |-> 1, zoomed |-> TRUE, nodes |-> <<SplitNode(<<1, 2>>, i, j), PaneNode(1), PaneNode(k)>>] :
        i \in 1 .. 4, j \in 1 .. 4, k \in {1, 2}}
    \cup
    {[active |-> 1, zoomed |-> FALSE, nodes |-> n] : n \in
        {<<>>, <<PaneNode(1)>>, <<PaneNode(3)>>,
         <<SplitNode(<<2, 2>>, 2, 3), PaneNode(1), PaneNode(2)>>,
         <<SplitNode(<<0, 2>>, 2, 3), PaneNode(1), PaneNode(2)>>, <<PaneNode(1), PaneNode(2)>>,
         <<SplitNode(<<1, 3>>, 2, 3), SplitNode(<<2, 3>>, 4, 5), PaneNode(1), PaneNode(2), PaneNode(3)>>,
         <<SplitNode(<<1, 3>>, 4, 2), SplitNode(<<2, 3>>, 5, 3), PaneNode(1), PaneNode(2), PaneNode(3)>>,
         <<SplitNode(<<1, 3>>, 2, 2), SplitNode(<<2, 3>>, 3, 4), PaneNode(1), PaneNode(2)>>,
         <<SplitNode(<<1, 3>>, 2, 3), SplitNode(<<2, 3>>, 4, 5), SplitNode(<<2, 3>>, 4, 5),
           PaneNode(1), PaneNode(2)>>}}

-----------------------------------------------------------------------------
(* What a program prints.                                                  *)

MCScreens == {<<2, 3>>, <<2, 4>>, <<3, 2>>, <<3, 3>>}
MCPrograms == {
    {"print", "wide", "select", "left", "feed", "return", "save", "autowrap",
     "background", "resize"},                                       \* a shell
    {"print", "wide", "home", "left", "insert", "background", "erase_line",
     "erase_display", "erase_characters", "insert_characters",
     "delete_characters", "resize"},                                \* an editor
    {"print", "up", "down", "reverse", "feed", "scroll_up", "scroll_down",
     "insert_lines", "delete_lines", "region", "origin", "save", "restore",
     "enter_alternate", "leave_alternate", "reset", "soft_reset", "resize"},   \* a pager
    {"print", "down", "region", "enter_buffer", "leave_buffer",
     "enter_alternate", "leave_alternate"}}

\* Output of a shell: text, a color, a title, a string, the marks of a command
\* ended both ways or cut short.
MCOutput ==
    { <<"x">>, <<"nl">>, <<"back">>, <<"esc", "[", "m">>, <<"esc", "]", "t", "bel">>,
      <<"esc", "P", "x", "esc", "\\">>, <<"esc", "]", "A", "bel">>,
      <<"esc", "]", "C", "esc", "\\">>, <<"esc", "]", "D", "bel">>,
      <<"esc", "]", "D", "can">>, <<"esc", "]", "t", "esc", "x", "bel">> }

\* Two narrow glyphs and a wide one, two styles, a link.
MCNarrow == { [glyph |-> "x", style |-> "bold", link |-> "no link"],
              [glyph |-> " ", style |-> "plain", link |-> "a"] }
MCWide == { [glyph |-> "w", style |-> "plain", link |-> "no link"] }
MCFrames == { <<1, 4>>, <<2, 2>> }
MCLooks == { [visible |-> TRUE, modes |-> <<"off", "on">>],
             [visible |-> FALSE, modes |-> <<"on", "on">>] }

\* Canvases around the sizes where borders and a floating pane's sides appear,
\* split, zoomed and floating, with every kind of screen and titles of wide
\* glyphs; and every chrome around one.
Titles == { <<>>, <<1, 1, 2, 1>>, <<1, 2, 2, 2, 2>> }
Rect(row, column, rows, columns) ==
    [row |-> row, column |-> column, rows |-> rows, columns |-> columns]
Undivided(size) == "a" :> Rect(0, 0, size[1], size[2])
Columns(size) ==
    LET first == (size[2] - 2) \div 2
    IN  ("a" :> Rect(0, 0, size[1], first))
          @@ ("b" :> Rect(0, first + 2, size[1], size[2] - first - 2))
Rows(size) ==
    LET first == (size[1] - 2) \div 2
    IN  ("a" :> Rect(0, 0, first, size[2]))
          @@ ("b" :> Rect(first + 2, 0, size[1] - first - 2, size[2]))
Layout(size, rects, active, zoomed, floating) ==
    [size |-> size, rects |-> rects, active |-> active, zoomed |-> zoomed, floating |-> floating]
Filled(layout, a, b, title) ==
    LET panes == DOMAIN layout.rects
        of(p, x, y) == IF p = "a" THEN x ELSE y
    IN  [layout |-> layout, fills |-> [p \in panes |-> of(p, a, b)],
         titles |-> [p \in panes |-> of(p, title, <<1, 2>>)]]
Tiled ==
    { Layout(size, Undivided(size), "a", FALSE, FALSE) : size \in {<<1, 4>>, <<2, 5>>, <<3, 3>>, <<4, 7>>} }
    \cup { Layout(size, Columns(size), active, zoomed, FALSE) :
             size \in {<<1, 6>>, <<2, 8>>, <<4, 9>>}, active \in {"a", "b"}, zoomed \in BOOLEAN }
    \cup { Layout(<<7, 6>>, Rows(<<7, 6>>), active, FALSE, FALSE) : active \in {"a", "b"} }
Floats == { Layout(size, Undivided(size), "a", FALSE, TRUE) : size \in {<<5, 12>>, <<6, 15>>, <<8, 17>>} }
MCContents ==
    { Filled(l, a, b, t) : l \in Tiled, a \in {"narrow", "wide", "image"}, b \in {"narrow", "wide"},
                           t \in Titles }
    \cup { Filled(l, a, "narrow", t) @@
             [base |-> Filled(Layout(l.size, Columns(l.size), "a", FALSE, FALSE), c, "wide", t)] :
             l \in Floats, a \in {"narrow", "wide"}, c \in {"narrow", "wide"}, t \in Titles }
MCContent == { Filled(Layout(<<4, 7>>, Undivided(<<4, 7>>), "a", FALSE, FALSE), "narrow", "narrow", <<>>) }
MCChromes ==
    [rows : 1 .. 4, compact : BOOLEAN,
     editor : {"none", "rename", "close", "query", "history", "help"}, error : BOOLEAN,
     graphics : {FALSE}, ended : BOOLEAN, visible : BOOLEAN]
MCChrome == { [rows |-> 4, compact |-> FALSE, editor |-> "none", error |-> FALSE,
               graphics |-> FALSE, ended |-> FALSE, visible |-> TRUE] }

-----------------------------------------------------------------------------
(* What the user sees.                                                     *)

MCTexts == {<<>>, <<"c", "c">>, <<"w", "t">>, <<" ", "c">>}

\* Three names: of a server with a client, of a snapshot, and one to spare.
MCWorlds == {[live |-> <<1, 0, 0>>, watched |-> {1}, snapshots |-> {2}]}

\* Files of up to three layers.  Root entries spell out their actions; a block
\* may also remove or only show.
Entries == {"A", "B"}
MCOrder == SetToSeq({"locked"} \X Entries)
           \o <<<<"normal", "?">>, <<"normal", "c">>, <<"normal", "g">>, <<"normal", "n">>>>
           \o <<<<"pane", "?">>, <<"pane", "c">>, <<"pane", "g">>, <<"pane", "n">>>>
MCSlots == ({"locked"} \X Entries) \cup ({"normal"} \X {"c", "g", "n"})
           \cup {<<"pane", "g">>}
MCActs(s) == CASE s[1] = "locked" -> {"enter", "history"}
               [] s[1] = "normal" -> {"c", "n", "lock", "pane", "["}
               [] s[1] = "pane" -> {"act", "?"}
RootEntries(s) == {[act |-> a, show |-> "always"] : a \in MCActs(s)}
BlockEntries(s) ==
    RootEntries(s) \cup {[act |-> "removed", show |-> "keep"],
                         [act |-> "none", show |-> "hidden"]}
One(S, E(_)) == UNION {{s :> e : e \in E(s)} : s \in S}
Two(S, T, E(_)) == {f @@ g : f \in One(S, E), g \in One(T, E)}
Layers(F, c) == {[clear |-> c, binds |-> f] : f \in F}
Normal == {<<"normal", "c">>, <<"normal", "g">>, <<"normal", "n">>}
Locked == {"locked"} \X Entries

\* A remapped key, its removal and its return; two bindings and a block; and
\* files that clear the defaults, with the entry they then need.
MCInputs ==
    LET Empty == [clear |-> FALSE, binds |-> <<>>] IN
    {<<a, b, c>> : a \in Layers(One(Normal \cup {<<"pane", "g">>}, RootEntries), FALSE),
                   b \in Layers(One(Normal \cup {<<"pane", "g">>}, BlockEntries), FALSE),
                   c \in Layers(One(Normal \cup {<<"pane", "g">>}, BlockEntries), FALSE)}
    \cup {<<a, b>> : a \in Layers(Two(Normal, Locked, RootEntries), FALSE),
                     b \in Layers(One(Locked, BlockEntries), FALSE)}
    \cup {<<a, b>> : a \in {Empty} \cup Layers(One(MCSlots, RootEntries), FALSE),
                     b \in {Empty} \cup Layers(One(MCSlots, BlockEntries), FALSE)}
    \cup {<<a, b>> : a \in Layers(Two(Normal, Locked, RootEntries), TRUE),
                     b \in Layers(One(Normal, BlockEntries), FALSE)}
    \cup {<<a, b>> : a \in Layers(One(Normal, RootEntries), FALSE),
                     b \in Layers(Two(Normal, Locked, RootEntries), TRUE)}

MCNames == {<<1>>, <<2, 2>>, <<1, 0, 2, 1>>, <<0>>}
MCSession == <<1, 1, 1, 2, 1>>
MCMode == <<1, 1, 1, 1>>

Hint(actions, label, fixed) == [actions |-> actions, label |-> label, fixed |-> fixed, help |-> FALSE]
MCHints ==
  [locked |-> <<Hint(<<"prefix">>, 3, FALSE)>>,
   normal |-> <<Hint(<<"new">>, 2, FALSE), Hint(<<"left", "down">>, 3, FALSE),
                Hint(<<"zoom">>, 2, TRUE)>>,
   pane |-> <<Hint(<<"left", "down">>, 2, FALSE), Hint(<<"new">>, 4, FALSE)>>]
MCHelp == Hint(<<"help">>, 2, FALSE)
MCManager == Hint(<<"manager">>, 3, FALSE)
MCConfigured == <<[Hint(<<"help">>, 2, FALSE) EXCEPT !.help = TRUE],
                  Hint(<<"left">>, 4, FALSE), Hint(<<"new">>, 1, FALSE)>>
MCHistoryHints == <<[key |-> 1, label |-> 3], [key |-> 3, label |-> 2]>>

\* Some commands of the NORMAL table, with grouped keys and the entry key.
Command(group, width, keys) == [group |-> group, width |-> width, keys |-> keys]
MCPanels ==
    {[arrows |-> TRUE, live |-> {"n"}, commands |->
        << Command("Window", 1, <<<<0, "c">>>>),
           Command("Window", 3, <<<<0, "n">>, <<2, "p">>>>),
           Command("Pane", 7, <<<<0, "h">>, <<2, "j">>, <<4, "k">>, <<6, "l">>>>),
           Command("General", 6, <<<<2, "literal">>>>) >>]}
MCPanelSizes == {<<4, 16>>, <<5, 66>>}
MCPoints == {<<2, 4>>, <<3, 6>>, <<3, 9>>, <<3, 41>>, <<4, 9>>}

-----------------------------------------------------------------------------
(* What the user types, and what terminals answer.                         *)

\* Two configurations, with and without arrow bindings in NORMAL; "e" enters
\* PANE in one and RESIZE in the other, and "c" is a key of every mode.
To(m, c) == [to |-> m, run |-> c]
MCKeys == {"Ctrl-B", "Esc", "c", "e", "y"}
MCKeymap(next, arrow, exits) ==
  [normal |-> [k \in {"c", "e"} |-> IF k = "c" THEN To("locked", "new") ELSE To(next, "")],
   dead |-> {}, exits |-> exits, history |-> {"y"}, arrow |-> arrow,
   pane |-> [k \in {"c", "e", "arrow"} |->
               IF k = "c" THEN To("locked", "close") ELSE IF k = "e" THEN To("resize", "")
               ELSE To("pane", "next-pane")],
   resize |-> [k \in {"c", "Ctrl-B"} |->
                 IF k = "c" THEN To("resize", "grow") ELSE To("normal", "")]]
MCKeymaps == {MCKeymap("pane", "", {"y"}), MCKeymap("resize", "next-pane", {})}

\* Letters of one and two bytes, a cut one, the answers, editing keys, an arrow
\* and a report; pastes with a newline, an answer and a key's bytes in them.
MCPromptKeys == { <<"c">>, <<"hi", "lo">>, <<"hi", "c">>, <<"yes">>, <<"1">>, <<"3">>, <<"enter">>,
                  <<"cancel">>, <<"back">>, <<"kill">>, <<"esc">>, <<"esc", "[", "c">>,
                  <<"esc", "O", "y">>, <<"esc", "y">> }
MCPastes == { <<"c", "enter", "c">>, <<"yes", "enter">>, <<"hi", "back", "lo">>, <<"esc", "c", "kill">> }

\* What a terminal sends: typing, packets of every kind whole and broken, and
\* strings that contain one.
Framer == INSTANCE IpcFramer WITH MaxPacket <- 1
ST == <<"esc", "\\">>
Sent(protocol, body, end) == Framer!Prefix(protocol) \o body \o end
Packet(protocol, body, end) ==
    [bytes |-> Sent(protocol, body, end), owes |-> <<[protocol |-> protocol, body |-> body]>>]
Nothing(bytes) == [bytes |-> bytes, owes |-> << >>]
MCTokens ==
    {Packet("clipboard", <<body>>, ST) : body \in {"ok", "data", "done", "alien"}}
    \cup {Packet("file", <<"a">>, <<"bel">>), Packet("drag", <<"a">>, ST)}
    \cup {Nothing(bytes) : bytes \in {
            <<"a">>, <<"esc">>, <<"esc", "[", "A">>,
            Sent("clipboard", <<"a", "b">>, ST), Sent("clipboard", <<"raw">>, ST),
            Sent("drag", <<"a">>, <<"can">>),
            <<"esc", "]", "a", "bel">>, <<"esc", "]", "5", "a">> \o ST,
            <<"esc", "P">> \o Sent("clipboard", <<"ok">>, ST),
            <<"esc", "[", "200", "~">> \o Sent("clipboard", <<"ok">>, ST)
                \o <<"esc", "[", "201", "~">>}}

\* One request of each kind from a program, whole or broken.
MCRequests(own) ==
    LET protocol == IF own = "drop" THEN "drag" ELSE own
        asks(as, body, end) == [bytes |-> Sent(protocol, body, end), kind |-> as] IN
    {asks(as, <<"a">>, ST) : as \in {"open", "cont", "last", "other", "junk"}}
    \cup {asks("broken", <<"raw">>, ST), asks("broken", <<"a">>, <<"can">>)}

VARIABLES
    scene,  \* which component this behaviour is about
    v1, v2, v3, v4, v5, v6, v7, v8, v9, v10, v11, v12, v13, v14, v15, v16, v17, v18, v19, v20,
    v21, v22, v23

\* The variables from a number on: a component with fewer leaves them alone.
Rest23 == <<v23>>
Rest22 == <<v22, Rest23>>
Rest21 == <<v21, Rest22>>
Rest20 == <<v20, Rest21>>
Rest19 == <<v19, Rest20>>
Rest18 == <<v18, Rest19>>
Rest17 == <<v17, Rest18>>
Rest16 == <<v16, Rest17>>
Rest15 == <<v15, Rest16>>
Rest14 == <<v14, Rest15>>
Rest13 == <<v13, Rest14>>
Rest12 == <<v12, Rest13>>
Rest11 == <<v11, Rest12>>
Rest10 == <<v10, Rest11>>
Rest9 == <<v9, Rest10>>
Rest8 == <<v8, Rest9>>
Rest7 == <<v7, Rest8>>
Rest6 == <<v6, Rest7>>
Rest5 == <<v5, Rest6>>
Rest4 == <<v4, Rest5>>
Rest3 == <<v3, Rest4>>

Idle23 == v23 = 0
Idle22 == v22 = 0 /\ Idle23
Idle21 == v21 = 0 /\ Idle22
Idle20 == v20 = 0 /\ Idle21
Idle19 == v19 = 0 /\ Idle20
Idle18 == v18 = 0 /\ Idle19
Idle17 == v17 = 0 /\ Idle18
Idle16 == v16 = 0 /\ Idle17
Idle15 == v15 = 0 /\ Idle16
Idle14 == v14 = 0 /\ Idle15
Idle13 == v13 = 0 /\ Idle14
Idle12 == v12 = 0 /\ Idle13
Idle11 == v11 = 0 /\ Idle12
Idle10 == v10 = 0 /\ Idle11
Idle9 == v9 = 0 /\ Idle10
Idle8 == v8 = 0 /\ Idle9
Idle7 == v7 = 0 /\ Idle8
Idle6 == v6 = 0 /\ Idle7
Idle5 == v5 = 0 /\ Idle6
Idle4 == v4 = 0 /\ Idle5
Idle3 == v3 = 0 /\ Idle4
vars == <<scene, v1, v2, Rest3>>

-----------------------------------------------------------------------------
(* The services of a session, whose run has a specification of its own. *)

Rename == INSTANCE LiveRename WITH
    Names <- Twins, Servers <- Both, Clients <- {"c1"}, None <- Nil, file <- v1, ws <- v2,
    spc <- v3, name <- v4, lockOf <- v5, target <- v6, moves <- v7, moved <- v8, mixed <- v9,
    saving <- v10, peer <- v11, cpc <- v12, alias <- v13, fd <- v14, tgt <- v15

Attach == INSTANCE Attachment WITH
    Wire <- 1, FrontLimit <- 1, InputLimit <- 1, ChildLimit <- 1, MaxTyped <- 2,
    MaxRendered <- 2, MaxRenames <- 1, MaxClients <- 1, client <- v1, server <- v2, c2s <- v3,
    s2c <- v4, open <- v5, left <- v6, rendered <- v7, sent <- v8, name <- v9, queue <- v10,
    read <- v11

Opening == INSTANCE SessionWire WITH
    Openings <- MCOpenings, MaxFrame <- 2, Chunk <- 7, MaxMessages <- 3, up <- v1, down <- v2,
    upEnds <- v3, downEnds <- v4, server <- v5, client <- v6, upSent <- v7, downSent <- v8

Drop == INSTANCE DropTarget WITH
    Programs <- Twins, MaxPending <- 1, MaxWires <- 1, MaxQueue <- 1, on <- v1, allowed <- v2,
    registered <- v3, advertised <- v4, active <- v5, chunk <- v6, outgoing <- v7,
    incoming <- v8, wires <- v9, world <- v10, host <- v11, sees <- v12, deaf <- v13

Redrop == INSTANCE DropTarget WITH
    Programs <- {"p"}, MaxPending <- 2, MaxWires <- 2, MaxQueue <- 1, on <- v1, allowed <- v2,
    registered <- v3, advertised <- v4, active <- v5, chunk <- v6, outgoing <- v7,
    incoming <- v8, wires <- v9, world <- v10, host <- v11, sees <- v12, deaf <- v13

Drag == INSTANCE DragSource WITH
    Programs <- Twins, MaxPending <- 1, MaxWires <- 2, MaxQueue <- 1, on <- v1,
    registered <- v2, advertised <- v3, gesture <- v4, outgoing <- v5, incoming <- v6,
    wires <- v7, world <- v8, host <- v9, sees <- v10, deaf <- v11

LayoutScene == INSTANCE SavedWorkspace WITH
    Names <- {1}, Terminals <- MCTerminals, MaxPanes <- 3, Ids <- {1, 2, 3}, MaxWindows <- 1,
    Edited <- MCEdited, None <- Nil, windows <- v1, active <- v2, floating <- v3,
    terminal <- v4, file <- v5

WindowScene == INSTANCE SavedWorkspace WITH
    Names <- {1, 2, 3}, Terminals <- MCSmallTerminals, MaxPanes <- 1, Ids <- {1},
    MaxWindows <- 3, Edited <- {}, None <- Nil, windows <- v1, active <- v2, floating <- v3,
    terminal <- v4, file <- v5

Follow == INSTANCE ControlService WITH
    Callers <- {}, Followers <- {"f"}, Panes <- Twins, MaxClients <- 1, MaxResponse <- 2,
    Whole <- 1, Limit <- 1, MaxOutput <- 2, MaxServers <- 2, MaxGenerations <- 1, server <- v1,
    active <- v2, output <- v3, backlog <- v4, clients <- v5, turn <- v6, command <- v7,
    written <- v8, applied <- v9

Calls == INSTANCE ControlService WITH
    Callers <- {"u"} \cup Twins, Followers <- {}, Panes <- {"a"}, MaxClients <- 2,
    MaxResponse <- 3, Whole <- 2, Limit <- 1, MaxOutput <- 0, MaxServers <- 1,
    MaxGenerations <- 0, server <- v1, active <- v2, output <- v3, backlog <- v4, clients <- v5,
    turn <- v6, command <- v7, written <- v8, applied <- v9

ServicesInit ==
    /\ scene \in Scenes
    /\ \/ scene = "rename" /\ Rename!Init /\ Idle16
       \/ scene = "attach" /\ Attach!Init /\ Idle12
       \/ scene = "wire" /\ Opening!Init /\ Idle9
       \/ scene = "drop" /\ Drop!Init /\ Idle14
       \/ scene = "redrop" /\ Redrop!Init /\ Idle14
       \/ scene = "drag" /\ Drag!Init /\ Idle12
       \/ scene = "layouts" /\ LayoutScene!Init /\ Idle6
       \/ scene = "windows" /\ WindowScene!Init /\ Idle6
       \/ scene = "follow" /\ Follow!Init /\ Idle10
       \/ scene = "calls" /\ Calls!Init /\ Idle10

ServicesNext ==
    \/ scene = "rename" /\ Rename!Next /\ UNCHANGED <<scene, Rest16>>
    \/ scene = "attach" /\ Attach!Next /\ UNCHANGED <<scene, Rest12>>
    \/ scene = "wire" /\ Opening!Next /\ UNCHANGED <<scene, Rest9>>
    \/ scene = "drop" /\ Drop!Next /\ UNCHANGED <<scene, Rest14>>
    \/ scene = "redrop" /\ Redrop!Next /\ UNCHANGED <<scene, Rest14>>
    \/ scene = "drag" /\ Drag!Next /\ UNCHANGED <<scene, Rest12>>
    \/ scene = "layouts" /\ LayoutScene!Next /\ UNCHANGED <<scene, Rest6>>
    \/ scene = "windows" /\ WindowScene!Next /\ UNCHANGED <<scene, Rest6>>
    \/ scene = "follow" /\ Follow!Next /\ UNCHANGED <<scene, Rest10>>
    \/ scene = "calls" /\ Calls!Next /\ UNCHANGED <<scene, Rest10>>

ServicesSpec == ServicesInit /\ [][ServicesNext]_vars

\* While servers are renamed, saved, attached to and killed, the files of a server
\* follow its name, and nobody else's work takes a live server's files away.
RenamesAreSafe ==
    /\ [](scene = "rename" => Rename!FilesFollowName)
    /\ [][scene = "rename" => Rename!LiveFilesKept]_vars

\* An attachment shows what was rendered, to its end; its client knows the session's
\* name and does not bring the server down; and the bytes of the connection become
\* the messages that were sent, in order, between peers of one version.
ClientsAreServed ==
    /\ scene = "attach" =>
          /\ Attach!ShownWhole /\ Attach!NameTold
          /\ Attach!NeverFails /\ Attach!HangupKeepsInput
    /\ scene = "wire" => Opening!OrderIsKept /\ Opening!PeersAgree

\* Whatever ends a drag, a drop or a gesture, the program that was told of its
\* beginning is told of its end, and the terminal's question is answered.
DragsAreToldOver ==
    /\ scene = "drop" => Drop!ToldOfTheEnd /\ Drop!DropIsFinished
    /\ scene = "redrop" => Redrop!ToldOfTheEnd /\ Redrop!DropIsFinished
    /\ scene = "drag" => Drag!GestureIsToldOver /\ Drag!GestureIsBound

\* A workspace that was saved comes back as it was, and a file that was edited by
\* hand is refused or gives a workspace that is whole.
WorkspaceIsRestored ==
    /\ scene = "layouts" => LayoutScene!RestoresWhatItSaves /\ LayoutScene!StartsWhole
    /\ scene = "windows" => WindowScene!RestoresWhatItSaves /\ WindowScene!StartsWhole

\* A script's command runs at most once and is answered within the limit, and what
\* a follower writes is a gapless run of one process's output, with its end.
ScriptsAreAnswered ==
    /\ scene = "follow" => /\ Follow!StreamIsWhole /\ Follow!EndIsReached
                           /\ Follow!RunsOnce /\ Follow!RepliesFit
    /\ scene = "calls" => /\ Calls!StreamIsWhole /\ Calls!EndIsReached
                          /\ Calls!RunsOnce /\ Calls!RepliesFit

\* What is proved of ControlService holds in its two scenes: first what its proofs
\* assume of the constants.
LEMMA ScriptsParameters == Follow!Parameters /\ Calls!Parameters
  BY TwinsAreSome DEF Follow!Parameters, Follow!None, Calls!Parameters, Calls!None

ScriptsInvariant ==
    /\ scene = "follow" => Follow!IInv
    /\ scene = "calls" => Calls!IInv

\* ControlService's promises in both of its scenes, whatever the two panes and callers.
THEOREM ScriptsAlwaysAnswered == ServicesSpec => []ScriptsAreAnswered
  <1>1. ServicesInit => ScriptsInvariant
    <2>1. ServicesInit => (scene = "follow" => Follow!Init) /\ (scene = "calls" => Calls!Init)
      BY DEF ServicesInit
    <2>2. Follow!Init => Follow!IInv
      BY ScriptsParameters, Follow!Starts
    <2>3. Calls!Init => Calls!IInv
      BY ScriptsParameters, Calls!Starts
    <2> QED BY <2>1, <2>2, <2>3 DEF ScriptsInvariant
  <1>2. ScriptsInvariant /\ [ServicesNext]_vars => ScriptsInvariant'
    <2>1. [ServicesNext]_vars =>
             /\ scene' = scene
             /\ scene = "follow" => Follow!Next \/ UNCHANGED Follow!vars
             /\ scene = "calls" => Calls!Next \/ UNCHANGED Calls!vars
      BY DEF ServicesNext, vars, Follow!vars, Calls!vars,
         Rest3, Rest4, Rest5, Rest6, Rest7, Rest8, Rest9
    <2>2. Follow!IInv /\ (Follow!Next \/ UNCHANGED Follow!vars) => Follow!IInv'
      BY ScriptsParameters, Follow!StepsKeep
    <2>3. Calls!IInv /\ (Calls!Next \/ UNCHANGED Calls!vars) => Calls!IInv'
      BY ScriptsParameters, Calls!StepsKeep
    <2> QED BY <2>1, <2>2, <2>3 DEF ScriptsInvariant
  <1>3. ScriptsInvariant => ScriptsAreAnswered
    <2>1. Follow!IInv =>
             Follow!StreamIsWhole /\ Follow!EndIsReached /\ Follow!RunsOnce /\ Follow!RepliesFit
      BY ScriptsParameters, Follow!Promises
    <2>2. Calls!IInv =>
             Calls!StreamIsWhole /\ Calls!EndIsReached /\ Calls!RunsOnce /\ Calls!RepliesFit
      BY ScriptsParameters, Calls!Promises
    <2> QED BY <2>1, <2>2 DEF ScriptsInvariant, ScriptsAreAnswered
  <1> QED BY <1>1, <1>2, <1>3, PTL DEF ServicesSpec

\* What is proved of DropTarget and of DragSource holds in their scenes.
LEMMA DragsParameters == Drop!Parameters /\ Redrop!Parameters /\ Drag!Parameters
  BY TwinsAreSome
     DEF Drop!Parameters, Drop!NoOne, Redrop!Parameters, Redrop!NoOne, Drag!Parameters, Drag!NoOne

DragsInvariant ==
    /\ scene = "drop" => Drop!IInv
    /\ scene = "redrop" => Redrop!IInv
    /\ scene = "drag" => Drag!IInv

\* The promises of a drop's target and of a drag's source in their scenes, whatever the
\* two programs, and also where a full queue discards packets.
THEOREM DragsAreAlwaysToldOver == ServicesSpec => []DragsAreToldOver
  <1>1. ServicesInit => DragsInvariant
    <2>1. ServicesInit => /\ scene = "drop" => Drop!Init
                          /\ scene = "redrop" => Redrop!Init
                          /\ scene = "drag" => Drag!Init
      BY DEF ServicesInit
    <2>2. Drop!Init => Drop!IInv
      BY DragsParameters, Drop!Starts
    <2>3. Redrop!Init => Redrop!IInv
      BY DragsParameters, Redrop!Starts
    <2>4. Drag!Init => Drag!IInv
      BY DragsParameters, Drag!Starts
    <2> QED BY <2>1, <2>2, <2>3, <2>4 DEF DragsInvariant
  <1>2. DragsInvariant /\ [ServicesNext]_vars => DragsInvariant'
    <2>1. [ServicesNext]_vars =>
             /\ scene' = scene
             /\ scene = "drop" => Drop!Next \/ UNCHANGED Drop!vars
             /\ scene = "redrop" => Redrop!Next \/ UNCHANGED Redrop!vars
             /\ scene = "drag" => Drag!Next \/ UNCHANGED Drag!vars
      BY DEF ServicesNext, vars, Drop!vars, Redrop!vars, Drag!vars,
         Rest3, Rest4, Rest5, Rest6, Rest7, Rest8, Rest9, Rest10, Rest11, Rest12, Rest13
    <2>2. Drop!IInv /\ (Drop!Next \/ UNCHANGED Drop!vars) => Drop!IInv'
      BY DragsParameters, Drop!StepsKeep
    <2>3. Redrop!IInv /\ (Redrop!Next \/ UNCHANGED Redrop!vars) => Redrop!IInv'
      BY DragsParameters, Redrop!StepsKeep
    <2>4. Drag!IInv /\ (Drag!Next \/ UNCHANGED Drag!vars) => Drag!IInv'
      BY DragsParameters, Drag!StepsKeep
    <2> QED BY <2>1, <2>2, <2>3, <2>4 DEF DragsInvariant
  <1>3. DragsInvariant => DragsAreToldOver
    <2>1. Drop!IInv => Drop!ToldOfTheEnd /\ Drop!DropIsFinished
      BY DragsParameters, Drop!Promises
    <2>2. Redrop!IInv => Redrop!ToldOfTheEnd /\ Redrop!DropIsFinished
      BY DragsParameters, Redrop!Promises
    <2>3. Drag!IInv => Drag!GestureIsToldOver /\ Drag!GestureIsBound
      BY DragsParameters, Drag!Promises
    <2> QED BY <2>1, <2>2, <2>3 DEF DragsInvariant, DragsAreToldOver
  <1> QED BY <1>1, <1>2, <1>3, PTL DEF ServicesSpec

-----------------------------------------------------------------------------
(* Relays to the terminal outside. *)

Clipboard == INSTANCE RichClipboard WITH
    Owners <- Twins, Capacity <- 1, MaxRequests <- 2, MaxData <- 1, MaxAnswers <- 2,
    MaxPending <- 2, live <- v1, enabled <- v2, lease <- v3, pending <- v4, outer <- v5,
    host <- v6, owner <- v7, got <- v8, full <- v9, cut <- v10

Transfer == INSTANCE FileTransfer WITH
    Owners <- Twins, MaxSessions <- 1, MaxTransfers <- 2, MaxPackets <- 1, MaxQueue <- 2,
    live <- v1, transfers <- v2, outgoing <- v3, incoming <- v4, wire <- v5, closed <- v6,
    owner <- v7, got <- v8, data <- v9

Transfers == INSTANCE FileTransfer WITH
    Owners <- Twins, MaxSessions <- 2, MaxTransfers <- 2, MaxPackets <- 1, MaxQueue <- 2,
    live <- v1, transfers <- v2, outgoing <- v3, incoming <- v4, wire <- v5, closed <- v6,
    owner <- v7, got <- v8, data <- v9

-----------------------------------------------------------------------------
(* What a program prints. *)

Screen == INSTANCE TermScreen WITH
    Sizes <- MCScreens, Programs <- MCPrograms, HistoryLimit <- 3, MaxSteps <- 5, screen <- v1,
    program <- v2, step <- v3, last <- v4

Parser == INSTANCE TermParser WITH
    Limit <- 1, Places <- 2, MaxBytes <- 4, parser <- v1, out <- v2, seen <- v3

Modes == INSTANCE TermModes WITH
    Depth <- 1, MaxCommands <- 3, alternate <- v1, mode <- v2, mouse <- v3, keyboard <- v4,
    pointer <- v5, colors <- v6, cells <- v7, images <- v8, clears <- v9, log <- v10

Store == INSTANCE ImageStore WITH
    TopId <- 3, Numbers <- {1}, Sizes <- {1, 2}, Grids <- {"main"}, Areas <- {"a"},
    MaxImages <- 2, MaxBytes <- 3, MaxPlacements <- 1, MaxUploads <- 2, images <- v1,
    private <- v2, number <- v3, transient <- v4, dimensions <- v5, oldest <- v6,
    placements <- v7, bytes <- v8, uploads <- v9, replied <- v10

Framing == INSTANCE ImageFraming WITH
    Limit <- 9, MaxTokens <- 3, input <- v1, meant <- v2, outer <- v3, inner <- v4, events <- v5

Upload == INSTANCE ImageTransfer WITH
    MaxCommands <- 3, display <- v1, pending <- v2, quiet <- v3, sent <- v4, stored <- v5,
    answers <- v6

Overlay == INSTANCE ImageOverlay WITH
    MaxCached <- 1, MaxChanges <- 2, MaxId <- 4, pane <- v1, entries <- v2, retired <- v3,
    staged <- v4, deletes <- v5, cached <- v6, deferred <- v7, retry <- v8, shm <- v9,
    nextId <- v10, nextPlacement <- v11, outside <- v12, failed <- v13

Output == INSTANCE CommandOutput WITH
    Tokens <- MCOutput, OutputLimit <- 2, Applications <- {"nvim", "sleep"},
    Excluded <- {"nvim"}, MaxApplications <- 1, EmptyLines <- FALSE, MaxSteps <- 8,
    machine <- v1, capture <- v2, last <- v3, running <- v4, apps <- v5, reminder <- v6,
    ran <- v7, during <- v8, deserved <- v9, steps <- v10

Prompt == INSTANCE CommandOutput WITH
    Tokens <- MCOutput, OutputLimit <- 2, Applications <- {"nvim", "sleep"},
    Excluded <- {"nvim"}, MaxApplications <- 1, EmptyLines <- TRUE, MaxSteps <- 8,
    machine <- v1, capture <- v2, last <- v3, running <- v4, apps <- v5, reminder <- v6,
    ran <- v7, during <- v8, deserved <- v9, steps <- v10

Process == INSTANCE PaneProcess WITH
    QueueLimit <- 4, ReplySize <- 2, ReadSize <- 2, PipeLimit <- 2, TtyLimit <- 1,
    Tokens <- {"query", "begin"}, MaxWrites <- 2, MaxKeys <- 1, MaxRespawns <- 1, os <- v1,
    pane <- v2, inc <- v3, place <- v4, view <- v5, alone <- v6, retain <- v7, closing <- v8,
    drawn <- v9, frame <- v10, ready <- v11, pc <- v12, server <- v13, keyed <- v14

Frame == INSTANCE FrameOutput WITH
    Narrow <- MCNarrow, Wide <- MCWide, Sizes <- MCFrames, Looks <- MCLooks, LinkLimit <- 1,
    screen <- v1, host <- v2, cache <- v3

PaneScene == INSTANCE PaneView WITH
    Contents <- MCContents, Chromes <- MCChrome, request <- v1, view <- v2

ChromeScene == INSTANCE PaneView WITH
    Contents <- MCContent, Chromes <- MCChromes, request <- v1, view <- v2

-----------------------------------------------------------------------------
(* What the user sees. *)

HistoryScene == INSTANCE HistoryView WITH
    Texts <- MCTexts, Width <- 2, History <- 1, Height <- 1, MaxQuery <- 2, MaxQueries <- 1,
    text <- v1, joined <- v2, open <- v3, offset <- v4, selection <- v5, editor <- v6,
    queries <- v7, query <- v8, forward <- v9, selected <- v10, escape <- v11, paste <- v12,
    drag <- v13, copied <- v14

Picker == INSTANCE Picker WITH
    Names <- {1, 2, 3}, Worlds <- MCWorlds, Queries <- {{2}}, NewNames <- {3},
    Readings <- {"same", "bindings"}, MaxServers <- 2, MaxChanges <- 1, MaxRequests <- 1,
    live <- v1, watched <- v2, snapshots <- v3, servers <- v4, changes <- v5, home <- v6,
    requests <- v7, queue <- v8, work <- v9, alias <- v10, mail <- v11, list <- v12,
    selected <- v13, current <- v14, armed <- v15, source <- v16, editor <- v17, query <- v18,
    busy <- v19, status <- v20, reloadError <- v21, listError <- v22, choice <- v23

Bindings == INSTANCE KeyBindings WITH
    Letters <- {"c", "d", "g", "n", "?"}, Legacy <- {"c"}, Commands <- {"c", "n", "?", "["},
    Fixed <- {"n", "?", "[", "d"}, Detach <- "d", HelpCommand <- "?", History <- "[",
    Entries <- {"A", "B"}, DefaultEntry <- "B", Session <- TRUE, Order <- MCOrder,
    Inputs <- MCInputs, layers <- v1, patch <- v2, document <- v3, disabled <- v4, clear <- v5,
    cut <- v6, gone <- v7, phase <- v8, mode <- v9, help <- v10

Bar == INSTANCE WindowBar WITH
    Names <- MCNames, Session <- MCSession, Mode <- MCMode, MaxWindows <- 3, MaxColumns <- 26,
    columns <- v1, names <- v2, active <- v3, named <- v4, compact <- v5

Footer == INSTANCE FooterHints WITH
    Hints <- MCHints, Help <- MCHelp, Manager <- MCManager, Configured <- MCConfigured,
    HistoryHints <- MCHistoryHints, Widths <- {1}, Badge <- 4, HistoryBadge <- 4,
    MinimumStatus <- 3, MaxColumns <- 50, columns <- v1, mode <- v2, session <- v3,
    configured <- v4, keys <- v5

Help == INSTANCE ShortcutHelp WITH
    Panels <- MCPanels, Sizes <- MCPanelSizes, Letters <- {"n", "q", "z"}, Points <- MCPoints,
    MaxResizes <- 1, panel <- v1, size <- v2, shown <- v3, page <- v4, pages <- v5,
    escape <- v6, paste <- v7, hits <- v8, pressed <- v9, state <- v10, ran <- v11, aim <- v12,
    pasting <- v13, resizes <- v14

-----------------------------------------------------------------------------
(* What the user types, and what terminals answer. *)

Input == INSTANCE HostInput WITH
    Keys <- MCKeys, Keymaps <- MCKeymaps, Entry <- "Ctrl-B", Panes <- {"a", "b"},
    DefaultMode <- "locked", MaxReloads <- 1, mode <- v1, paste <- v2, tail <- v3, mouse <- v4,
    paneDrag <- v5, barPress <- v6, footerPress <- v7, panePress <- v8, keymap <- v9,
    bar <- v10, tracking <- v11, active <- v12, out <- v13, pasting <- v14, cut <- v15,
    down <- v16, took <- v17, reloads <- v18

Editor == INSTANCE PromptEditor WITH
    Windows <- {"u", "v", "w"}, Keys <- MCPromptKeys, Pastes <- MCPastes, MaxBytes <- 3,
    MaxSequence <- 16, MaxTokens <- 5, windows <- v1, active <- v2, prompt <- v3, opened <- v4,
    typed <- v5, answer <- v6, tokens <- v7

Host == INSTANCE HostIpc WITH
    MaxPacket <- 1, Tokens <- MCTokens, Panes <- {"p", "q"}, MaxPending <- 1, framer <- v1,
    rest <- v2, pass <- v3, focus <- v4, live <- v5, enabled <- v6, target <- v7, aim <- v8,
    event <- v9, pending <- v10, owes <- v11, got <- v12, hit <- v13, start <- v14, began <- v15

Program == INSTANCE ProgramIpc WITH
    MaxPacket <- 1, Tokens <- MCRequests, Capacity <- 2, MaxTokens <- 4, own <- v1,
    framer <- v2, rest <- v3, kind <- v4, permission <- v5, write <- v6, started <- v7,
    pending <- v8, number <- v9, previous <- v10, changed <- v11, last <- v12

Probes == INSTANCE HostProbes WITH
    Keys <- {"E", "_", "k"}, MaxKeys <- 1, MaxWire <- 3, queue <- v1, asked <- v2, wire <- v3,
    colors <- v4, pictures <- v5, shared <- v6, errors <- v7, timers <- v8, support <- v9,
    started <- v10, typed <- v11, drawn <- v12, keys <- v13, told <- v14, expired <- v15

-----------------------------------------------------------------------------
(* Progress. *)

Endpoint == INSTANCE SessionRuntime WITH
    Clients <- {"c1", "c2"}, Servers <- {"s1"}, Inodes <- {"i1", "i2"}, None <- Nil,
    Gone <- Vanished, Commands <- {"new", "kill"}, sock <- v1, lockFile <- v2, pidFile <- v3,
    lastOf <- v4, saved <- v5, workspace <- v6, excl <- v7, shared <- v8, pidRec <- v9,
    listener <- v10, backlog <- v11, peer <- v12, greeted <- v13, spc <- v14, sfd <- v15,
    armed <- v16, sig <- v17, cpc <- v18, op <- v19, fd <- v20, tgt <- v21

Saves == INSTANCE SnapshotService WITH
    Requesters <- {"r1", "r2"}, MaxClients <- 1, MaxVersion <- 0, Autosave <- FALSE,
    None <- Nil, pc <- v1, stopping <- v2, content <- v3, pending <- v4, writing <- v5,
    worker <- v6, lastError <- v7, failed <- v8, at <- v9, cpc <- v10, asked <- v11,
    visible <- v12, synced <- v13, stored <- v14, promised <- v15

Hangup == INSTANCE Attachment WITH
    Wire <- 1, FrontLimit <- 1, InputLimit <- 1, ChildLimit <- 1, MaxTyped <- 1,
    MaxRendered <- 1, MaxRenames <- 0, MaxClients <- 1, client <- v1, server <- v2, c2s <- v3,
    s2c <- v4, open <- v5, left <- v6, rendered <- v7, sent <- v8, name <- v9, queue <- v10,
    read <- v11

Config == INSTANCE ConfigReload WITH
    Versions <- {"start", "compact", "deny", "entry", "broken"}, Startup <- "start",
    Invalid <- {"broken"}, OtherEntry <- {"entry"}, Compact <- {"compact"},
    Reads <- {"start", "compact"}, Panes <- {"a", "closed"}, MaxEdits <- 2, MaxToggles <- 2,
    file <- v1, last <- v2, mailbox <- v3, candidate <- v4, current <- v5, error <- v6,
    generation <- v7, attached <- v8, busy <- v9, room <- v10, granted <- v11, sampled <- v12,
    edits <- v13, toggles <- v14

Exits == INSTANCE PaneProcess WITH
    QueueLimit <- 4, ReplySize <- 2, ReadSize <- 2, PipeLimit <- 2, TtyLimit <- 1,
    Tokens <- {"query"}, MaxWrites <- 1, MaxKeys <- 0, MaxRespawns <- 1, os <- v1, pane <- v2,
    inc <- v3, place <- v4, view <- v5, alone <- v6, retain <- v7, closing <- v8, drawn <- v9,
    frame <- v10, ready <- v11, pc <- v12, server <- v13, keyed <- v14

-----------------------------------------------------------------------------
Init == scene \in Scenes /\
    \/ scene = "clipboard" /\ Clipboard!Init /\ Idle11
    \/ scene = "transfer" /\ Transfer!Init /\ Idle10
    \/ scene = "transfers" /\ Transfers!Init /\ Idle10
    \/ scene = "screen" /\ Screen!Init /\ Idle5
    \/ scene = "parser" /\ Parser!Init /\ Idle4
    \/ scene = "modes" /\ Modes!Init /\ Idle11
    \/ scene = "store" /\ Store!Init /\ Idle11
    \/ scene = "framing" /\ Framing!Init /\ Idle6
    \/ scene = "upload" /\ Upload!Init /\ Idle7
    \/ scene = "overlay" /\ Overlay!Init /\ Idle14
    \/ scene = "output" /\ Output!Init /\ Idle11
    \/ scene = "prompt" /\ Prompt!Init /\ Idle11
    \/ scene = "process" /\ Process!Init /\ Idle15
    \/ scene = "frame" /\ Frame!Init /\ Idle4
    \/ scene = "panes" /\ PaneScene!Init /\ Idle3
    \/ scene = "chrome" /\ ChromeScene!Init /\ Idle3
    \/ scene = "history" /\ HistoryScene!Init /\ Idle15
    \/ scene = "picker" /\ Picker!Init
    \/ scene = "bindings" /\ Bindings!Init /\ Idle11
    \/ scene = "bar" /\ Bar!Init /\ Idle6
    \/ scene = "footer" /\ Footer!Init /\ Idle6
    \/ scene = "help" /\ Help!Init /\ Idle15
    \/ scene = "input" /\ Input!Init /\ Idle19
    \/ scene = "editor" /\ Editor!Init /\ Idle8
    \/ scene = "host" /\ Host!Init /\ Idle16
    \/ scene = "program" /\ Program!Init /\ Idle13
    \/ scene = "probes" /\ Probes!Init /\ Idle16
    \/ scene = "endpoint" /\ Endpoint!Init /\ Idle22
    \/ scene = "saves" /\ Saves!Init /\ Idle16
    \/ scene = "hangup" /\ Hangup!Init /\ Idle12
    \/ scene = "config" /\ Config!Init /\ Idle15
    \/ scene = "exits" /\ Exits!Init /\ Idle15

Next ==
    \/ scene = "clipboard" /\ Clipboard!Next /\ UNCHANGED <<scene, Rest11>>
    \/ scene = "transfer" /\ Transfer!Next /\ UNCHANGED <<scene, Rest10>>
    \/ scene = "transfers" /\ Transfers!Next /\ UNCHANGED <<scene, Rest10>>
    \/ scene = "screen" /\ Screen!Next /\ UNCHANGED <<scene, Rest5>>
    \/ scene = "parser" /\ Parser!Next /\ UNCHANGED <<scene, Rest4>>
    \/ scene = "modes" /\ Modes!Next /\ UNCHANGED <<scene, Rest11>>
    \/ scene = "store" /\ Store!Next /\ UNCHANGED <<scene, Rest11>>
    \/ scene = "framing" /\ Framing!Next /\ UNCHANGED <<scene, Rest6>>
    \/ scene = "upload" /\ Upload!Next /\ UNCHANGED <<scene, Rest7>>
    \/ scene = "overlay" /\ Overlay!Next /\ UNCHANGED <<scene, Rest14>>
    \/ scene = "output" /\ Output!Next /\ UNCHANGED <<scene, Rest11>>
    \/ scene = "prompt" /\ Prompt!Next /\ UNCHANGED <<scene, Rest11>>
    \/ scene = "process" /\ Process!Next /\ UNCHANGED <<scene, Rest15>>
    \/ scene = "frame" /\ Frame!Next /\ UNCHANGED <<scene, Rest4>>
    \/ scene = "panes" /\ PaneScene!Next /\ UNCHANGED <<scene, Rest3>>
    \/ scene = "chrome" /\ ChromeScene!Next /\ UNCHANGED <<scene, Rest3>>
    \/ scene = "history" /\ HistoryScene!Next /\ UNCHANGED <<scene, Rest15>>
    \/ scene = "picker" /\ Picker!Next /\ UNCHANGED scene
    \/ scene = "bindings" /\ Bindings!Next /\ UNCHANGED <<scene, Rest11>>
    \/ scene = "bar" /\ Bar!Next /\ UNCHANGED <<scene, Rest6>>
    \/ scene = "footer" /\ Footer!Next /\ UNCHANGED <<scene, Rest6>>
    \/ scene = "help" /\ Help!Next /\ UNCHANGED <<scene, Rest15>>
    \/ scene = "input" /\ Input!Next /\ UNCHANGED <<scene, Rest19>>
    \/ scene = "editor" /\ Editor!Next /\ UNCHANGED <<scene, Rest8>>
    \/ scene = "host" /\ Host!Next /\ UNCHANGED <<scene, Rest16>>
    \/ scene = "program" /\ Program!Next /\ UNCHANGED <<scene, Rest13>>
    \/ scene = "probes" /\ Probes!Next /\ UNCHANGED <<scene, Rest16>>
    \/ scene = "endpoint" /\ Endpoint!Next /\ UNCHANGED <<scene, Rest22>>
    \/ scene = "saves" /\ Saves!Next /\ UNCHANGED <<scene, Rest16>>
    \/ scene = "hangup" /\ Hangup!Next /\ UNCHANGED <<scene, Rest12>>
    \/ scene = "config" /\ Config!Next /\ UNCHANGED <<scene, Rest15>>
    \/ scene = "exits" /\ Exits!Next /\ UNCHANGED <<scene, Rest15>>

Spec == Init /\ [][Next]_vars

-----------------------------------------------------------------------------
(* What holds in each scene.  The components state and explain the parts.  *)

\* What a program that reads no answers, or a user that types nothing, lets grow.
Bounded ==
    /\ scene = "clipboard" => Clipboard!Bounded
    /\ scene = "transfer" => Transfer!Bounded
    /\ scene = "transfers" => Transfers!Bounded

\* Whatever ends a clipboard request or a file transfer, its program is told once;
\* what is committed is whole, and nothing stays open at the terminal.
RelaysAreWhole ==
    /\ scene = "clipboard" => Clipboard!AnsweredOnce /\ Clipboard!CommitsWhole
    /\ scene = "transfer" =>
          Transfer!WireInOrder /\ Transfer!NoneLeftOpen /\ Transfer!ToldOnce
    /\ scene = "transfers" =>
          Transfers!WireInOrder /\ Transfers!NoneLeftOpen /\ Transfers!ToldOnce

\* No command and no new size splits a wide glyph, lets the cursor out of the margins
\* of origin mode, or loses text that a narrower window only wraps.
TextIsKept ==
    /\ [](scene = "screen" =>
            Screen!WideWhole /\ Screen!OriginConfines /\ Screen!RestoreKeepsText)
    /\ [][scene = "screen" => Screen!ReflowKeepsText]_vars

\* Whatever the stream of a program, its tokens, its modes and the output of its
\* last command are those that the grammar and the commands define.
StreamIsRead ==
    /\ scene = "parser" => Parser!ReadsTokens
    /\ scene = "modes" => Modes!SettingsFollowCommands /\ Modes!PicturesFollowText
    /\ scene = "output" => Output!LastIsOneCommand /\ Output!RemindersAreDeserved
    /\ scene = "prompt" => Prompt!LastIsOneCommand /\ Prompt!RemindersAreDeserved
    /\ scene = "framing" => Framing!FramesTokens

\* The tables of the pictures agree at their limits, what shows is not evicted for
\* what does not, and an upload is stored if and only if the program was told so.
PicturesAreTrue ==
    /\ [](scene = "store" => Store!StoreWhole)
    /\ [](scene = "upload" => Upload!StoredIsWhole /\ Upload!AnswersAreTrue)
    /\ [][scene = "store" => Store!ShownOutliveUploads]_vars

\* The terminal outside shows the frame that was composed, cell by cell and picture
\* by picture, however it was brought there and whatever of it failed.
FramesAreTrue ==
    /\ [](scene = "overlay" => Overlay!NothingIsLost)
    /\ [](scene = "frame" => Frame!FrameIsShown)
    /\ [](scene = "panes" => PaneScene!GlyphsAreWhole /\ PaneScene!PanesAreShown)
    /\ [](scene = "chrome" => ChromeScene!CursorIsWhereKeysGo)
    /\ [][scene = "overlay" => Overlay!FrameIsTrue]_vars

\* What is copied from the history is what is shown inverted, and the end of a
\* selection stays in sight and in its column.
HistoryIsTrue ==
    /\ [](scene = "history" => HistoryScene!ColumnIsKept)
    /\ [][scene = "history" => HistoryScene!CopiedIsShown /\ HistoryScene!CursorIsSeen]_vars

\* The session manager acts on the session it shows selected, once, whatever the
\* refreshes that come between the keys.
ManagerIsTrue ==
    /\ [](scene = "picker" => Picker!ConfirmIsShown /\ Picker!OneOperation)
    /\ [][scene = "picker" => Picker!SelectionStays /\ Picker!ReturnsHome]_vars

\* A click runs what is drawn under it, in both bars and the help panel, and the
\* bindings of a configuration leave a way into and out of every mode.
KeysAreTrue ==
    /\ [](scene = "bindings" => Bindings!RemovedStaysRemoved /\ Bindings!EntryIsReachable)
    /\ [](scene = "bar" => Bar!BarIsTrue)
    /\ [](scene = "footer" => Footer!FooterIsTrue)
    /\ [](scene = "help" => Help!PointsAtWhatIsShown /\ Help!EveryCommandIsListed)
    /\ [][scene = "help" => Help!RunsWhatIsClicked]_vars

\* A key means one command however it is encoded, pastes and gestures go where they
\* began, bindings change between inputs only, and a prompt's answer is for its own
\* question.
InputIsTyped ==
    /\ [](scene = "input" => Input!KittyIsTyping /\ Input!SequencesAreWhole)
    /\ [](scene = "editor" => Editor!TextIsTyped /\ Editor!AnswerIsForTheQuestion)
    /\ [][scene = "input" =>
            Input!PasteIsInert /\ Input!GestureStaysLocal /\ Input!ReloadWaits]_vars

\* What terminals answer is taken out of what is typed, each packet once and whole
\* and to whom it is for, and every key goes on.
PacketsAreTaken ==
    /\ [](scene = "host" => Host!PacketsAreDelivered)
    /\ [](scene = "program" => Program!RevokedIsGone)
    /\ [](scene = "probes" =>
            Probes!KeysAreKept /\ Probes!AnswersAreTaken /\ Probes!SupportIsTrue)
    /\ [][scene = "host" => Host!BytesAreKept /\ Host!PasteGoesWhereItBegan]_vars
    /\ [][scene = "program" => Program!NoHoleIsTaken]_vars

\* A reload keeps the last good file in force; and a pane reads its process to the
\* last word, types into that process only, and shows the last frame before it goes.
PanesAndFilesAreTrue ==
    /\ [](scene = "config" => Config!LastGoodInForce)
    /\ [](scene = "process" =>
            Process!LastWordsAreRead /\ Process!KeysAreForThisProcess /\ Process!AnswersFit)
    /\ [][scene = "process" => Process!LastFrameIsShown]_vars

-----------------------------------------------------------------------------
(* Progress, under the fairness that each component states.                *)

OfEndpoint(A) == scene = "endpoint" /\ A /\ UNCHANGED <<scene, Rest22>>
OfSaves(A) == scene = "saves" /\ A /\ UNCHANGED <<scene, Rest16>>
OfHangup(A) == scene = "hangup" /\ A /\ UNCHANGED <<scene, Rest12>>
OfConfig(A) == scene = "config" /\ A /\ UNCHANGED <<scene, Rest15>>
OfExits(A) == scene = "exits" /\ A /\ UNCHANGED <<scene, Rest15>>

Fairness ==
    /\ \A c \in {"c1", "c2"} : WF_vars(OfEndpoint(Endpoint!ClientProgress(c)))
    /\ WF_vars(OfEndpoint(Endpoint!ServerProgress("s1")))
    /\ SF_vars(OfEndpoint(Endpoint!Obeys("s1")))
    /\ WF_vars(OfSaves(Saves!Loop)) /\ SF_vars(OfSaves(Saves!Tick)) /\ WF_vars(OfSaves(Saves!Writer))
    /\ SF_vars(OfSaves(Saves!Reads("r1"))) /\ SF_vars(OfSaves(Saves!Sends("r1")))
    /\ WF_vars(OfHangup(Hangup!Bridge)) /\ WF_vars(OfHangup(Hangup!GivesUp))
    /\ WF_vars(OfHangup(Hangup!Accepts)) /\ WF_vars(OfHangup(Hangup!Loop))
    /\ WF_vars(OfHangup(Hangup!ChildReads))
    /\ WF_vars(OfConfig(Config!WorkerReads)) /\ WF_vars(OfConfig(Config!Sample))
    /\ SF_vars(OfConfig(Config!Apply)) /\ WF_vars(OfConfig(Config!Finishes))
    /\ WF_vars(OfExits(Exits!Turn)) /\ WF_vars(OfExits(Exits!ClientTakes))

FairSpec == Spec /\ Fairness

\* What happens is noticed: a server whose handlers have recorded SIGTERM stops,
\* whatever clients keep connecting; the server of a client that is gone is freed; the
\* pane of a process that ended is removed, retained with all its output, or respawned,
\* although a background job still holds its terminal; and a configuration ends up in
\* force, or its refusal is shown, once nobody edits it.
EventsAreNoticed ==
    \/ scene = "endpoint" /\ Endpoint!Signalled("s1")
    \/ scene = "hangup" /\ Hangup!HungUp(1)
    \/ scene = "exits" /\ Exits!Ended
    \/ scene = "config" /\ Config!Edited
    ~>
    /\ scene = "endpoint" => ~Endpoint!Running("s1")
    /\ scene = "hangup" => Hangup!Freed(1)
    /\ scene = "exits" => Exits!Settled
    /\ scene = "config" => Config!Followed

\* Nobody is kept for ever: no command keeps the workspace lock, not even one whose
\* server never answers its Hello; no connection that asked for a save is retained, so
\* it locks nobody out of saving; and neither output, a name notice nor blocked input
\* keeps a client that leaves.  Clients are alike, hence one of them.
NobodyIsKept ==
    \/ scene = "endpoint" /\ Endpoint!Holds("c1")
    \/ scene = "saves" /\ Saves!Retained("r1")
    \/ scene = "hangup" /\ Hangup!Leaving(1)
    ~>
    /\ scene = "endpoint" => ~Endpoint!Holds("c1")
    /\ scene = "saves" => ~Saves!Retained("r1")
    /\ scene = "hangup" => Hangup!Left(1)

=============================================================================
