--------------------------- MODULE InteractiveView ---------------------------
(***************************************************************************)
(* The interactive view.  Keys and resizes act at once; what a widget says *)
(* of itself (the row under its cursor, its new width, the page it shows)  *)
(* is a message handled later, in order for each widget and in any order   *)
(* between them.  The view refills tables and the tree under messages that *)
(* are still on their way.                                                 *)
(***************************************************************************)
EXTENDS Integers, Sequences, FiniteSets

CONSTANTS
  Disks,      \* the drives of the inventory, in order: the rows of each table
  Machine,    \* the subject of the tree's first line
  NoSubject,  \* that of a line that is about nothing, such as a header
  Parent,     \* the parent of each PCI node; a root's parent is NoSubject
  Lines,      \* the subjects of the tree's lines, for each density in turn
  LineCount,  \* the lines of a long page at a width: LineCount[content][width]
  Widths,     \* of the terminal
  Heights,    \* of the window of a long page
  MaxMoves    \* bound: keys pressed and terminals resized

ASSUME ViewSizes ==
  /\ Disks \in Seq(STRING) /\ Len(Disks) > 0 /\ MaxMoves \in Nat
  /\ Widths \subseteq {w \in Nat : w > 2} /\ Heights \subseteq Nat \ {0}
  /\ Lines \in Seq(Seq(STRING)) /\ Len(Lines) > 0
  /\ \A d \in DOMAIN Lines : Lines[d] # <<>> /\ Lines[d][1] = Machine
  /\ DOMAIN LineCount = {0, 1}

\* The pages that differ in kind; each has one widget, of the same name.
Tables == {"disks", "health"}
Pages == Tables \cup {"topology", "smart"}
Fitted == {"topology", "disks"}      \* laid out for a width the view remembers
Nodes == DOMAIN Parent

\* Nothing hangs on itself, through however many bridges.
ASSUME FabricIsATree ==
  /\ Machine \notin Nodes \cup {NoSubject} /\ NoSubject \notin Nodes /\ IsFiniteSet(Nodes)
  /\ \E depth \in [Nodes -> 1..Cardinality(Nodes)] :
       \A n \in Nodes : Parent[n] # NoSubject => Parent[n] \in Nodes /\ depth[Parent[n]] < depth[n]

Nothing == "nothing selected"

VARIABLES
  screen,      \* the size of the terminal
  page, focus, \* TabbedContent.active, and the page whose widget has the focus
  post,        \* messages on their way from each widget, and from the tabs
  cursor, rowOf,                    \* of each table, and as the view recorded it
  density, highlighted, treeHighlighted,  \* of the tree, likewise
  panel,       \* whose record the panel shows
  strip, scrolled,   \* whose wwn the strip shows, and whether it is scrolled
  region, widthUsed, \* the width a widget was given, and the one it was filled for
  smart,       \* the long page: its content, and the lines it has in hand
  moves,       \* bound: keys and resizes so far
  chosen, everDrawn, scrolledAt  \* history: what the reader put the tree's cursor on,
                                 \* whether it was drawn ever since; the drive scrolled

tables == <<cursor, rowOf, strip, scrolled, scrolledAt>>
tree == <<density, highlighted, treeHighlighted, chosen, everDrawn>>
viewVars == <<screen, page, focus, post, cursor, rowOf, density, highlighted, treeHighlighted, panel,
              strip, scrolled, region, widthUsed, smart, moves, chosen, everDrawn, scrolledAt>>

Size == [width : Widths, height : Heights]
NotLaidOut == [width |-> 0, height |-> 0]

ViewTypeOK ==
  /\ screen \in Size
  /\ page \in Pages /\ focus \in Pages
  /\ DOMAIN post = Fitted \cup Tables \cup {"tabs"}
  /\ cursor \in [Tables -> DOMAIN Disks]
  /\ \A t \in Tables : rowOf[t] = 0 \/ rowOf[t] \in DOMAIN Disks
  /\ density \in DOMAIN Lines
  /\ highlighted \in DOMAIN Lines[density] /\ treeHighlighted \in Nat
  /\ strip \in DOMAIN Disks /\ scrolled \in BOOLEAN
  /\ \A f \in Fitted : region[f] \in Nat /\ widthUsed[f] \in Nat \ {0}
  /\ moves \in 0..MaxMoves

-----------------------------------------------------------------------------
(* What a widget says                                                      *)

Row(r) == [says |-> "row", value |-> r]
Resized(w) == [says |-> "width", value |-> w]
Highlight(i) == [says |-> "line", value |-> i]
TabActivated == [says |-> "tab", value |-> 0]

Post(sent) == post' = [w \in DOMAIN post |-> post[w] \o IF w \in DOMAIN sent THEN sent[w] ELSE <<>>]
\* The head of a widget's messages is handled, and the handler posts more.
Answer(w, sent) ==
  post' = [x \in DOMAIN post |-> (IF x = w THEN Tail(post[x]) ELSE post[x])
                                 \o IF x \in DOMAIN sent THEN sent[x] ELSE <<>>]
Says(w, what) == post[w] # <<>> /\ Head(post[w]).says = what
Said(w) == Head(post[w]).value
Quiet == \A w \in DOMAIN post : post[w] = <<>>

\* The border and the gutter a widget does not draw in.  A page nobody has
\* opened has no width yet, and the terminal's own stands in for it.
Room(w) == w - 1
WidthFor(f) == IF region[f] > 0 THEN region[f] ELSE screen.width

-----------------------------------------------------------------------------
(* Filling the tables and the tree                                         *)

\* A table is emptied and filled: its first row is announced, and the row the
\* cursor is put back on.
Refilled(kept) == <<Row(1)>> \o IF kept > 1 THEN <<Row(kept)>> ELSE <<>>

\* scroll_to(0): whatever is shown in the strip is shown from its beginning.
ShowWwn(disk) == strip' = disk /\ scrolled' = FALSE

SubjectAt(d, i) == IF i \in DOMAIN Lines[d] THEN Lines[d][i] ELSE NoSubject
Drawn(d) == {Lines[d][i] : i \in DOMAIN Lines[d]} \ {NoSubject}
LineAbout(d, subject) == CHOOSE i \in DOMAIN Lines[d] : Lines[d][i] = subject

Ancestors[n \in Nodes \cup {NoSubject}] ==
  IF n = NoSubject THEN <<>> ELSE <<n>> \o Ancestors[Parent[n]]

SlipKeepTheLine(subject, d) ==
  IF highlighted \in DOMAIN Lines[d] /\ Lines[d][highlighted] # NoSubject THEN highlighted ELSE 1

\* _line_of: the device itself, or the nearest ancestor of a PCI node that is
\* drawn; otherwise the first line that is about something.
LineOf(subject, d) ==
  LET up == IF subject \in Nodes THEN Ancestors[subject] ELSE <<subject>>
      drawn == {i \in DOMAIN up : up[i] \in Drawn(d)}
  IN  IF drawn = {} THEN LineAbout(d, Machine)
      ELSE LineAbout(d, up[CHOOSE i \in drawn : \A j \in drawn : i <= j])

\* The tree keeps the device under its cursor, not the line.
RefillTree(d) ==
  /\ density' = d
  /\ highlighted' = LineOf(SubjectAt(density, highlighted), d)
  /\ everDrawn' = (everDrawn /\ chosen \in Drawn(d))
  /\ UNCHANGED <<treeHighlighted, chosen>>

-----------------------------------------------------------------------------
(* Keys                                                                    *)

Key == moves < MaxMoves /\ moves' = moves + 1

ShowPage ==
  /\ Key
  /\ \E p \in Pages \ {page} : page' = p
  /\ Post([x \in {"tabs"} |-> <<TabActivated>>])
  /\ UNCHANGED <<screen, focus, tables, tree, panel, region, widthUsed, smart>>

\* A key goes to the widget in focus, which is the last page's for a moment.
MoveRow ==
  /\ Key
  /\ \E t \in Tables \cap {page, focus}, r \in DOMAIN Disks :
        /\ r # cursor[t]
        /\ cursor' = [cursor EXCEPT ![t] = r]
        /\ Post([x \in {t} |-> <<Row(r)>>])
  /\ UNCHANGED <<screen, page, focus, tree, rowOf, strip, scrolled, scrolledAt,
                 panel, region, widthUsed, smart>>

MoveLine ==
  /\ Key
  /\ "topology" \in {page, focus}
  /\ \E i \in DOMAIN Lines[density] :
        /\ i # highlighted /\ Lines[density][i] # NoSubject
        /\ highlighted' = i /\ chosen' = Lines[density][i] /\ everDrawn' = TRUE
        /\ Post([x \in {"topology"} |-> <<Highlight(i)>>])
  /\ UNCHANGED <<screen, page, focus, tables, density, treeHighlighted,
                 panel, region, widthUsed, smart>>

TreeDensity ==
  /\ Key
  /\ page = "topology"
  /\ RefillTree((density % Len(Lines)) + 1)
  /\ widthUsed' = [widthUsed EXCEPT !["topology"] = WidthFor("topology")]
  /\ Post([x \in {"topology"} |-> <<Highlight(highlighted')>>])
  /\ UNCHANGED <<screen, page, focus, tables, panel, region, smart>>

ScrollWwn ==
  /\ Key
  /\ page = "disks"
  /\ scrolled' \in BOOLEAN /\ scrolledAt' = IF scrolled' THEN strip ELSE scrolledAt
  /\ UNCHANGED <<screen, page, focus, post, tree, cursor, rowOf, strip, panel, region, widthUsed, smart>>

\* _refresh_detail: from what the view has recorded.
RecordShown(p) ==
  IF p = "topology" /\ SubjectAt(density, treeHighlighted) # NoSubject
    THEN SubjectAt(density, treeHighlighted)
  ELSE IF p \in Tables /\ rowOf[p] # 0 THEN Disks[rowOf[p]] ELSE Nothing

SlipNewContent == [smart EXCEPT !.content = 1 - @, !.laidOutFor = NotLaidOut]
NewContent == [content |-> 1 - smart.content, laidOutFor |-> NotLaidOut, renderedAt |-> 0,
               lines |-> smart.lines]

\* action_rescan: every page is filled again, and the panel refreshed from the
\* rows recorded so far; the messages of the refill come after.
Rescan ==
  /\ Key
  /\ smart' = NewContent
  /\ RefillTree(density)
  /\ cursor' = [t \in Tables |-> 1]
  /\ ShowWwn(1)
  /\ widthUsed' = [f \in Fitted |-> WidthFor(f)]
  /\ panel' = RecordShown(page)
  /\ Post([w \in Tables \cup {"topology"} |->
             IF w \in Tables THEN Refilled(1) ELSE <<Highlight(highlighted')>>])
  /\ UNCHANGED <<screen, page, focus, rowOf, region, scrolledAt>>

ResizeTerminal ==
  /\ Key
  /\ screen' \in Size \ {screen}
  /\ UNCHANGED <<page, focus, post, tables, tree, panel, region, widthUsed, smart>>

-----------------------------------------------------------------------------
(* What follows by itself                                                  *)

\* Textual lays out what is shown, and the widget posts the width it got.
LayOutWidget ==
  /\ page \in Fitted /\ region[page] # Room(screen.width)
  /\ region' = [region EXCEPT ![page] = Room(screen.width)]
  /\ Post([x \in {page} |-> <<Resized(Room(screen.width))>>])
  /\ UNCHANGED <<screen, page, focus, tables, tree, panel, widthUsed, smart, moves>>

ActivateTab ==
  /\ Says("tabs", "tab")
  /\ focus' = page
  /\ panel' = RecordShown(page)
  /\ Answer("tabs", <<>>)
  /\ UNCHANGED <<screen, page, tables, tree, region, widthUsed, smart, moves>>

SlipShowTheHiddenPage(t) ==
  /\ Says(t, "row")
  /\ rowOf' = [rowOf EXCEPT ![t] = Said(t)]
  /\ IF t = "disks" THEN ShowWwn(Said(t)) ELSE UNCHANGED <<strip, scrolled>>
  /\ panel' = Disks[Said(t)]
  /\ Answer(t, <<>>)
  /\ UNCHANGED <<screen, page, focus, cursor, scrolledAt, tree, region, widthUsed, smart, moves>>

SlipStripOfTheShownPage(t) ==
  /\ Says(t, "row")
  /\ rowOf' = [rowOf EXCEPT ![t] = Said(t)]
  /\ IF t = page /\ t = "disks" THEN ShowWwn(Said(t)) ELSE UNCHANGED <<strip, scrolled>>
  /\ panel' = IF t = page THEN Disks[Said(t)] ELSE panel
  /\ Answer(t, <<>>)
  /\ UNCHANGED <<screen, page, focus, cursor, scrolledAt, tree, region, widthUsed, smart, moves>>

SlipStripKeepsItsScroll(t) ==
  /\ Says(t, "row")
  /\ rowOf' = [rowOf EXCEPT ![t] = Said(t)]
  /\ strip' = (IF t = "disks" THEN Said(t) ELSE strip) /\ UNCHANGED scrolled
  /\ panel' = IF t = page THEN Disks[Said(t)] ELSE panel
  /\ Answer(t, <<>>)
  /\ UNCHANGED <<screen, page, focus, cursor, scrolledAt, tree, region, widthUsed, smart, moves>>

\* on_data_table_row_highlighted: recorded for any page, drawn for this one.
RowHighlighted(t) ==
  /\ Says(t, "row")
  /\ rowOf' = [rowOf EXCEPT ![t] = Said(t)]
  /\ IF t = "disks" THEN ShowWwn(Said(t)) ELSE UNCHANGED <<strip, scrolled>>
  /\ panel' = IF t = page THEN Disks[Said(t)] ELSE panel
  /\ Answer(t, <<>>)
  /\ UNCHANGED <<screen, page, focus, cursor, scrolledAt, tree, region, widthUsed, smart, moves>>

LineHighlighted ==
  /\ Says("topology", "line")
  /\ treeHighlighted' = Said("topology")
  /\ panel' = IF page # "topology" THEN panel
              ELSE IF SubjectAt(density, Said("topology")) = NoSubject THEN Nothing
              ELSE SubjectAt(density, Said("topology"))
  /\ Answer("topology", <<>>)
  /\ UNCHANGED <<screen, page, focus, tables, density, highlighted, chosen, everDrawn,
                 region, widthUsed, smart, moves>>

SlipUnfitting(f) == Said(f) > widthUsed[f]
Unfitting(f) == Said(f) # widthUsed[f]

\* The message's width is compared; the widget's own, by now another perhaps,
\* is what the page is filled for.
DisksResized ==
  /\ Says("disks", "width")
  /\ IF Unfitting("disks")
       THEN /\ widthUsed' = [widthUsed EXCEPT !["disks"] = WidthFor("disks")]
            /\ ShowWwn(cursor["disks"])
            /\ Answer("disks", [x \in {"disks"} |-> Refilled(cursor["disks"])])
       ELSE Answer("disks", <<>>) /\ UNCHANGED <<widthUsed, strip, scrolled>>
  /\ UNCHANGED <<screen, page, focus, cursor, rowOf, scrolledAt, tree, panel, region, smart, moves>>

TreeResized ==
  /\ Says("topology", "width")
  /\ IF Unfitting("topology")
       THEN /\ widthUsed' = [widthUsed EXCEPT !["topology"] = WidthFor("topology")]
            /\ RefillTree(density)
            /\ Answer("topology", [x \in {"topology"} |-> <<Highlight(highlighted')>>])
       ELSE Answer("topology", <<>>) /\ UNCHANGED <<widthUsed, tree>>
  /\ UNCHANGED <<screen, page, focus, tables, panel, region, smart, moves>>

-----------------------------------------------------------------------------
(* LongPage: laid out when it is drawn, for the size it then has           *)

PageSize == [width |-> Room(screen.width), height |-> screen.height]

\* The scrollbar takes a column only where the page overflows at full width.
WidthThatFits(content, size) ==
  IF LineCount[content][size.width] > size.height THEN size.width - 1 ELSE size.width

DrawPage ==
  /\ page = "smart" /\ smart.laidOutFor # PageSize
  /\ LET w == WidthThatFits(smart.content, PageSize)
     IN  smart' = IF w = smart.renderedAt
                    THEN [smart EXCEPT !.laidOutFor = PageSize]
                    ELSE [smart EXCEPT !.laidOutFor = PageSize, !.renderedAt = w,
                                       !.lines = [content |-> smart.content, width |-> w]]
  /\ UNCHANGED <<screen, page, focus, post, tables, tree, panel, region, widthUsed, moves>>

-----------------------------------------------------------------------------
\* on_mount has filled every page before any of them has a width.
ViewInit ==
  /\ screen \in Size
  /\ page = "topology" /\ focus = "topology"
  /\ cursor = [t \in Tables |-> 1] /\ rowOf = [t \in Tables |-> 0]
  /\ density \in DOMAIN Lines /\ highlighted = 1 /\ treeHighlighted = 0
  /\ post = [w \in (Pages \ {"smart"}) \cup {"tabs"} |->
               CASE w \in Tables -> Refilled(1)
                 [] w = "topology" -> <<Highlight(1)>>
                 [] w = "tabs" -> <<TabActivated>>]
  /\ panel = Nothing
  /\ strip = 1 /\ scrolled = FALSE
  /\ region = [f \in Fitted |-> 0]
  /\ widthUsed = [f \in Fitted |-> screen.width]
  /\ smart = [content |-> 0, laidOutFor |-> NotLaidOut, renderedAt |-> 0,
              lines |-> [content |-> 0, width |-> 0]]
  /\ moves \in {0, MaxMoves}
  /\ chosen = Machine /\ everDrawn = TRUE /\ scrolledAt = 1

ViewStep ==
  \/ LayOutWidget \/ ActivateTab \/ (\E t \in Tables : RowHighlighted(t))
  \/ LineHighlighted \/ DisksResized \/ TreeResized \/ DrawPage

ViewMove ==
  \/ ShowPage \/ MoveRow \/ MoveLine \/ TreeDensity \/ ScrollWwn \/ Rescan \/ ResizeTerminal

ViewNext == ViewStep \/ ViewMove
ViewSpec == ViewInit /\ [][ViewNext]_viewVars

-----------------------------------------------------------------------------
(* What must hold                                                          *)

UnderTheCursor ==
  IF page = "topology" THEN SubjectAt(density, highlighted)
  ELSE IF page \in Tables THEN Disks[cursor[page]] ELSE Nothing

\* Once no message is on its way the panel is about what the cursor of the page
\* shown stands on, whatever was refilled or shown in between.
PanelIsOfTheCursor == Quiet => panel = UnderTheCursor

\* The strip below the drives is that of the drive under their cursor, also
\* while another page is shown, and it starts at its beginning for each drive.
StripIsOfTheCursor ==
  /\ post["disks"] = <<>> => strip = cursor["disks"]
  /\ scrolled => scrolledAt = strip

\* A page is filled for the width its widget has; a width that came and went
\* while the message of an earlier one was waiting leaves it right as well.
FilledForItsWidth ==
  \A f \in Fitted : region[f] # 0 /\ (\A i \in DOMAIN post[f] : post[f][i].says # "width")
                      => widthUsed[f] = region[f]

\* The cursor of the tree stays with a device for as long as the tree draws it,
\* and otherwise goes up to what it hangs on, never to a neighbour.
TreeKeepsTheDevice ==
  LET subject == SubjectAt(density, highlighted)
  IN  /\ everDrawn => subject = chosen
      /\ \/ subject = Machine
         \/ subject = chosen
         \/ chosen \in Nodes /\ \E i \in DOMAIN Ancestors[chosen] : Ancestors[chosen][i] = subject

\* What a long page has in hand, once laid out for its size, is the content it
\* was last given, at the width that content has there.
LongPageIsCurrent ==
  smart.laidOutFor # NotLaidOut =>
    smart.lines = [content |-> smart.content,
                   width |-> WidthThatFits(smart.content, smart.laidOutFor)]

\* One machine on one screen: whatever was posted before a rescan or a resize, at
\* rest the panel, the strip, the columns, the tree and the long page agree.
ScreenAgrees ==
  /\ PanelIsOfTheCursor /\ StripIsOfTheCursor /\ FilledForItsWidth
  /\ TreeKeepsTheDevice /\ LongPageIsCurrent
=============================================================================
