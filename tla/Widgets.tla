-------------------------------- MODULE Widgets --------------------------------
(***************************************************************************)
(* The widgets of Bootstrap side by side on a page: a dialog, a carousel, a    *)
(* tip, a typeahead, an accordion, tabs and menus.  Their events come in any   *)
(* order, and none touches what another keeps.                               *)
(***************************************************************************)
EXTENDS Integers, FiniteSets

CONSTANTS
  MaxShows,                                \* of the dialog
  Pictures, MaxWaiting,                    \* of the carousel
  MaxEvents,                               \* of the tip
  Entries, Texts, Blank, Matches, MaxAsked,  \* of the typeahead
  Groups, MaxObjects,                      \* of the accordion
  Labels, MaxPanesWaiting,                 \* of the tabs
  Toggles, MenuOf, Items                   \* of the menus

(* A carousel has a picture, and the items of a typeahead have numbers in the order of its *)
(* sorter.                                                                         *)
ASSUME PicturesAssumed == Pictures \in Nat \ {0}
ASSUME EntriesAssumed == IsFiniteSet(Entries) /\ Entries = 1 .. Cardinality(Entries)
ASSUME LabelsAssumed == IsFiniteSet(Labels)

VARIABLES
  fade, isShown, element, timers, backdrop, backdrops, shows, hurried,
  active, moving, sliding, paused, interval, slids, waiting, prevented,
  options, enabled, timer, hoverState, tip, removals, events, gone, destroyed, hindered,
  text, query, asked, clock, menu, activeItem, shown, focused, mousedover,
  openGroups, object, objects, busy, movingGroups, ends, hidePrevented,
  panesFade, tab, activePanes, in, panesWaiting, panesHurried,
  touch, disabled, made, open, touchBackdrops, focus

dialog == <<fade, isShown, element, timers, backdrop, backdrops, shows, hurried>>
slides == <<active, moving, sliding, paused, interval, slids, waiting, prevented>>
tips == <<options, enabled, timer, hoverState, tip, removals, events, gone, destroyed, hindered>>
list == <<text, query, asked, clock, menu, activeItem, shown, focused, mousedover>>
groups == <<openGroups, object, objects, busy, movingGroups, ends, hidePrevented>>
panes == <<panesFade, tab, activePanes, in, panesWaiting, panesHurried>>
menus == <<touch, disabled, made, open, touchBackdrops, focus>>
widgets == <<dialog, slides, tips, list, groups, panes, menus>>

Dialog == INSTANCE Modal
Slides == INSTANCE Carousel WITH Items <- Pictures
Tip == INSTANCE Tooltip WITH timers <- removals
List == INSTANCE Typeahead WITH Items <- Entries, active <- activeItem
Accord == INSTANCE Accordion WITH
  open <- openGroups, moving <- movingGroups, prevented <- hidePrevented
Pane == INSTANCE Tabs WITH
  Tabs <- Labels, MaxWaiting <- MaxPanesWaiting,
  fade <- panesFade, active <- activePanes, waiting <- panesWaiting, hurried <- panesHurried
Drop == INSTANCE Dropdown WITH backdrops <- touchBackdrops

-----------------------------------------------------------------------------
WidgetsInit ==
  /\ Dialog!Init /\ Slides!Init /\ Tip!Init /\ List!Init /\ Accord!Init /\ Pane!Init /\ Drop!Init

DialogStep == Dialog!Next /\ UNCHANGED <<slides, tips, list, groups, panes, menus>>
SlidesStep == Slides!Next /\ UNCHANGED <<dialog, tips, list, groups, panes, menus>>
TipStep == Tip!Next /\ UNCHANGED <<dialog, slides, list, groups, panes, menus>>
ListStep == List!Next /\ UNCHANGED <<dialog, slides, tips, groups, panes, menus>>
AccordStep == Accord!Next /\ UNCHANGED <<dialog, slides, tips, list, panes, menus>>
PaneStep == Pane!Next /\ UNCHANGED <<dialog, slides, tips, list, groups, menus>>
DropStep == Drop!Next /\ UNCHANGED <<dialog, slides, tips, list, groups, panes>>

WidgetsNext ==
  \/ DialogStep \/ SlidesStep \/ TipStep \/ ListStep \/ AccordStep \/ PaneStep \/ DropStep

WidgetsSpec == WidgetsInit /\ [][WidgetsNext]_widgets

-----------------------------------------------------------------------------
(* Bootstrap: when all is still each widget shows what its plugin object believes, whatever *)
(* transitions were cut short, and none waits for what will not come.                    *)
WidgetsKept ==
  /\ Dialog!DialogAsShown /\ Slides!CarouselGoesOn /\ Tip!NoTipLeft /\ List!MenuMatches
  /\ Accord!OneOpen /\ Pane!PaneOfTab /\ Drop!OneMenu
=============================================================================
